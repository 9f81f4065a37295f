---------------------------- MODULE OpeningRules ----------------------------
(***************************************************************************)
(* The availability engine: who can take a start, and which starts of a    *)
(* day are offered.  rows holds what an owner keeps (policy, services,     *)
(* staff, hours, blocks), taken the places of the bookings that count as   *)
(* busy.  Time is counted in one small unit; a tenant's zone is a fixed    *)
(* shift.  A page of the front desk names neither options nor a location.  *)
(***************************************************************************)
EXTENDS Integers, FiniteSets

CONSTANTS Day,         \* units in a day
          Zone,        \* shift of the tenant's local time
          Limit,       \* starts offered for a day: 24 on the public route
          Anyone,      \* no staff member or resource asked for
          NoResource,  \* the candidate of a service that needs none
          Never        \* recurrence_until IS NULL, no same-day cutoff

\* Staff and resources are numbered in the order they are tried in.
ASSUME ClockAssumption ==
  /\ Day \in Nat \ {0} /\ Zone \in Int
  /\ NoResource \in Nat /\ Anyone \notin Nat

\* What the CHECK constraints of the tables admit.
Admitted(rows) ==
  /\ \A s \in DOMAIN rows.services :
       LET service == rows.services[s]
       IN /\ service.active \in BOOLEAN /\ service.duration \in Nat \ {0}
          /\ service.bufferBefore \in Nat /\ service.bufferAfter \in Nat
          /\ service.staff \subseteq Nat \cap DOMAIN rows.capacity
          /\ service.resources \subseteq (Nat \ {NoResource}) \cap DOMAIN rows.capacity
  /\ \A u \in DOMAIN rows.capacity : rows.capacity[u] \in Nat
  /\ \A i \in rows.hours \cup rows.overrides : i.from \in Nat /\ i.to \in Nat
  /\ \A o \in rows.overrides : o.off \in BOOLEAN
  /\ \A away \in rows.away : away.window.from \in Int /\ away.window.to \in Int
  /\ \A block \in rows.blocks :
       /\ block.from \in Int /\ block.to \in Int /\ block.step \in Nat
       /\ block.until # Never => block.until \in Int
  /\ IsFiniteSet(rows.external)

LocalDate(t) == (t + Zone) \div Day
LocalMinute(t) == (t + Zone) % Day
Weekday(t) == LocalDate(t) % 7

\* zonedLocalToUtc
AtLocal(date, minute) == date * Day + minute - Zone

Overlap(v, w) == v.from < w.to /\ w.from < v.to

EvaluateBookingStart(policy, start, now) ==
  /\ start >= now + policy.minimumLead
  /\ start <= now + policy.bookingHorizonDays * Day
  /\ LocalMinute(start) % policy.slotInterval = 0
  /\ policy.sameDayCutoff # Never /\ LocalDate(start) = LocalDate(now)
       => LocalMinute(now) < policy.sameDayCutoff

\* The service time with its buffers.
Effective(service, start) ==
  [from |-> start - service.bufferBefore,
   to |-> start + service.duration + service.bufferAfter]

BeforeEnd(minute, interval) == minute + 1 <= interval.to
OneLate(minute, interval) == minute <= interval.to   \* mutant: the last minute
                                                     \* compared as if exclusive
Ends(minute, interval) == BeforeEnd(minute, interval)

\* windowFits: all of the window on one local date, inside one interval.
WindowFits(w, intervals) ==
  /\ LocalDate(w.from) = LocalDate(w.to - 1)
  /\ \E i \in intervals :
       LocalMinute(w.from) >= i.from /\ Ends(LocalMinute(w.to - 1), i)

\* The day of the start decides: overrides of that date replace the weekly
\* hours, one that says off closes the day.
OpenFor(rows, person, start, w) ==
  LET overrides == {o \in rows.overrides : o.staff = person /\ o.date = LocalDate(start)}
      weekly == {h \in rows.hours : h.staff = person /\ h.weekday = Weekday(start)}
  IN IF overrides # {}
     THEN (\A o \in overrides : ~o.off) /\ WindowFits(w, overrides)
     ELSE WindowFits(w, weekly)

\* The query of getCalendarBlocks for one block: a repeated block is expanded
\* from its first start to the end of the repetition or of the window.
StillRepeats(block, w) == block.until = Never \/ block.until >= w.from
Ended(block, w) == block.until = Never \/ block.until > w.from  \* mutant
Repeats(block, w) == StillRepeats(block, w)
Starts(block, w) ==
  LET last == IF block.until = Never \/ w.to < block.until THEN w.to ELSE block.until
  IN IF block.step = 0 THEN {block.from}
     ELSE {t \in block.from .. last : (t - block.from) % block.step = 0}
Occurrences(block, w) ==
  IF block.from < w.to /\ (block.step = 0 \/ Repeats(block, w))
  THEN {o \in {[from |-> t, to |-> t + (block.to - block.from)] : t \in Starts(block, w)} :
          Overlap(o, w)}
  ELSE {}

InScope(block, person, resource) ==
  block.scope = "TENANT" \/ block.unit \in {person, resource}

\* countBusyBookings: bookings and imported events of a unit.
Using(taken, unit, w) == {b \in taken : unit \in {b.staff, b.resource} /\ Overlap(b.window, w)}
Busy(rows, taken, unit, w) ==
  Cardinality(Using(taken, unit, w))
    + Cardinality({e \in rows.external : e.unit = unit /\ Overlap(e.window, w)})

Asked(set, one) == IF one = Anyone THEN set ELSE set \cap {one}

\* AvailabilityEngine.check: the candidates for a request.
Candidates(rows, taken, now, ask) ==
  LET service == rows.services[ask.service]
      w == Effective(service, ask.start)
      compatible == Asked(service.resources, ask.resource)
      resources == IF compatible = {} THEN {NoResource} ELSE compatible
  IN IF /\ EvaluateBookingStart(rows.policy, ask.start, now)
        /\ service.active
        /\ ask.resource = Anyone \/ compatible # {}
     THEN {c \in Asked(service.staff, ask.staff) \X resources :
             /\ OpenFor(rows, c[1], ask.start, w)
             /\ \A away \in rows.away : away.staff = c[1] => ~Overlap(w, away.window)
             /\ Busy(rows, taken, c[1], w) < rows.capacity[c[1]]
             /\ \A block \in rows.blocks :
                  InScope(block, c[1], c[2]) => Occurrences(block, w) = {}
             /\ c[2] # NoResource => Busy(rows, taken, c[2], w) < rows.capacity[c[2]]}
     ELSE {}

\* candidates[0]: the first staff member in their order, the first resource
\* by priority; both are numbered in that order.
First(cands) ==
  CHOOSE c \in cands : \A d \in cands : c[1] < d[1] \/ (c[1] = d[1] /\ c[2] <= d[2])

\* findAvailabilitySlots: the first starts of a day that have a candidate.
OfferFirst(cands, service) == First(cands)
OfferStaff(cands, service) ==                 \* mutant: the first of the staff
  LET person == CHOOSE p \in service.staff : \A q \in service.staff : p <= q
  IN <<person, First(cands)[2]>>
Offer(cands, service) == OfferFirst(cands, service)
FindSlots(rows, taken, now, service, date, staff) ==
  LET ask(start) == [service |-> service, start |-> start, staff |-> staff,
                     resource |-> Anyone]
      cands == [start \in {AtLocal(date, minute) : minute \in 0 .. (Day - 1)} |->
                  Candidates(rows, taken, now, ask(start))]
      open == {start \in DOMAIN cands : cands[start] # {}}
  IN {[start |-> s, at |-> Offer(cands[s], rows.services[service])] :
        s \in {t \in open : Cardinality({u \in open : u < t}) < Limit}}

-----------------------------------------------------------------------------
(* What the rules mean, one instant at a time.                             *)

\* A repeated block covers the same part of every step, up to until.
BlockedAt(block, t) ==
  /\ t >= block.from
  /\ IF block.step = 0 THEN t < block.to
     ELSE (t - block.from) % block.step < block.to - block.from
  /\ block.step > 0 /\ block.until # Never => t <= block.until

WorksAt(rows, person, t) ==
  LET today == {o \in rows.overrides : o.staff = person /\ o.date = LocalDate(t)}
      weekly == {h \in rows.hours : h.staff = person /\ h.weekday = Weekday(t)}
      within(i) == i.from <= LocalMinute(t) /\ LocalMinute(t) < i.to
  IN IF today # {} THEN \E o \in today : ~o.off /\ within(o)
     ELSE \E h \in weekly : within(h)

ClearAt(rows, person, resource, t) ==
  /\ WorksAt(rows, person, t)
  /\ \A away \in rows.away :
       away.staff = person => ~(away.window.from <= t /\ t < away.window.to)
  /\ \A block \in rows.blocks : InScope(block, person, resource) => ~BlockedAt(block, t)
=============================================================================
