----------------------------- MODULE DeskProofs -----------------------------
(***************************************************************************)
(* Theorems about the front desk, for any rows, visits, requests, calls    *)
(* and bookings.  The first part is about the availability engine: what    *)
(* its queries and its windows say of every instant of a booking.  Then    *)
(* three invariants beside the types, DeskTyped: Clear, of the places      *)
(* between check and insert; Orderly, of the calls that a visit or a       *)
(* request waits for and the bookings it knows of; Offered, of lists and   *)
(* calls that nothing has changed since.                                   *)
(***************************************************************************)
EXTENDS FrontDesk, FiniteSetTheorems, WellFoundedInduction, TLAPS

-----------------------------------------------------------------------------
(* Days and repetitions.                                                   *)

LEMMA DivMod ==
  ASSUME NEW x \in Int, NEW d \in Nat \ {0}
  PROVE  /\ x \div d \in Int /\ x % d \in 0 .. (d - 1)
         /\ x = d * (x \div d) + (x % d)
OBVIOUS

LEMMA NextMultiple ==
  ASSUME NEW d \in Nat \ {0}, NEW q \in Int, NEW r \in Int, q < r
  PROVE  d * q \in Int /\ d * r \in Int /\ d * q + d <= d * r
<1>1. d * (r - q) >= d
  <2>1. PICK k \in Nat : r - q = k + 1
    <3>1. r - q - 1 \in Nat
      OBVIOUS
    <3> QED BY <3>1
  <2>2. d * k \in Nat
    OBVIOUS
  <2>3. d * (k + 1) = d * k + d
    OBVIOUS
  <2> QED BY <2>1, <2>2, <2>3
<1>2. d * (r - q) = d * r - d * q
  OBVIOUS
<1> QED BY <1>1, <1>2

\* Between two instants of one local day it is that day, and its minutes go up.
LEMMA SameDay ==
  ASSUME NEW a \in Int, NEW t \in Int, NEW b \in Int, a <= t, t <= b,
         LocalDate(a) = LocalDate(b)
  PROVE  /\ LocalDate(t) = LocalDate(a)
         /\ LocalMinute(a) <= LocalMinute(t) /\ LocalMinute(t) <= LocalMinute(b)
         /\ LocalMinute(a) \in Int /\ LocalMinute(t) \in Int /\ LocalMinute(b) \in Int
<1> DEFINE x(i) == i + Zone
           q(i) == x(i) \div Day
           m(i) == x(i) % Day
<1>1. Day \in Nat \ {0} /\ x(a) \in Int /\ x(t) \in Int /\ x(b) \in Int
      /\ x(a) <= x(t) /\ x(t) <= x(b)
  BY ClockAssumption
<1>2. /\ q(a) \in Int /\ m(a) \in 0 .. (Day - 1) /\ x(a) = Day * q(a) + m(a)
      /\ q(t) \in Int /\ m(t) \in 0 .. (Day - 1) /\ x(t) = Day * q(t) + m(t)
      /\ q(b) \in Int /\ m(b) \in 0 .. (Day - 1) /\ x(b) = Day * q(b) + m(b)
  <2> HIDE DEF x
  <2> QED BY <1>1, DivMod
<1>3. q(a) = q(b)
  BY DEF LocalDate
<1>4. LocalDate(t) = q(t) /\ LocalDate(a) = q(a)
      /\ LocalMinute(a) = m(a) /\ LocalMinute(t) = m(t) /\ LocalMinute(b) = m(b)
  BY DEF LocalDate, LocalMinute
<1> HIDE DEF x, q, m
<1>5. Day * q(a) \in Int /\ Day * q(t) \in Int
  BY <1>1, <1>2
<1>6. ASSUME q(a) < q(t) PROVE FALSE
  <2>1. Day * q(a) + Day <= Day * q(t)
    BY <1>1, <1>2, <1>6, NextMultiple
  <2> QED BY <1>1, <1>2, <1>3, <1>5, <2>1
<1>7. ASSUME q(t) < q(a) PROVE FALSE
  <2>1. Day * q(t) + Day <= Day * q(a)
    BY <1>1, <1>2, <1>7, NextMultiple
  <2> QED BY <1>1, <1>2, <1>5, <2>1
<1>8. q(a) = q(t)
  BY <1>2, <1>6, <1>7
<1> QED BY <1>1, <1>2, <1>3, <1>4, <1>5, <1>8

\* WindowFits looks at the ends of a window; the hours cover all of it.
LEMMA FitsThroughout ==
  ASSUME NEW w, w.from \in Int, w.to \in Int, NEW hours, WindowFits(w, hours),
         \A i \in hours : i.from \in Nat /\ i.to \in Nat,
         NEW t \in w.from .. (w.to - 1)
  PROVE  \E i \in hours : i.from <= LocalMinute(t) /\ LocalMinute(t) < i.to
<1>1. PICK i \in hours : LocalMinute(w.from) >= i.from /\ LocalMinute(w.to - 1) + 1 <= i.to
  BY DEF WindowFits, Ends, BeforeEnd
<1>2. LocalDate(w.from) = LocalDate(w.to - 1)
  BY DEF WindowFits
<1>3. /\ LocalMinute(w.from) <= LocalMinute(t) /\ LocalMinute(t) <= LocalMinute(w.to - 1)
      /\ LocalMinute(w.from) \in Int /\ LocalMinute(t) \in Int
      /\ LocalMinute(w.to - 1) \in Int
  <2> DEFINE end == w.to - 1
  <2>1. end \in Int /\ t \in Int /\ w.from <= t /\ t <= end
    OBVIOUS
  <2>2. LocalDate(w.from) = LocalDate(end)
    BY <1>2
  <2> HIDE DEF end
  <2>3. /\ LocalMinute(w.from) <= LocalMinute(t) /\ LocalMinute(t) <= LocalMinute(end)
        /\ LocalMinute(w.from) \in Int /\ LocalMinute(t) \in Int /\ LocalMinute(end) \in Int
    BY <2>1, <2>2, SameDay
  <2> QED BY <2>3 DEF end
<1> QED BY <1>1, <1>3

\* getCalendarBlocks misses no repetition: where it finds none for a window,
\* the block covers no instant of it.
LEMMA NothingMissed ==
  ASSUME NEW block, block.from \in Int, block.to \in Int, block.step \in Nat,
         block.until # Never => block.until \in Int,
         NEW w, w.from \in Int, w.to \in Int, Occurrences(block, w) = {},
         NEW t \in w.from .. (w.to - 1)
  PROVE  ~ BlockedAt(block, t)
<1> SUFFICES ASSUME BlockedAt(block, t) PROVE FALSE
  OBVIOUS
<1>1. t \in Int /\ w.from <= t /\ t < w.to /\ block.from <= t
  BY DEF BlockedAt
<1>2. block.from < w.to
  BY <1>1
<1>3. ASSUME NEW s \in Starts(block, w), s \in Int,
             s <= t, t < s + (block.to - block.from),
             block.step = 0 \/ Repeats(block, w)
      PROVE FALSE
  <2> DEFINE o == [from |-> s, to |-> s + (block.to - block.from)]
  <2>1. Overlap(o, w)
    BY <1>1, <1>3 DEF Overlap
  <2>2. o \in Occurrences(block, w)
    BY <1>2, <1>3, <2>1 DEF Occurrences
  <2> QED BY <2>2
<1>4. CASE block.step = 0
  BY <1>1, <1>3, <1>4 DEF Starts, BlockedAt
<1>5. CASE block.step # 0
  <2> DEFINE x == t - block.from
             d == block.step
             s == block.from + d * (x \div d)
             last == IF block.until = Never \/ w.to < block.until THEN w.to ELSE block.until
  <2>1. x \in Nat /\ d \in Nat \ {0}
    BY <1>1, <1>5
  <2>2. x \div d \in Nat /\ x % d \in 0 .. (d - 1) /\ x = d * (x \div d) + (x % d)
        /\ d * (x \div d) \in Nat
    <3> HIDE DEF x, d
    <3> QED BY <2>1
  <2>3. (d * (x \div d)) % d = 0
    <3> HIDE DEF x, d
    <3> QED BY <2>1, <2>2
  <2>4. x % d < block.to - block.from /\ (block.until # Never => t <= block.until)
    BY <1>5 DEF BlockedAt
  <2>5. /\ s \in Int /\ block.from <= s /\ s <= t /\ t < s + (block.to - block.from)
        /\ (s - block.from) % d = 0
    <3> DEFINE y == d * (x \div d)
    <3>1. y \in Nat /\ y % d = 0 /\ x = y + (x % d) /\ x % d \in Nat
      BY <2>1, <2>2, <2>3
    <3>2. s = block.from + y /\ t = block.from + x
      BY <1>1
    <3> HIDE DEF s, x, y, d
    <3>3. s - block.from = y
      BY <3>1, <3>2
    <3> QED BY <1>1, <2>4, <3>1, <3>2, <3>3
  <2>6. s <= last /\ last \in Int
    BY <1>1, <2>4, <2>5
  <2>7. s \in Starts(block, w)
    <3>1. s \in block.from .. last
      BY <2>5, <2>6
    <3> HIDE DEF s
    <3> QED BY <1>5, <2>5, <3>1 DEF Starts
  <2>8. Repeats(block, w)
    BY <1>1, <2>4 DEF Repeats, StillRepeats
  <2> HIDE DEF s
  <2> QED BY <1>3, <2>5, <2>7, <2>8
<1> QED BY <1>4, <1>5
-----------------------------------------------------------------------------
(* Candidates.                                                             *)

\* A set of numbers has a least one.
LEMMA LeastNat ==
  ASSUME NEW T \in SUBSET Nat, T # {}
  PROVE  \E x \in T : \A y \in T : x <= y
<1> DEFINE R == OpToRel(<, Nat)
<1>1. \A a, b \in Nat : a < b => <<a, b>> \in R
  BY DEF OpToRel
<1>2. IsWellFoundedOn(R, Nat)
  BY NatLessThanWellFounded
<1> HIDE DEF R
<1>3. PICK x \in T : \A y \in T : ~ (<<y, x>> \in R)
  BY <1>2, WFMin
<1>4. ASSUME NEW y \in T PROVE x <= y
  <2>1. x \in Nat /\ y \in Nat /\ ~ (<<y, x>> \in R)
    BY <1>3
  <2>2. ~ (y < x)
    BY <1>1, <2>1
  <2> QED BY <2>1, <2>2
<1> QED BY <1>4

\* Where there are candidates, the first of them is one.
LEMMA FirstIsOne ==
  ASSUME NEW cands \in SUBSET (Nat \X Nat), cands # {}
  PROVE  First(cands) \in cands
<1> DEFINE People == {p \in Nat : \E c \in cands : c[1] = p}
<1>1. PICK p \in People : \A q \in People : p <= q
  <2>1. People # {}
    OBVIOUS
  <2> HIDE DEF People
  <2>2. People \in SUBSET Nat
    BY DEF People
  <2> QED BY <2>1, <2>2, LeastNat
<1> DEFINE Chairs == {n \in Nat : \E c \in cands : c[1] = p /\ c[2] = n}
<1>2. PICK n \in Chairs : \A m \in Chairs : n <= m
  <2>1. Chairs # {}
    OBVIOUS
  <2> HIDE DEF Chairs
  <2>2. Chairs \in SUBSET Nat
    BY DEF Chairs
  <2> QED BY <2>1, <2>2, LeastNat
<1>3. PICK c \in cands : c[1] = p /\ c[2] = n
  OBVIOUS
<1>4. ASSUME NEW d \in cands PROVE c[1] < d[1] \/ (c[1] = d[1] /\ c[2] <= d[2])
  <2>1. d[1] \in People /\ p <= d[1] /\ (d[1] = p => n <= d[2])
    BY <1>1, <1>2
  <2>2. d[1] \in Nat /\ p \in Nat
    OBVIOUS
  <2> QED BY <1>3, <2>1, <2>2
<1> QED BY <1>4 DEF First

\* What AvailabilityEngine.check has made sure of for a candidate.
LEMMA CandidateFacts ==
  ASSUME NEW r \in Edits \cup {First_rows}, NEW taken, NEW n, NEW ask \in Requests,
         NEW c \in Candidates(r, taken, n, ask),
         NEW service, service = r.services[ask.service],
         NEW w, w = Effective(service, ask.start)
  PROVE  /\ service.active /\ EvaluateBookingStart(r.policy, ask.start, n)
         /\ c \in Nat \X Nat /\ c[1] \in Asked(service.staff, ask.staff)
         /\ Asked(service.resources, ask.resource) = {} =>
              c[2] = NoResource /\ ask.resource = Anyone
         /\ Asked(service.resources, ask.resource) # {} =>
              c[2] \in Asked(service.resources, ask.resource)
         /\ OpenFor(r, c[1], ask.start, w)
         /\ \A away \in r.away : away.staff = c[1] => ~Overlap(w, away.window)
         /\ Busy(r, taken, c[1], w) < r.capacity[c[1]]
         /\ \A block \in r.blocks : InScope(block, c[1], c[2]) => Occurrences(block, w) = {}
         /\ c[2] # NoResource => Busy(r, taken, c[2], w) < r.capacity[c[2]]
<1> DEFINE compatible == Asked(service.resources, ask.resource)
           resources == IF compatible = {} THEN {NoResource} ELSE compatible
<1>1. /\ service.active /\ EvaluateBookingStart(r.policy, ask.start, n)
      /\ ask.resource = Anyone \/ compatible # {}
  BY DEF Candidates
<1>2. /\ c \in Asked(service.staff, ask.staff) \X resources
      /\ OpenFor(r, c[1], ask.start, w)
      /\ \A away \in r.away : away.staff = c[1] => ~Overlap(w, away.window)
      /\ Busy(r, taken, c[1], w) < r.capacity[c[1]]
      /\ \A block \in r.blocks : InScope(block, c[1], c[2]) => Occurrences(block, w) = {}
      /\ c[2] # NoResource => Busy(r, taken, c[2], w) < r.capacity[c[2]]
  BY <1>1 DEF Candidates
<1>3. service.staff \subseteq Nat /\ service.resources \subseteq Nat
  BY EditsAssumption DEF Admitted, Requests
<1>4. Asked(service.staff, ask.staff) \subseteq Nat /\ resources \subseteq Nat
  BY <1>3, ClockAssumption DEF Asked
<1>5. c \in Nat \X Nat /\ c[1] \in Asked(service.staff, ask.staff) /\ c[2] \in resources
  <2> HIDE DEF resources
  <2> QED BY <1>2, <1>4
<1> QED BY <1>1, <1>2, <1>5

LEMMA CandidatesArePairs ==
  ASSUME NEW r \in Edits \cup {First_rows}, NEW taken, NEW n, NEW ask \in Requests
  PROVE  Candidates(r, taken, n, ask) \in SUBSET (Nat \X Nat)
<1>1. ASSUME NEW c \in Candidates(r, taken, n, ask) PROVE c \in Nat \X Nat
  BY CandidateFacts
<1> QED BY <1>1

\* The window of a request holds its start, and is not empty.
LEMMA WindowOf ==
  ASSUME NEW r \in Edits \cup {First_rows}, NEW ask \in Requests,
         NEW w, w = Effective(r.services[ask.service], ask.start)
  PROVE  w.from \in Int /\ w.to \in Int /\ ask.start \in w.from .. (w.to - 1)
<1> DEFINE service == r.services[ask.service]
<1>1. /\ service.duration \in Nat \ {0}
      /\ service.bufferBefore \in Nat /\ service.bufferAfter \in Nat
  BY EditsAssumption DEF Admitted, Requests
<1>2. ask.start \in Int
  BY DEF Requests
<1>3. /\ w.from = ask.start - service.bufferBefore
      /\ w.to = ask.start + service.duration + service.bufferAfter
  BY DEF Effective
<1> HIDE DEF service
<1> QED BY <1>1, <1>2, <1>3

\* A candidate works all through the window, and nothing else is then.
LEMMA CandidateIsClear ==
  ASSUME NEW r \in Edits \cup {First_rows}, NEW taken, NEW n, NEW ask \in Requests,
         NEW c \in Candidates(r, taken, n, ask),
         NEW w, w = Effective(r.services[ask.service], ask.start),
         NEW t \in w.from .. (w.to - 1)
  PROVE  ClearAt(r, c[1], c[2], t)
<1>1. w.from \in Int /\ w.to \in Int /\ ask.start \in w.from .. (w.to - 1)
  BY WindowOf
<1>2. /\ OpenFor(r, c[1], ask.start, w)
      /\ \A away \in r.away : away.staff = c[1] => ~Overlap(w, away.window)
      /\ \A block \in r.blocks : InScope(block, c[1], c[2]) => Occurrences(block, w) = {}
  BY CandidateFacts
<1>3. Admitted(r)
  BY EditsAssumption
<1>4. WorksAt(r, c[1], t)
  <2> DEFINE date == LocalDate(ask.start)
             overrides == {o \in r.overrides : o.staff = c[1] /\ o.date = date}
             weekly == {h \in r.hours : h.staff = c[1] /\ h.weekday = date % 7}
  <2>1. IF overrides # {} THEN (\A o \in overrides : ~o.off) /\ WindowFits(w, overrides)
        ELSE WindowFits(w, weekly)
    BY <1>2 DEF OpenFor, Weekday
  <2>2. LocalDate(t) = date
    <3> DEFINE end == w.to - 1
    <3>1. /\ end \in Int /\ t \in Int /\ w.from <= t /\ t <= end
          /\ ask.start \in Int /\ w.from <= ask.start /\ ask.start <= end
      BY <1>1
    <3>2. LocalDate(w.from) = LocalDate(end)
      BY <2>1 DEF WindowFits
    <3> HIDE DEF end
    <3> QED BY <1>1, <3>1, <3>2, SameDay
  <2>3. \A i \in overrides \cup weekly : i.from \in Nat /\ i.to \in Nat
    BY <1>3 DEF Admitted
  <2>4. CASE overrides # {}
    <3>1. PICK o \in overrides : o.from <= LocalMinute(t) /\ LocalMinute(t) < o.to
      <4> HIDE DEF overrides
      <4> QED BY <1>1, <2>1, <2>3, <2>4, FitsThroughout
    <3> QED BY <2>1, <2>2, <2>4, <3>1 DEF WorksAt
  <2>5. CASE overrides = {}
    <3>1. PICK h \in weekly : h.from <= LocalMinute(t) /\ LocalMinute(t) < h.to
      <4> HIDE DEF weekly
      <4> QED BY <1>1, <2>1, <2>3, <2>5, FitsThroughout
    <3> QED BY <2>2, <2>5, <3>1 DEF WorksAt, Weekday
  <2> QED BY <2>4, <2>5
<1>5. ASSUME NEW away \in r.away, away.staff = c[1],
             away.window.from <= t, t < away.window.to
      PROVE FALSE
  <2>1. away.window.from \in Int /\ away.window.to \in Int
    BY <1>3 DEF Admitted
  <2>2. Overlap(w, away.window)
    BY <1>1, <1>5, <2>1 DEF Overlap
  <2> QED BY <1>2, <1>5, <2>2
<1>6. ASSUME NEW block \in r.blocks, InScope(block, c[1], c[2]) PROVE ~ BlockedAt(block, t)
  <2>1. /\ block.from \in Int /\ block.to \in Int /\ block.step \in Nat
        /\ block.until # Never => block.until \in Int
    BY <1>3 DEF Admitted
  <2> QED BY <1>1, <1>2, <1>6, <2>1, NothingMissed
<1> QED BY <1>4, <1>5, <1>6 DEF ClearAt
-----------------------------------------------------------------------------
(* Types.                                                                  *)

Callers == Visits \cup Tentatives
SlotTypes == [start : Int, at : Nat \X Nat]
Places == [staff : Nat, resource : Nat, window : [from : Int, to : Int]]

BookingTypes == {None} \cup [place : {None} \cup Places, by : Callers, clear : BOOLEAN]

PageTypes ==
  [service : {None} \cup Services, staff : {Anyone} \cup Nat, date : Int,
   slots : SUBSET SlotTypes, loadedFor : {None} \cup Services, current : BOOLEAN,
   loading : BOOLEAN, slot : {None} \cup SlotTypes, submitting : BOOLEAN,
   result : {None} \cup Bookings]

TentativeTypes ==
  [status : {None, "PENDING", "APPROVED"}, list : {<<>>} \cup CandidateLists,
   booking : {None} \cup Bookings]

Idle == [at : {"idle"}]
Checking == [at : {"check"}, by : Callers, listens : BOOLEAN, current : BOOLEAN, ask : Requests]
Inserting == [at : {"insert"}, by : Callers, listens : BOOLEAN, current : BOOLEAN,
              service : Services, place : Places, raced : BOOLEAN]
Inserted == [at : {"inserted"}, by : Callers, listens : BOOLEAN, booking : Bookings]
CallTypes == Idle \cup Checking \cup Inserting \cup Inserted

\* A page asks for the slots of a service, and what was picked is on its list.
PageOk(p) ==
  /\ p.loading => p.service \in Services /\ p.slot = None
  /\ p.slot # None => p.slot \in p.slots
  /\ p.slots # {} => p.service \in Services

DeskTyped ==
  /\ rows \in Edits \cup {First_rows}
  /\ booking \in [Bookings -> BookingTypes]
  /\ page \in [Visits -> PageTypes] /\ \A v \in Visits : PageOk(page[v])
  /\ tentative \in [Tentatives -> TentativeTypes]
  /\ call \in [Calls -> CallTypes]

LEMMA CallKinds ==
  ASSUME NEW x \in CallTypes
  PROVE  /\ x.at \in {"idle", "check", "insert", "inserted"}
         /\ x.at = "idle" <=> x = NoCall
         /\ x.at = "check" => x \in Checking
         /\ x.at = "insert" => x \in Inserting
         /\ x.at = "inserted" => x \in Inserted
         /\ x.at # "idle" => x.by \in Callers /\ x.listens \in BOOLEAN
<1>1. CASE x \in Idle
  BY <1>1 DEF Idle, NoCall
<1>2. CASE x \in Checking
  BY <1>2 DEF Checking, NoCall
<1>3. CASE x \in Inserting
  BY <1>3 DEF Inserting, NoCall
<1>4. CASE x \in Inserted
  BY <1>4 DEF Inserted, NoCall
<1> QED BY <1>1, <1>2, <1>3, <1>4 DEF CallTypes

\* y is the call x, no longer current.
SameCall(x, y) ==
  /\ y.at = x.at
  /\ x.at # "idle" => y.by = x.by /\ y.listens = x.listens
  /\ x.at = "insert" => y.place = x.place /\ y.raced = x.raced
  /\ x.at = "inserted" => y.booking = x.booking
  /\ x.at \in {"check", "insert"} => ~ y.current

LEMMA StaleFacts ==
  ASSUME NEW calls \in [Calls -> CallTypes]
  PROVE  /\ Stale(calls) \in [Calls -> CallTypes]
         /\ \A c \in Calls : SameCall(calls[c], Stale(calls)[c])
<1>1. ASSUME NEW c \in Calls
      PROVE  Stale(calls)[c] \in CallTypes /\ SameCall(calls[c], Stale(calls)[c])
  <2>1. calls[c] \in CallTypes
    OBVIOUS
  <2> DEFINE x == calls[c]
             y == [x EXCEPT !.current = FALSE]
  <2>2. Stale(calls)[c] = IF x.at \in {"check", "insert"} THEN y ELSE x
    BY DEF Stale
  <2> HIDE DEF x
  <2>3. CASE x.at = "check"
    <3>1. x \in Checking
      BY <2>1, <2>3, CallKinds DEF x
    <3>2. y \in Checking /\ SameCall(x, y)
      BY <2>3, <3>1 DEF Checking, SameCall
    <3> QED BY <2>2, <2>3, <3>2 DEF CallTypes, x
  <2>4. CASE x.at = "insert"
    <3>1. x \in Inserting
      BY <2>1, <2>4, CallKinds DEF x
    <3>2. y \in Inserting /\ SameCall(x, y)
      BY <2>4, <3>1 DEF Inserting, SameCall
    <3> QED BY <2>2, <2>4, <3>2 DEF CallTypes, x
  <2>5. CASE x.at \notin {"check", "insert"}
    <3>1. Stale(calls)[c] = x
      BY <2>2, <2>5
    <3>2. SameCall(x, x)
      BY <2>5 DEF SameCall
    <3> QED BY <2>1, <3>1, <3>2 DEF x
  <2> QED BY <2>3, <2>4, <2>5
<1>2. Stale(calls) = [c \in Calls |-> Stale(calls)[c]]
  BY DEF Stale
<1> QED BY <1>1, <1>2

\* What the list of a page is made of.
LEMMA OfferedFacts ==
  ASSUME NEW r \in Edits \cup {First_rows}, NEW taken, NEW n, NEW service \in Services,
         NEW date \in Int, NEW staff \in {Anyone} \cup Nat,
         NEW slot \in FindSlots(r, taken, n, service, date, staff)
  PROVE  /\ slot \in SlotTypes
         /\ slot.at \in Candidates(r, taken, n, [service |-> service, start |-> slot.start,
                                                 staff |-> staff, resource |-> Anyone])
<1> DEFINE ask(start) == [service |-> service, start |-> start, staff |-> staff,
                          resource |-> Anyone]
           starts == {AtLocal(date, minute) : minute \in 0 .. (Day - 1)}
           cands == [start \in starts |-> Candidates(r, taken, n, ask(start))]
           open == {start \in DOMAIN cands : cands[start] # {}}
<1>1. PICK s \in open : slot = [start |-> s, at |-> Offer(cands[s], r.services[service])]
  <2>1. FindSlots(r, taken, n, service, date, staff) =
          {[start |-> s, at |-> Offer(cands[s], r.services[service])] :
             s \in {t \in open : Cardinality({u \in open : u < t}) < Limit}}
    BY DEF FindSlots
  <2> HIDE DEF open, cands
  <2> QED BY <2>1
<1>2. s \in starts /\ cands[s] = Candidates(r, taken, n, ask(s)) /\ cands[s] # {}
  OBVIOUS
<1>3. starts \subseteq Int
  BY ClockAssumption DEF AtLocal
<1>4. s \in Int /\ ask(s) \in Requests
  BY <1>2, <1>3 DEF Requests
<1>5. cands[s] \in SUBSET (Nat \X Nat)
  <2> HIDE DEF cands, ask
  <2>1. Candidates(r, taken, n, ask(s)) \in SUBSET (Nat \X Nat)
    BY <1>4, CandidatesArePairs
  <2> QED BY <1>2, <2>1
<1>6. Offer(cands[s], r.services[service]) = First(cands[s])
  BY DEF Offer, OfferFirst
<1>7. slot.start = s /\ slot.at = First(cands[s]) /\ slot = [start |-> s, at |-> First(cands[s])]
  BY <1>1, <1>6
<1>8. First(cands[s]) \in cands[s]
  <2> HIDE DEF cands
  <2> QED BY <1>2, <1>5, FirstIsOne
<1>9. slot \in SlotTypes
  <2> HIDE DEF cands
  <2> QED BY <1>4, <1>5, <1>7, <1>8 DEF SlotTypes
<1> QED BY <1>2, <1>7, <1>8, <1>9

\* q shows what p shows; what it knows of the list and of its request may differ.
SamePage(p, q) ==
  /\ q.service = p.service /\ q.slots = p.slots /\ q.loadedFor = p.loadedFor
  /\ q.loading = p.loading /\ q.slot = p.slot /\ q.result = p.result

LEMMA SamePageOk ==
  ASSUME NEW p, NEW q, SamePage(p, q), PageOk(p)
  PROVE  PageOk(q)
BY DEF SamePage, PageOk

LEMMA StalePagesFacts ==
  ASSUME DeskTyped
  PROVE  /\ StalePages \in [Visits -> PageTypes] /\ \A v \in Visits : PageOk(StalePages[v])
         /\ \A v \in Visits : /\ SamePage(page[v], StalePages[v])
                              /\ ~ StalePages[v].current
                              /\ StalePages[v].submitting = page[v].submitting
<1>1. ASSUME NEW v \in Visits
      PROVE  /\ StalePages[v] \in PageTypes /\ SamePage(page[v], StalePages[v])
             /\ ~ StalePages[v].current /\ StalePages[v].submitting = page[v].submitting
  <2>1. page[v] \in PageTypes
    BY DEF DeskTyped
  <2>2. StalePages[v] = [page[v] EXCEPT !.current = FALSE]
    BY DEF StalePages
  <2> QED BY <2>1, <2>2 DEF PageTypes, SamePage
<1>2. StalePages = [v \in Visits |-> StalePages[v]]
  BY DEF StalePages
<1>3. \A v \in Visits : PageOk(StalePages[v])
  BY <1>1, SamePageOk DEF DeskTyped
<1> QED BY <1>1, <1>2, <1>3

\* Only the page that waits for the call hears that it failed.
LEMMA FailPageFacts ==
  ASSUME DeskTyped, NEW c \in Calls
  PROVE  /\ FailPage(c) \in [Visits -> PageTypes] /\ \A v \in Visits : PageOk(FailPage(c)[v])
         /\ \A v \in Visits : /\ SamePage(page[v], FailPage(c)[v])
                              /\ FailPage(c)[v].current = page[v].current
                              /\ v # call[c].by => FailPage(c)[v] = page[v]
<1>1. CASE call[c].by \in Visits /\ call[c].listens
  <2> DEFINE x == call[c].by
             new == [page[x] EXCEPT !.submitting = FALSE]
  <2>1. FailPage(c) = [page EXCEPT ![x] = new]
    BY <1>1 DEF FailPage
  <2>2. page[x] \in PageTypes /\ PageOk(page[x])
    BY <1>1 DEF DeskTyped
  <2>3. new \in PageTypes /\ SamePage(page[x], new) /\ new.current = page[x].current
    BY <2>2 DEF PageTypes, SamePage
  <2>4. PageOk(new)
    BY <2>2, <2>3, SamePageOk
  <2>5. \A v \in Visits : SamePage(page[v], page[v])
    BY DEF SamePage
  <2> HIDE DEF new, x
  <2> QED BY <1>1, <2>1, <2>3, <2>4, <2>5 DEF DeskTyped, x
<1>2. CASE ~ (call[c].by \in Visits /\ call[c].listens)
  <2>1. FailPage(c) = page
    BY <1>2 DEF FailPage
  <2> QED BY <2>1 DEF DeskTyped, SamePage
<1> QED BY <1>1, <1>2

LEMMA PageChanged ==
  ASSUME DeskTyped, NEW v \in Visits, NEW new \in PageTypes, PageOk(new),
         page' = [page EXCEPT ![v] = new]
  PROVE  page' \in [Visits -> PageTypes] /\ \A u \in Visits : PageOk(page'[u])
BY DEF DeskTyped

LEMMA CallChanged ==
  ASSUME DeskTyped, NEW c \in Calls, NEW new \in CallTypes
  PROVE  [call EXCEPT ![c] = new] \in [Calls -> CallTypes]
BY DEF DeskTyped

LEMMA NoCallTyped == NoCall \in CallTypes
BY DEF NoCall, CallTypes, Idle

\* What a check that finds a candidate makes of a call.
LEMMA CheckFacts ==
  ASSUME DeskTyped, NEW c \in Calls, Check(c),
         NEW cands, cands = Candidates(rows, Taken, now, call[c].ask), cands # {},
         NEW w, w = Effective(rows.services[call[c].ask.service], call[c].ask.start)
  PROVE  /\ call[c] \in Checking /\ call[c].ask \in Requests /\ First(cands) \in cands
         /\ call'[c] \in Inserting /\ call' = [call EXCEPT ![c] = call'[c]]
         /\ call'[c].by = call[c].by /\ call'[c].listens = call[c].listens
         /\ call'[c].current = call[c].current /\ ~ call'[c].raced
         /\ call'[c].service = call[c].ask.service
         /\ call'[c].place = [staff |-> First(cands)[1], resource |-> First(cands)[2],
                              window |-> w]
         /\ UNCHANGED <<now, rows, edits, booking, tentative, trouble, page>>
<1> DEFINE place == [staff |-> First(cands)[1], resource |-> First(cands)[2], window |-> w]
           new == [at |-> "insert", by |-> call[c].by, listens |-> call[c].listens,
                   current |-> call[c].current, service |-> call[c].ask.service,
                   place |-> place, raced |-> FALSE]
<1>1. call[c] \in CallTypes /\ call[c].at = "check" /\ rows \in Edits \cup {First_rows}
  BY DEF DeskTyped, Check
<1>2. call[c] \in Checking
  BY <1>1, CallKinds
<1>3. call[c].ask \in Requests
  BY <1>2 DEF Checking
<1>4. First(cands) \in cands /\ cands \in SUBSET (Nat \X Nat)
  BY <1>1, <1>3, CandidatesArePairs, FirstIsOne
<1>5. w \in [from : Int, to : Int]
  <2>1. w.from \in Int /\ w.to \in Int
    BY <1>1, <1>3, WindowOf
  <2> QED BY <2>1 DEF Effective
<1>6. place \in Places
  BY <1>4, <1>5 DEF Places
<1>7. call' = [call EXCEPT ![c] = new] /\ UNCHANGED page
  BY DEF Check
<1>8. UNCHANGED <<now, rows, edits, booking, tentative, trouble>>
  BY DEF Check
<1>9. /\ new.by = call[c].by /\ new.listens = call[c].listens
      /\ new.current = call[c].current /\ ~ new.raced
      /\ new.service = call[c].ask.service /\ new.place = place
  OBVIOUS
<1>10. new \in Inserting
  <2> HIDE DEF place
  <2> QED BY <1>2, <1>3, <1>6 DEF Checking, Inserting, Requests
<1>11. call'[c] = new
  <2> HIDE DEF new
  <2> QED BY <1>7 DEF DeskTyped
<1> HIDE DEF new
<1> QED BY <1>2, <1>3, <1>4, <1>7, <1>8, <1>9, <1>10, <1>11

\* What an insert makes of the calls and of the bookings.
LEMMA InsertFacts ==
  ASSUME DeskTyped, NEW c \in Calls, NEW b \in Bookings, Insert(c, b),
         NEW place, place = call[c].place
  PROVE  /\ call[c] \in Inserting /\ booking[b] = None
         /\ booking' = [booking EXCEPT ![b] = booking'[b]]
         /\ booking'[b] \in [place : {None} \cup Places, by : Callers, clear : BOOLEAN]
         /\ booking'[b].by = call[c].by
         /\ booking'[b].clear <=>
              \/ call[c].raced
              \/ \A t \in place.window.from .. (place.window.to - 1) :
                   ClearAt(rows, place.staff, place.resource, t)
         /\ call' \in [Calls -> CallTypes]
         /\ \A d \in Calls \ {c} : SameCall(call[d], call'[d])
         /\ call'[c].at = "inserted" /\ call'[c].by = call[c].by
         /\ call'[c].listens = call[c].listens /\ call'[c].booking = b
         /\ page' = StalePages /\ UNCHANGED <<now, rows, edits, tentative, trouble>>
<1> DEFINE clear == \/ call[c].raced
                    \/ \A t \in place.window.from .. (place.window.to - 1) :
                         ClearAt(rows, place.staff, place.resource, t)
           row == [place |-> place, by |-> call[c].by, clear |-> clear]
           done == [at |-> "inserted", by |-> call[c].by, listens |-> call[c].listens,
                    booking |-> b]
           calls == [call EXCEPT ![c] = done]
<1>1. call[c] \in CallTypes /\ call[c].at = "insert"
  BY DEF DeskTyped, Insert
<1>2. call[c] \in Inserting
  BY <1>1, CallKinds
<1>3. /\ booking[b] = None /\ booking' = [booking EXCEPT ![b] = row] /\ call' = Stale(calls)
      /\ page' = StalePages /\ UNCHANGED <<now, rows, edits, tentative, trouble>>
  BY DEF Insert, Free
<1>4. clear \in BOOLEAN
  BY <1>2 DEF Inserting
<1>5. row.by = call[c].by /\ row.clear = clear
      /\ row \in [place : {None} \cup Places, by : Callers, clear : BOOLEAN]
  <2> HIDE DEF clear
  <2> QED BY <1>2, <1>4 DEF Inserting
<1>6. booking'[b] = row
  <2> HIDE DEF row
  <2> QED BY <1>3 DEF DeskTyped
<1>7. done \in Inserted /\ done.at = "inserted" /\ done.by = call[c].by
      /\ done.listens = call[c].listens /\ done.booking = b
  BY <1>2 DEF Inserting, Inserted
<1>8. calls \in [Calls -> CallTypes] /\ calls[c] = done
      /\ \A d \in Calls \ {c} : calls[d] = call[d]
  <2> HIDE DEF done
  <2> QED BY <1>7 DEF DeskTyped, CallTypes
<1>9. call' \in [Calls -> CallTypes] /\ \A d \in Calls : SameCall(calls[d], call'[d])
  <2> HIDE DEF calls
  <2> QED BY <1>3, <1>8, StaleFacts
<1>10. \A d \in Calls \ {c} : SameCall(call[d], call'[d])
  <2> HIDE DEF calls, done
  <2> QED BY <1>8, <1>9
<1>11. /\ call'[c].at = "inserted" /\ call'[c].by = call[c].by
       /\ call'[c].listens = call[c].listens /\ call'[c].booking = b
  <2> HIDE DEF calls, done
  <2> QED BY <1>7, <1>8, <1>9 DEF SameCall
<1>12. booking'[b].clear <=> clear
  <2> HIDE DEF clear
  <2> QED BY <1>5, <1>6
<1> HIDE DEF row
<1> QED BY <1>2, <1>3, <1>5, <1>6, <1>9, <1>10, <1>11, <1>12

\* An edit of the rows lets every call between its two halves know.
LEMMA EditFacts ==
  ASSUME DeskTyped, NEW e \in Edits, Edit(e)
  PROVE  /\ call' \in [Calls -> CallTypes]
         /\ \A c \in Calls :
              /\ call'[c].at = call[c].at
              /\ call[c].at # "idle" => call'[c].by = call[c].by /\ call'[c].listens = call[c].listens
              /\ call[c].at = "inserted" => call'[c].booking = call[c].booking
              /\ call[c].at = "insert" => call'[c].raced
              /\ call[c].at \in {"check", "insert"} => ~ call'[c].current
         /\ page' = StalePages /\ UNCHANGED <<booking, tentative, trouble>>
<1> DEFINE calls == Stale(call)
<1>1. calls \in [Calls -> CallTypes] /\ \A c \in Calls : SameCall(call[c], calls[c])
  BY StaleFacts DEF DeskTyped
<1>2. /\ call' = [c \in Calls |-> IF call[c].at = "insert" THEN [calls[c] EXCEPT !.raced = TRUE]
                                  ELSE calls[c]]
      /\ page' = StalePages /\ UNCHANGED <<booking, tentative, trouble>>
  BY DEF Edit
<1> HIDE DEF calls
<1>3. ASSUME NEW c \in Calls, call[c].at = "insert"
      PROVE  /\ call'[c] \in CallTypes
             /\ call'[c].at = "insert" /\ call'[c].by = call[c].by
             /\ call'[c].listens = call[c].listens /\ call'[c].raced /\ ~ call'[c].current
  <2>1. call'[c] = [calls[c] EXCEPT !.raced = TRUE]
    BY <1>2, <1>3
  <2>2. calls[c] \in Inserting /\ calls[c].by = call[c].by /\ calls[c].listens = call[c].listens
        /\ ~ calls[c].current
    BY <1>1, <1>3, CallKinds DEF SameCall
  <2>3. /\ call'[c] \in Inserting /\ call'[c].by = calls[c].by
        /\ call'[c].listens = calls[c].listens /\ call'[c].raced
        /\ call'[c].current = calls[c].current /\ call'[c].at = "insert"
    BY <2>1, <2>2 DEF Inserting
  <2> QED BY <2>2, <2>3 DEF CallTypes
<1>4. ASSUME NEW c \in Calls, call[c].at # "insert"
      PROVE  call'[c] \in CallTypes /\ SameCall(call[c], call'[c])
  BY <1>1, <1>2, <1>4
<1>5. call' \in [Calls -> CallTypes]
  BY <1>2, <1>3, <1>4
<1>6. ASSUME NEW c \in Calls
      PROVE  /\ call'[c].at = call[c].at
             /\ call[c].at # "idle" => call'[c].by = call[c].by /\ call'[c].listens = call[c].listens
             /\ call[c].at = "inserted" => call'[c].booking = call[c].booking
             /\ call[c].at = "insert" => call'[c].raced
             /\ call[c].at \in {"check", "insert"} => ~ call'[c].current
  BY <1>3, <1>4 DEF SameCall
<1> QED BY <1>2, <1>5, <1>6

\* A cancelled booking keeps its author.
LEMMA CancelFacts ==
  ASSUME DeskTyped, NEW b \in Bookings, Cancel(b)
  PROVE  /\ booking' \in [Bookings -> BookingTypes] /\ booking[b] # None
         /\ \A x \in Bookings \ {b} : booking'[x] = booking[x]
         /\ booking'[b].by = booking[b].by /\ booking'[b].clear = booking[b].clear
         /\ call' \in [Calls -> CallTypes] /\ \A c \in Calls : SameCall(call[c], call'[c])
         /\ page' = StalePages /\ UNCHANGED <<now, rows, edits, tentative, trouble>>
<1> DEFINE row == [booking[b] EXCEPT !.place = None]
<1>1. /\ booking[b] # None /\ booking' = [booking EXCEPT ![b] = row]
      /\ page' = StalePages /\ call' = Stale(call)
      /\ UNCHANGED <<now, rows, edits, tentative, trouble>>
  BY DEF Cancel
<1>2. booking[b] \in [place : {None} \cup Places, by : Callers, clear : BOOLEAN]
  BY <1>1 DEF DeskTyped, BookingTypes
<1>3. row \in BookingTypes /\ row.by = booking[b].by /\ row.clear = booking[b].clear
  BY <1>2 DEF BookingTypes
<1> HIDE DEF row
<1>4. /\ booking' \in [Bookings -> BookingTypes] /\ booking'[b] = row
      /\ \A x \in Bookings \ {b} : booking'[x] = booking[x]
  BY <1>1, <1>3 DEF DeskTyped
<1>5. call' \in [Calls -> CallTypes] /\ \A c \in Calls : SameCall(call[c], call'[c])
  BY <1>1, StaleFacts DEF DeskTyped
<1> QED BY <1>1, <1>3, <1>4, <1>5

\* Confirm sends a request.
LEMMA ConfirmFacts ==
  ASSUME DeskTyped, NEW v \in Visits, NEW c \in Calls, Confirm(v, c)
  PROVE  /\ page[v].slot \in SlotTypes /\ page[v].slot \in page[v].slots
         /\ page[v].result = None /\ ~ page[v].submitting /\ call[c] = NoCall
         /\ call' = [call EXCEPT ![c] = call'[c]] /\ call'[c] \in Checking
         /\ call'[c].by = v /\ call'[c].listens
         /\ call'[c].current => page[v].current /\ page[v].loadedFor = page[v].service
         /\ LET slot == page[v].slot
            IN call'[c].ask =
                 [service |-> page[v].service, start |-> slot.start, staff |-> slot.at[1],
                  resource |-> IF slot.at[2] = NoResource THEN Anyone ELSE slot.at[2]]
         /\ page' = [page EXCEPT ![v] = [page[v] EXCEPT !.submitting = TRUE]]
         /\ UNCHANGED <<now, rows, edits, booking, tentative, trouble>>
<1> DEFINE slot == page[v].slot
           resource == IF slot.at[2] = NoResource THEN Anyone ELSE slot.at[2]
           ask == [service |-> page[v].service, start |-> slot.start, staff |-> slot.at[1],
                   resource |-> resource]
           current == page[v].current /\ page[v].loadedFor = page[v].service
           new == [at |-> "check", by |-> v, listens |-> TRUE, current |-> current, ask |-> ask]
<1>1. /\ page[v].result = None /\ ~ page[v].submitting /\ slot # None /\ call[c] = NoCall
      /\ page' = [page EXCEPT ![v] = [page[v] EXCEPT !.submitting = TRUE]]
      /\ call' = [call EXCEPT ![c] = new]
      /\ UNCHANGED <<now, rows, edits, booking, tentative, trouble>>
  BY DEF Confirm, CanConfirm, Enabled
<1>2. /\ page[v] \in PageTypes /\ slot \in SlotTypes /\ slot \in page[v].slots
      /\ page[v].service \in Services
  BY <1>1 DEF DeskTyped, PageTypes, PageOk
<1>3. slot.start \in Int /\ slot.at[1] \in Nat /\ slot.at[2] \in Nat
  BY <1>2 DEF SlotTypes
<1>4. ask \in Requests
  <2> HIDE DEF slot
  <2> QED BY <1>2, <1>3 DEF Requests
<1>5. current \in BOOLEAN /\ v \in Callers
  BY <1>2 DEF PageTypes, Callers
<1>6. new \in Checking /\ new.by = v /\ new.listens /\ new.ask = ask /\ new.current = current
  <2> HIDE DEF ask, current
  <2> QED BY <1>4, <1>5 DEF Checking
<1>7. call'[c] = new
  <2> HIDE DEF new
  <2> QED BY <1>1 DEF DeskTyped
<1>8. call'[c].current => page[v].current /\ page[v].loadedFor = page[v].service
  <2>1. call'[c].current = current
    BY <1>6, <1>7
  <2> QED BY <2>1
<1>9. call'[c].ask = ask
  BY <1>6, <1>7
<1>10. call' = [call EXCEPT ![c] = call'[c]] /\ call'[c] \in Checking
       /\ call'[c].by = v /\ call'[c].listens
  <2> HIDE DEF new
  <2> QED BY <1>1, <1>6, <1>7
<1> QED BY <1>1, <1>2, <1>8, <1>9, <1>10

\* So does the approval of a request with candidates.
LEMMA ApproveFacts ==
  ASSUME DeskTyped, NEW r \in Tentatives, NEW i \in 1 .. 3, NEW c \in Calls, Approve(r, i, c)
  PROVE  /\ tentative[r].status = "PENDING" /\ call[c] = NoCall
         /\ call' = [call EXCEPT ![c] = call'[c]] /\ call'[c] \in Checking
         /\ call'[c].by = r /\ ~ call'[c].current
         /\ trouble' = IF Working(r) = {} THEN trouble ELSE trouble \cup {r}
         /\ UNCHANGED <<now, rows, edits, booking, page, tentative>>
<1> DEFINE ask == tentative[r].list[i]
           new == [at |-> "check", by |-> r, listens |-> TRUE, current |-> FALSE, ask |-> ask]
<1>1. /\ tentative[r].status = "PENDING" /\ i \in DOMAIN tentative[r].list /\ call[c] = NoCall
      /\ call' = [call EXCEPT ![c] = new]
      /\ trouble' = (IF Working(r) = {} THEN trouble ELSE trouble \cup {r})
      /\ UNCHANGED <<now, rows, edits, booking, page, tentative>>
  BY DEF Approve, MayApprove, Pending
<1>2. tentative[r].list \in CandidateLists
  <2>1. tentative[r].list \in {<<>>} \cup CandidateLists
    BY DEF DeskTyped, TentativeTypes
  <2>2. tentative[r].list # <<>>
    BY <1>1
  <2> QED BY <2>1, <2>2
<1>3. ask \in Requests /\ r \in Callers
  BY <1>1, <1>2, DeskAssumption DEF Callers
<1>4. new \in Checking /\ new.by = r /\ ~ new.current
  <2> HIDE DEF ask
  <2> QED BY <1>3 DEF Checking
<1>5. call'[c] = new
  <2> HIDE DEF new
  <2> QED BY <1>1 DEF DeskTyped
<1> HIDE DEF new
<1> QED BY <1>1, <1>4, <1>5

\* Looking for a slot, in all its steps, leaves alone what was sent.
Browse(v) ==
  \/ \E s \in Services, p \in Choices, d \in Dates : Choose(v, s, p, d)
  \/ ChooseAgain(v) \/ ShowSlots(v) \/ LoadFails(v)
  \/ \E slot \in page[v].slots : PickSlot(v, slot)

LEMMA BrowseFacts ==
  ASSUME DeskTyped, NEW v \in Visits, Browse(v)
  PROVE  /\ page' = [page EXCEPT ![v] = page'[v]]
         /\ page'[v] \in PageTypes /\ PageOk(page'[v])
         /\ page'[v].submitting = page[v].submitting /\ page'[v].result = page[v].result
         /\ \/ /\ page'[v].slots = page[v].slots /\ page'[v].loadedFor = page[v].loadedFor
               /\ page'[v].current = page[v].current
            \/ /\ page[v].service \in Services /\ page'[v].loadedFor = page[v].service
               /\ page'[v].slots = FindSlots(rows, Taken, now, page[v].service, page[v].date,
                                             page[v].staff)
         /\ UNCHANGED <<now, rows, edits, booking, tentative, call, trouble>>
<1> DEFINE P == page[v]
           Goal(new) ==
             /\ new \in PageTypes /\ PageOk(new)
             /\ new.submitting = P.submitting /\ new.result = P.result
             /\ \/ new.slots = P.slots /\ new.loadedFor = P.loadedFor /\ new.current = P.current
                \/ /\ P.service \in Services /\ new.loadedFor = P.service
                   /\ new.slots = FindSlots(rows, Taken, now, P.service, P.date, P.staff)
<1>1. P \in PageTypes /\ PageOk(P) /\ rows \in Edits \cup {First_rows}
  BY DEF DeskTyped
<1>2. SUFFICES \E new : page' = [page EXCEPT ![v] = new] /\ Goal(new)
                        /\ UNCHANGED <<now, rows, edits, booking, tentative, call, trouble>>
  <2>1. PICK new : page' = [page EXCEPT ![v] = new] /\ Goal(new)
                   /\ UNCHANGED <<now, rows, edits, booking, tentative, call, trouble>>
    BY <1>2
  <2>2. page'[v] = new
    <3> HIDE DEF Goal
    <3> QED BY <2>1 DEF DeskTyped
  <2> QED BY <2>1, <2>2
<1>3. ASSUME NEW s \in Services, NEW p \in Choices, NEW d \in Dates, Choose(v, s, p, d)
      PROVE  \E new : page' = [page EXCEPT ![v] = new] /\ Goal(new)
                      /\ UNCHANGED <<now, rows, edits, booking, tentative, call, trouble>>
  <2> DEFINE new == [P EXCEPT !.service = s, !.staff = p, !.date = d, !.slot = None,
                              !.loading = TRUE]
  <2>1. page' = [page EXCEPT ![v] = new]
        /\ UNCHANGED <<now, rows, edits, booking, tentative, call, trouble>>
    BY <1>3 DEF Choose
  <2>2. p \in {Anyone} \cup Nat /\ d \in Int
    BY DeskAssumption
  <2>3. new \in PageTypes
    BY <1>1, <2>2 DEF PageTypes
  <2>4. Goal(new)
    BY <1>1, <2>3 DEF PageOk, PageTypes
  <2> HIDE DEF new, Goal
  <2> QED BY <2>1, <2>4
<1>4. ASSUME ChooseAgain(v)
      PROVE  \E new : page' = [page EXCEPT ![v] = new] /\ Goal(new)
                      /\ UNCHANGED <<now, rows, edits, booking, tentative, call, trouble>>
  <2> DEFINE new == [P EXCEPT !.slot = None]
  <2>1. page' = [page EXCEPT ![v] = new]
        /\ UNCHANGED <<now, rows, edits, booking, tentative, call, trouble>>
    BY <1>4 DEF ChooseAgain
  <2>2. Goal(new)
    BY <1>1 DEF PageOk, PageTypes
  <2> HIDE DEF new, Goal
  <2> QED BY <2>1, <2>2
<1>5. ASSUME ShowSlots(v)
      PROVE  \E new : page' = [page EXCEPT ![v] = new] /\ Goal(new)
                      /\ UNCHANGED <<now, rows, edits, booking, tentative, call, trouble>>
  <2> DEFINE slots == FindSlots(rows, Taken, now, P.service, P.date, P.staff)
             new == [P EXCEPT !.loading = FALSE, !.current = TRUE, !.loadedFor = P.service,
                              !.slots = slots]
  <2>1. page' = [page EXCEPT ![v] = new] /\ P.loading
        /\ UNCHANGED <<now, rows, edits, booking, tentative, call, trouble>>
    BY <1>5 DEF ShowSlots
  <2>2. P.service \in Services /\ P.slot = None /\ P.date \in Int /\ P.staff \in {Anyone} \cup Nat
    BY <1>1, <2>1 DEF PageOk, PageTypes
  <2>3. slots \subseteq SlotTypes
    BY <1>1, <2>2, OfferedFacts
  <2> HIDE DEF slots
  <2>4. new \in PageTypes
    BY <1>1, <2>2, <2>3 DEF PageTypes
  <2>5. /\ new.loading = FALSE /\ new.slot = None /\ new.service = P.service
        /\ new.slots = slots /\ new.loadedFor = P.service
        /\ new.submitting = P.submitting /\ new.result = P.result
    BY <1>1, <2>2 DEF PageTypes
  <2>6. Goal(new)
    <3> HIDE DEF new
    <3> QED BY <2>2, <2>4, <2>5 DEF PageOk, slots
  <2> HIDE DEF new, Goal
  <2> QED BY <2>1, <2>6
<1>6. ASSUME LoadFails(v)
      PROVE  \E new : page' = [page EXCEPT ![v] = new] /\ Goal(new)
                      /\ UNCHANGED <<now, rows, edits, booking, tentative, call, trouble>>
  <2> DEFINE new == [P EXCEPT !.loading = FALSE]
  <2>1. page' = [page EXCEPT ![v] = new]
        /\ UNCHANGED <<now, rows, edits, booking, tentative, call, trouble>>
    BY <1>6 DEF LoadFails
  <2>2. Goal(new)
    BY <1>1 DEF PageOk, PageTypes
  <2> HIDE DEF new, Goal
  <2> QED BY <2>1, <2>2
<1>7. ASSUME NEW slot \in P.slots, PickSlot(v, slot)
      PROVE  \E new : page' = [page EXCEPT ![v] = new] /\ Goal(new)
                      /\ UNCHANGED <<now, rows, edits, booking, tentative, call, trouble>>
  <2> DEFINE new == [P EXCEPT !.slot = slot]
  <2>1. page' = [page EXCEPT ![v] = new] /\ ~ P.loading
        /\ UNCHANGED <<now, rows, edits, booking, tentative, call, trouble>>
    BY <1>7 DEF PickSlot
  <2>2. slot \in SlotTypes
    BY <1>1 DEF PageTypes
  <2>3. Goal(new)
    BY <1>1, <2>1, <2>2 DEF PageOk, PageTypes
  <2> HIDE DEF new, Goal
  <2> QED BY <2>1, <2>3
<1> HIDE DEF Goal
<1> QED BY <1>3, <1>4, <1>5, <1>6, <1>7 DEF Browse

\* The confirmation takes the place of the page that waited for it.
LEMMA ResultFacts ==
  ASSUME DeskTyped, NEW c \in Calls, ShowResult(c)
  PROVE  /\ call[c] \in Inserted /\ call[c].by \in Visits
         /\ call' = [call EXCEPT ![c] = NoCall]
         /\ page' \in [Visits -> PageTypes] /\ \A v \in Visits : PageOk(page'[v])
         /\ \A v \in Visits :
              IF v = call[c].by /\ call[c].listens
              THEN /\ page'[v].result = call[c].booking /\ ~ page'[v].submitting
                   /\ page'[v].slots = {} /\ ~ page'[v].current
              ELSE page'[v] = page[v]
         /\ UNCHANGED <<now, rows, edits, booking, tentative, trouble>>
<1> DEFINE new == [Fresh EXCEPT !.result = call[c].booking]
<1>1. /\ call[c].at = "inserted" /\ call[c].by \in Visits /\ call' = [call EXCEPT ![c] = NoCall]
      /\ page' = IF call[c].listens THEN [page EXCEPT ![call[c].by] = new] ELSE page
      /\ UNCHANGED <<now, rows, edits, booking, tentative, trouble>>
  BY DEF ShowResult, Answered
<1>2. call[c] \in Inserted
  BY <1>1, CallKinds DEF DeskTyped
<1>3. LocalDate(0) + 1 \in Int
  BY ClockAssumption DEF LocalDate
<1>4. /\ new \in PageTypes /\ new.result = call[c].booking /\ new.submitting = FALSE
      /\ new.slots = {} /\ new.current = FALSE /\ PageOk(new)
  BY <1>2, <1>3 DEF Inserted, Fresh, PageTypes, PageOk
<1> HIDE DEF new
<1>5. page' \in [Visits -> PageTypes] /\ \A v \in Visits : PageOk(page'[v])
  BY <1>1, <1>4 DEF DeskTyped
<1>6. \A v \in Visits :
        IF v = call[c].by /\ call[c].listens THEN page'[v] = new ELSE page'[v] = page[v]
  BY <1>1 DEF DeskTyped
<1> QED BY <1>1, <1>2, <1>4, <1>5, <1>6

\* A crash answers nobody.
LEMMA CrashFacts ==
  ASSUME DeskTyped, Crash
  PROVE  /\ call' = [c \in Calls |-> NoCall]
         /\ page' \in [Visits -> PageTypes] /\ \A v \in Visits : PageOk(page'[v])
         /\ \A v \in Visits : /\ SamePage(page[v], page'[v]) /\ ~ page'[v].submitting
                              /\ page'[v].current = page[v].current
         /\ trouble' = trouble \cup {call[c].by : c \in {x \in Calls : call[x] # NoCall}}
         /\ UNCHANGED <<now, rows, edits, booking, tentative>>
<1>1. /\ call' = [c \in Calls |-> NoCall]
      /\ page' = [v \in Visits |-> [page[v] EXCEPT !.submitting = FALSE]]
      /\ trouble' = trouble \cup {call[c].by : c \in {x \in Calls : call[x] # NoCall}}
      /\ UNCHANGED <<now, rows, edits, booking, tentative>>
  BY DEF Crash
<1>2. ASSUME NEW v \in Visits
      PROVE  /\ page'[v] \in PageTypes /\ SamePage(page[v], page'[v])
             /\ ~ page'[v].submitting /\ page'[v].current = page[v].current
  <2>1. page[v] \in PageTypes /\ page'[v] = [page[v] EXCEPT !.submitting = FALSE]
    BY <1>1 DEF DeskTyped
  <2> QED BY <2>1 DEF PageTypes, SamePage
<1>3. \A v \in Visits : PageOk(page'[v])
  BY <1>2, SamePageOk DEF DeskTyped
<1> QED BY <1>1, <1>2, <1>3

\* The answer is lost: the call goes on, and nobody listens.
LEMMA LostFacts ==
  ASSUME DeskTyped, NEW c \in Calls, LoseAnswer(c)
  PROVE  /\ call[c].at # "idle" /\ call[c].by \in Visits
         /\ call' \in [Calls -> CallTypes] /\ \A d \in Calls \ {c} : call'[d] = call[d]
         /\ call'[c].at = call[c].at /\ call'[c].by = call[c].by
         /\ call[c].at = "check" => call'[c].ask = call[c].ask
         /\ call[c].at \in {"check", "insert"} => call'[c].current = call[c].current
         /\ call[c].at = "insert" =>
              /\ call'[c].place = call[c].place /\ call'[c].raced = call[c].raced
              /\ call'[c].service = call[c].service
         /\ call[c].at = "inserted" => call'[c].booking = call[c].booking
         /\ page' = FailPage(c) /\ trouble' = trouble \cup {call[c].by}
         /\ UNCHANGED <<now, rows, edits, booking, tentative>>
<1> DEFINE x == call[c]
           new == [x EXCEPT !.listens = FALSE]
           Kept(y) == /\ y \in CallTypes /\ y.at = x.at /\ y.by = x.by
                      /\ x.at = "check" => y.ask = x.ask
                      /\ x.at \in {"check", "insert"} => y.current = x.current
                      /\ x.at = "insert" => y.place = x.place /\ y.raced = x.raced
                                            /\ y.service = x.service
                      /\ x.at = "inserted" => y.booking = x.booking
<1>1. /\ x # NoCall /\ x.by \in Visits /\ call' = [call EXCEPT ![c] = new]
      /\ page' = FailPage(c) /\ trouble' = trouble \cup {x.by}
      /\ UNCHANGED <<now, rows, edits, booking, tentative>>
  BY DEF LoseAnswer
<1>2. x \in CallTypes /\ x.at \in {"check", "insert", "inserted"}
  BY <1>1, CallKinds DEF DeskTyped
<1>3. Kept(new)
  <2> HIDE DEF x
  <2>1. CASE x.at = "check"
    <3>1. x \in Checking
      BY <1>2, <2>1, CallKinds
    <3> QED BY <2>1, <3>1 DEF CallTypes, Checking
  <2>2. CASE x.at = "insert"
    <3>1. x \in Inserting
      BY <1>2, <2>2, CallKinds
    <3> QED BY <2>2, <3>1 DEF CallTypes, Inserting
  <2>3. CASE x.at = "inserted"
    <3>1. x \in Inserted
      BY <1>2, <2>3, CallKinds
    <3> QED BY <2>3, <3>1 DEF CallTypes, Inserted
  <2> QED BY <1>2, <2>1, <2>2, <2>3
<1> HIDE DEF new
<1>4. /\ call' \in [Calls -> CallTypes] /\ call'[c] = new
      /\ \A d \in Calls \ {c} : call'[d] = call[d]
  BY <1>1, <1>3 DEF DeskTyped
<1> QED BY <1>1, <1>2, <1>3, <1>4

\* The request is approved unless somebody was faster.
LEMMA ApprovedFacts ==
  ASSUME DeskTyped, NEW c \in Calls, MarkApproved(c)
  PROVE  /\ call[c] \in Inserted /\ call[c].by \in Tentatives
         /\ call' = [call EXCEPT ![c] = NoCall]
         /\ tentative' \in [Tentatives -> TentativeTypes]
         /\ \A r \in Tentatives :
              IF r = call[c].by /\ tentative[r].status = "PENDING"
              THEN tentative'[r].status = "APPROVED" /\ tentative'[r].booking = call[c].booking
              ELSE tentative'[r] = tentative[r]
         /\ UNCHANGED <<now, rows, edits, booking, page, trouble>>
<1> DEFINE r == call[c].by
           new == [tentative[r] EXCEPT !.status = "APPROVED", !.booking = call[c].booking]
<1>1. /\ call[c].at = "inserted" /\ r \in Tentatives /\ call' = [call EXCEPT ![c] = NoCall]
      /\ tentative' = IF tentative[r].status = "PENDING" THEN [tentative EXCEPT ![r] = new]
                      ELSE tentative
      /\ UNCHANGED <<now, rows, edits, booking, page, trouble>>
  BY DEF MarkApproved, Answered
<1>2. call[c] \in Inserted /\ tentative[r] \in TentativeTypes
  BY <1>1, CallKinds DEF DeskTyped
<1>3. new \in TentativeTypes /\ new.status = "APPROVED" /\ new.booking = call[c].booking
  BY <1>2 DEF Inserted, TentativeTypes
<1> HIDE DEF new
<1>4. tentative' \in [Tentatives -> TentativeTypes]
  BY <1>1, <1>3 DEF DeskTyped
<1>5. \A t \in Tentatives :
        IF t = r /\ tentative[t].status = "PENDING" THEN tentative'[t] = new
        ELSE tentative'[t] = tentative[t]
  BY <1>1 DEF DeskTyped
<1> QED BY <1>1, <1>2, <1>3, <1>4, <1>5

LEMMA CreatedFacts ==
  ASSUME DeskTyped, NEW r \in Tentatives, NEW list \in CandidateLists, CreateTentative(r, list)
  PROVE  /\ tentative[r].status = None
         /\ tentative' \in [Tentatives -> TentativeTypes]
         /\ tentative'[r].status = "PENDING" /\ tentative'[r].booking = tentative[r].booking
         /\ \A t \in Tentatives \ {r} : tentative'[t] = tentative[t]
         /\ UNCHANGED <<now, rows, edits, booking, page, call, trouble>>
<1> DEFINE new == [tentative[r] EXCEPT !.status = "PENDING", !.list = list]
<1>1. /\ tentative[r].status = None /\ tentative' = [tentative EXCEPT ![r] = new]
      /\ UNCHANGED <<now, rows, edits, booking, page, call, trouble>>
  BY DEF CreateTentative
<1>2. tentative[r] \in TentativeTypes
  BY DEF DeskTyped
<1>3. new \in TentativeTypes /\ new.status = "PENDING" /\ new.booking = tentative[r].booking
  BY <1>2 DEF TentativeTypes
<1> HIDE DEF new
<1> QED BY <1>1, <1>3 DEF DeskTyped

\* A call ends where it is, with a refusal.
Refuse(c) ==
  /\ call[c].at \in {"check", "insert"}
  /\ call' = [call EXCEPT ![c] = NoCall] /\ page' = FailPage(c)
  /\ UNCHANGED <<now, rows, edits, booking, tentative, trouble>>

\* Nothing but time goes by, or nothing at all.
Wait == \/ Tick
        \/ UNCHANGED vars

LEMMA WaitFacts ==
  ASSUME DeskTyped, Wait
  PROVE  /\ call' \in [Calls -> CallTypes]
         /\ page' \in [Visits -> PageTypes] /\ \A v \in Visits : PageOk(page'[v])
         /\ \A v \in Visits : /\ SamePage(page[v], page'[v])
                              /\ page'[v].submitting = page[v].submitting
         /\ \A c \in Calls : SameCall(call[c], call'[c]) \/ call'[c] = call[c]
         /\ \/ /\ \A v \in Visits : ~ page'[v].current
               /\ \A c \in Calls : SameCall(call[c], call'[c])
            \/ page' = page /\ call' = call /\ now' = now
         /\ UNCHANGED <<rows, booking, tentative, trouble>>
<1>1. CASE Tick
  <2>1. /\ page' = StalePages /\ call' = Stale(call)
        /\ UNCHANGED <<rows, edits, booking, tentative, trouble>>
    BY <1>1 DEF Tick
  <2>2. call \in [Calls -> CallTypes]
    BY DEF DeskTyped
  <2> QED BY <2>1, <2>2, StalePagesFacts, StaleFacts
<1>2. CASE UNCHANGED vars
  <2>1. UNCHANGED <<now, rows, booking, page, tentative, call, trouble>>
    BY <1>2 DEF vars
  <2> QED BY <2>1 DEF DeskTyped, SamePage
<1> QED BY <1>1, <1>2 DEF Wait

LEMMA StepCases ==
  ASSUME [Next]_vars
  PROVE  \/ \E v \in Visits : Browse(v) \/ \E c \in Calls : Confirm(v, c)
         \/ \E r \in Tentatives :
              \/ \E list \in CandidateLists : CreateTentative(r, list)
              \/ \E i \in 1 .. 3, c \in Calls : Approve(r, i, c)
         \/ \E c \in Calls :
              \/ Check(c) /\ Candidates(rows, Taken, now, call[c].ask) # {}
              \/ Refuse(c) \/ ShowResult(c) \/ MarkApproved(c) \/ LoseAnswer(c)
              \/ \E b \in Bookings : Insert(c, b)
         \/ \E e \in Edits : Edit(e)
         \/ \E b \in Bookings : Cancel(b)
         \/ Crash \/ Wait
<1>1. ASSUME NEW c \in Calls, Check(c), Candidates(rows, Taken, now, call[c].ask) = {}
      PROVE  Refuse(c)
  BY <1>1 DEF Check, Refuse, Answered
<1>2. ASSUME NEW c \in Calls, Conflict(c) PROVE Refuse(c)
  BY <1>2 DEF Conflict, Refuse, Answered
<1> QED BY <1>1, <1>2 DEF Next, Wait, Browse

LEMMA TypedInit == Init => DeskTyped
<1> SUFFICES ASSUME Init PROVE DeskTyped
  OBVIOUS
<1>1. rows \in Edits \cup {First_rows} /\ booking \in [Bookings -> BookingTypes]
  BY DEF Init, BookingTypes
<1>2. Fresh \in PageTypes /\ PageOk(Fresh)
  <2>1. LocalDate(0) + 1 \in Int
    BY ClockAssumption DEF LocalDate
  <2> QED BY <2>1 DEF Fresh, PageTypes, PageOk
<1>3. page \in [Visits -> PageTypes] /\ \A v \in Visits : PageOk(page[v])
  BY <1>2 DEF Init
<1>4. tentative \in [Tentatives -> TentativeTypes]
  BY DEF Init, TentativeTypes
<1>5. call \in [Calls -> CallTypes]
  BY NoCallTyped DEF Init
<1> QED BY <1>1, <1>3, <1>4, <1>5 DEF DeskTyped

LEMMA TypedStep == DeskTyped /\ [Next]_vars => DeskTyped'
<1> SUFFICES ASSUME DeskTyped, [Next]_vars PROVE DeskTyped'
  OBVIOUS
<1> DEFINE R == rows' \in Edits \cup {First_rows}
           B == booking' \in [Bookings -> BookingTypes]
           P == page' \in [Visits -> PageTypes] /\ \A v \in Visits : PageOk(page'[v])
           T == tentative' \in [Tentatives -> TentativeTypes]
           C == call' \in [Calls -> CallTypes]
<1>1. (UNCHANGED rows => R) /\ (UNCHANGED booking => B) /\ (UNCHANGED page => P)
      /\ (UNCHANGED tentative => T) /\ (UNCHANGED call => C)
  BY DEF DeskTyped
<1>2. page' = StalePages => P
  BY StalePagesFacts
<1>3. SUFFICES R /\ B /\ P /\ T /\ C
  BY <1>3 DEF DeskTyped
<1> HIDE DEF R, B, P, T, C
<1>4. ASSUME NEW v \in Visits, Browse(v) PROVE R /\ B /\ P /\ T /\ C
  BY <1>1, <1>4, BrowseFacts, PageChanged DEF P
<1>5. ASSUME NEW v \in Visits, NEW c \in Calls, Confirm(v, c) PROVE R /\ B /\ P /\ T /\ C
  <2>1. /\ call' = [call EXCEPT ![c] = call'[c]] /\ call'[c] \in Checking
        /\ page' = [page EXCEPT ![v] = [page[v] EXCEPT !.submitting = TRUE]]
        /\ UNCHANGED <<rows, booking, tentative>>
    BY <1>5, ConfirmFacts
  <2>2. C
    BY <2>1, CallChanged DEF C, CallTypes
  <2> DEFINE new == [page[v] EXCEPT !.submitting = TRUE]
  <2>3. new \in PageTypes /\ PageOk(new)
    BY DEF DeskTyped, PageTypes, PageOk
  <2> HIDE DEF new
  <2>4. P
    BY <2>1, <2>3, PageChanged DEF P, new
  <2> QED BY <1>1, <2>1, <2>2, <2>4
<1>6. ASSUME NEW r \in Tentatives, NEW list \in CandidateLists, CreateTentative(r, list)
      PROVE  R /\ B /\ P /\ T /\ C
  BY <1>1, <1>6, CreatedFacts DEF T
<1>7. ASSUME NEW r \in Tentatives, NEW i \in 1 .. 3, NEW c \in Calls, Approve(r, i, c)
      PROVE  R /\ B /\ P /\ T /\ C
  <2>1. /\ call' = [call EXCEPT ![c] = call'[c]] /\ call'[c] \in CallTypes
        /\ UNCHANGED <<rows, booking, page, tentative>>
    BY <1>7, ApproveFacts DEF CallTypes
  <2> QED BY <1>1, <2>1, CallChanged DEF C
<1>8. ASSUME NEW c \in Calls, Check(c), Candidates(rows, Taken, now, call[c].ask) # {}
      PROVE  R /\ B /\ P /\ T /\ C
  <2>1. /\ call' = [call EXCEPT ![c] = call'[c]] /\ call'[c] \in CallTypes
        /\ UNCHANGED <<rows, booking, page, tentative>>
    BY <1>8, CheckFacts DEF CallTypes
  <2> QED BY <1>1, <2>1, CallChanged DEF C
<1>9. ASSUME NEW c \in Calls, Refuse(c) PROVE R /\ B /\ P /\ T /\ C
  <2>1. /\ call' = [call EXCEPT ![c] = NoCall] /\ page' = FailPage(c)
        /\ UNCHANGED <<rows, booking, tentative>>
    BY <1>9 DEF Refuse
  <2> QED BY <1>1, <2>1, CallChanged, NoCallTyped, FailPageFacts DEF C, P
<1>10. ASSUME NEW c \in Calls, ShowResult(c) PROVE R /\ B /\ P /\ T /\ C
  <2>1. /\ call' = [call EXCEPT ![c] = NoCall] /\ P /\ UNCHANGED <<rows, booking, tentative>>
    BY <1>10, ResultFacts DEF P
  <2> QED BY <1>1, <2>1, CallChanged, NoCallTyped DEF C
<1>11. ASSUME NEW c \in Calls, MarkApproved(c) PROVE R /\ B /\ P /\ T /\ C
  <2>1. /\ call' = [call EXCEPT ![c] = NoCall] /\ T /\ UNCHANGED <<rows, booking, page>>
    BY <1>11, ApprovedFacts DEF T
  <2> QED BY <1>1, <2>1, CallChanged, NoCallTyped DEF C
<1>12. ASSUME NEW c \in Calls, LoseAnswer(c) PROVE R /\ B /\ P /\ T /\ C
  <2>1. C /\ page' = FailPage(c) /\ UNCHANGED <<rows, booking, tentative>>
    BY <1>12, LostFacts DEF C
  <2> QED BY <1>1, <2>1, FailPageFacts DEF P
<1>13. ASSUME NEW c \in Calls, NEW b \in Bookings, Insert(c, b) PROVE R /\ B /\ P /\ T /\ C
  <2>1. /\ C /\ page' = StalePages /\ UNCHANGED <<rows, tentative>>
        /\ booking' = [booking EXCEPT ![b] = booking'[b]] /\ booking'[b] \in BookingTypes
    BY <1>13, InsertFacts DEF C, BookingTypes
  <2>2. B
    BY <2>1 DEF B, DeskTyped
  <2> QED BY <1>1, <1>2, <2>1, <2>2
<1>14. ASSUME NEW e \in Edits, Edit(e) PROVE R /\ B /\ P /\ T /\ C
  <2>1. rows' = e /\ C /\ page' = StalePages /\ UNCHANGED <<booking, tentative>>
    BY <1>14, EditFacts DEF C, Edit
  <2> QED BY <1>1, <1>2, <2>1 DEF R
<1>15. ASSUME NEW b \in Bookings, Cancel(b) PROVE R /\ B /\ P /\ T /\ C
  BY <1>1, <1>2, <1>15, CancelFacts DEF B, C
<1>16. ASSUME Crash PROVE R /\ B /\ P /\ T /\ C
  <2>1. call' = [c \in Calls |-> NoCall] /\ P /\ UNCHANGED <<rows, booking, tentative>>
    BY <1>16, CrashFacts DEF P
  <2> QED BY <1>1, <2>1, NoCallTyped DEF C
<1>17. ASSUME Wait PROVE R /\ B /\ P /\ T /\ C
  BY <1>1, <1>17, WaitFacts DEF C, P
<1> QED
  BY <1>4, <1>5, <1>6, <1>7, <1>8, <1>9, <1>10, <1>11, <1>12, <1>13, <1>14, <1>15, <1>16, <1>17,
     StepCases

LEMMA AlwaysTyped == Spec => []DeskTyped
  BY TypedInit, TypedStep, PTL DEF Spec
-----------------------------------------------------------------------------
(* Where bookings lie.                                                     *)

ClearPlace(place) ==
  \A t \in place.window.from .. (place.window.to - 1) :
    ClearAt(rows, place.staff, place.resource, t)

\* The checked place of a call whose rows did not change under it.
Unraced(c) == call[c].at = "insert" /\ ~ call[c].raced

Clear ==
  /\ \A c \in Calls : Unraced(c) => ClearPlace(call[c].place)
  /\ ClearUnlessRaced

LEMMA ClearStep == DeskTyped /\ Clear /\ [Next]_vars => Clear'
<1> SUFFICES ASSUME DeskTyped, Clear, [Next]_vars PROVE Clear'
  OBVIOUS
<1> DEFINE Kept(c) == Unraced(c)' => Unraced(c) /\ call'[c].place = call[c].place
           CallsClear == \A c \in Calls : Unraced(c)' => ClearPlace(call[c].place)'
           BookingsClear == \A b \in Bookings : booking'[b] # None => booking'[b].clear
<1>1. SUFFICES CallsClear /\ BookingsClear
  BY <1>1 DEF Clear, ClearUnlessRaced
<1>2. ASSUME UNCHANGED rows, NEW c \in Calls, Kept(c), Unraced(c)'
      PROVE  ClearPlace(call[c].place)'
  BY <1>2 DEF Clear, ClearPlace
<1>3. ASSUME UNCHANGED rows, \A c \in Calls : Kept(c) PROVE CallsClear
  BY <1>2, <1>3
<1>4. UNCHANGED booking => BookingsClear
  BY DEF Clear, ClearUnlessRaced
<1>5. UNCHANGED call => \A c \in Calls : Kept(c)
  BY DEF Unraced
<1>6. ASSUME NEW c \in Calls, NEW new, call' = [call EXCEPT ![c] = new], new.at # "insert"
      PROVE  \A d \in Calls : Kept(d)
  <2>1. call'[c] = new /\ \A d \in Calls \ {c} : call'[d] = call[d]
    BY <1>6 DEF DeskTyped
  <2> QED BY <1>6, <2>1 DEF Unraced
<1>7. ASSUME NEW c \in Calls, SameCall(call[c], call'[c]) PROVE Kept(c)
  BY <1>7 DEF SameCall, Unraced
<1>8. ASSUME NEW v \in Visits, Browse(v) PROVE CallsClear /\ BookingsClear
  BY <1>3, <1>4, <1>5, <1>8, BrowseFacts
<1>9. ASSUME NEW v \in Visits, NEW c \in Calls, Confirm(v, c)
      PROVE  CallsClear /\ BookingsClear
  <2>1. /\ call' = [call EXCEPT ![c] = call'[c]] /\ call'[c].at # "insert"
        /\ UNCHANGED <<rows, booking>>
    BY <1>9, ConfirmFacts DEF Checking
  <2> QED BY <1>3, <1>4, <1>6, <2>1
<1>10. ASSUME NEW r \in Tentatives, NEW list \in CandidateLists, CreateTentative(r, list)
       PROVE  CallsClear /\ BookingsClear
  BY <1>3, <1>4, <1>5, <1>10, CreatedFacts
<1>11. ASSUME NEW r \in Tentatives, NEW i \in 1 .. 3, NEW c \in Calls, Approve(r, i, c)
       PROVE  CallsClear /\ BookingsClear
  <2>1. /\ call' = [call EXCEPT ![c] = call'[c]] /\ call'[c].at # "insert"
        /\ UNCHANGED <<rows, booking>>
    BY <1>11, ApproveFacts DEF Checking
  <2> QED BY <1>3, <1>4, <1>6, <2>1
<1>12. ASSUME NEW c \in Calls, Check(c), Candidates(rows, Taken, now, call[c].ask) # {}
       PROVE  CallsClear /\ BookingsClear
  <2> DEFINE ask == call[c].ask
             cands == Candidates(rows, Taken, now, ask)
             w == Effective(rows.services[ask.service], ask.start)
  <2>1. /\ ask \in Requests /\ First(cands) \in cands
        /\ call' = [call EXCEPT ![c] = call'[c]]
        /\ call'[c].place = [staff |-> First(cands)[1], resource |-> First(cands)[2],
                             window |-> w]
        /\ UNCHANGED <<now, rows, booking>>
    BY <1>12, CheckFacts
  <2>2. rows \in Edits \cup {First_rows}
    BY DEF DeskTyped
  <2>3. ASSUME NEW t \in w.from .. (w.to - 1)
        PROVE  ClearAt(rows, First(cands)[1], First(cands)[2], t)
    <3> HIDE DEF ask
    <3> QED BY <2>1, <2>2, CandidateIsClear
  <2>4. ClearPlace(call[c].place)'
    <3> HIDE DEF cands, w
    <3>1. /\ call'[c].place.staff = First(cands)[1] /\ call'[c].place.window = w
          /\ call'[c].place.resource = First(cands)[2] /\ rows' = rows
      BY <2>1
    <3> QED BY <2>3, <3>1 DEF ClearPlace
  <2>5. \A d \in Calls \ {c} : call'[d] = call[d]
    BY <2>1 DEF DeskTyped
  <2>6. \A d \in Calls \ {c} : Kept(d)
    BY <2>5 DEF Unraced
  <2> HIDE DEF cands, w, ask, Kept
  <2>7. CallsClear
    BY <1>2, <2>1, <2>4, <2>6
  <2> QED BY <1>4, <2>1, <2>7
<1>13. ASSUME NEW c \in Calls, Refuse(c) PROVE CallsClear /\ BookingsClear
  <2>1. call' = [call EXCEPT ![c] = NoCall] /\ UNCHANGED <<rows, booking>>
    BY <1>13 DEF Refuse
  <2>2. NoCall.at # "insert"
    BY DEF NoCall
  <2> QED BY <1>3, <1>4, <1>6, <2>1, <2>2
<1>14. ASSUME NEW c \in Calls, ShowResult(c) PROVE CallsClear /\ BookingsClear
  <2>1. call' = [call EXCEPT ![c] = NoCall] /\ UNCHANGED <<rows, booking>>
    BY <1>14, ResultFacts
  <2>2. NoCall.at # "insert"
    BY DEF NoCall
  <2> QED BY <1>3, <1>4, <1>6, <2>1, <2>2
<1>15. ASSUME NEW c \in Calls, MarkApproved(c) PROVE CallsClear /\ BookingsClear
  <2>1. call' = [call EXCEPT ![c] = NoCall] /\ UNCHANGED <<rows, booking>>
    BY <1>15, ApprovedFacts
  <2>2. NoCall.at # "insert"
    BY DEF NoCall
  <2> QED BY <1>3, <1>4, <1>6, <2>1, <2>2
<1>16. ASSUME NEW c \in Calls, LoseAnswer(c) PROVE CallsClear /\ BookingsClear
  <2>1. /\ \A d \in Calls \ {c} : call'[d] = call[d]
        /\ call'[c].at = call[c].at
        /\ call[c].at = "insert" => call'[c].place = call[c].place /\ call'[c].raced = call[c].raced
        /\ UNCHANGED <<rows, booking>>
    BY <1>16, LostFacts
  <2>2. \A d \in Calls : Kept(d)
    BY <2>1 DEF Unraced
  <2> QED BY <1>3, <1>4, <2>1, <2>2
<1>17. ASSUME NEW c \in Calls, NEW b \in Bookings, Insert(c, b)
       PROVE  CallsClear /\ BookingsClear
  <2>1. /\ \A d \in Calls \ {c} : SameCall(call[d], call'[d])
        /\ call'[c].at = "inserted" /\ rows' = rows
        /\ booking' = [booking EXCEPT ![b] = booking'[b]]
    BY <1>17, InsertFacts
  <2>2. \A d \in Calls : Kept(d)
    BY <1>7, <2>1 DEF Unraced
  <2>3. booking'[b].clear <=> call[c].raced \/ ClearPlace(call[c].place)
    BY <1>17, InsertFacts DEF ClearPlace
  <2>4. call[c].at = "insert"
    BY <1>17 DEF Insert
  <2>5. booking'[b].clear
    BY <2>3, <2>4 DEF Clear, Unraced
  <2>6. \A x \in Bookings \ {b} : booking'[x] = booking[x]
    BY <2>1 DEF DeskTyped
  <2>7. BookingsClear
    BY <2>5, <2>6 DEF Clear, ClearUnlessRaced
  <2> QED BY <1>3, <2>1, <2>2, <2>7
<1>18. ASSUME NEW e \in Edits, Edit(e) PROVE CallsClear /\ BookingsClear
  <2>1. /\ \A c \in Calls : call'[c].at = call[c].at /\ (call[c].at = "insert" => call'[c].raced)
        /\ UNCHANGED booking
    BY <1>18, EditFacts
  <2>2. \A c \in Calls : ~ Unraced(c)'
    BY <2>1 DEF Unraced
  <2> QED BY <1>4, <2>1, <2>2
<1>19. ASSUME NEW b \in Bookings, Cancel(b) PROVE CallsClear /\ BookingsClear
  <2>1. /\ booking[b] # None /\ booking'[b].clear = booking[b].clear
        /\ \A x \in Bookings \ {b} : booking'[x] = booking[x]
        /\ \A c \in Calls : SameCall(call[c], call'[c])
        /\ UNCHANGED rows
    BY <1>19, CancelFacts
  <2>2. BookingsClear
    BY <2>1 DEF Clear, ClearUnlessRaced
  <2> QED BY <1>3, <1>7, <2>1, <2>2
<1>20. ASSUME Crash PROVE CallsClear /\ BookingsClear
  <2>1. call' = [c \in Calls |-> NoCall] /\ UNCHANGED booking
    BY <1>20, CrashFacts
  <2>2. \A c \in Calls : ~ Unraced(c)'
    BY <2>1 DEF Unraced, NoCall
  <2> QED BY <1>4, <2>1, <2>2
<1>21. ASSUME Wait PROVE CallsClear /\ BookingsClear
  <2>1. /\ \A c \in Calls : SameCall(call[c], call'[c]) \/ call'[c] = call[c]
        /\ UNCHANGED <<rows, booking>>
    BY <1>21, WaitFacts
  <2>2. \A c \in Calls : Kept(c)
    BY <1>7, <2>1 DEF Unraced
  <2> QED BY <1>3, <1>4, <2>1, <2>2
<1> HIDE DEF CallsClear, BookingsClear
<1> QED
  BY <1>8, <1>9, <1>10, <1>11, <1>12, <1>13, <1>14, <1>15, <1>16, <1>17, <1>18, <1>19, <1>20,
     <1>21, StepCases

\* Bookings lie in the working hours of their staff member, outside time off and
\* every repetition of the calendar blocks, instant by instant and for any rows,
\* unless the rows changed between the check and the insert.
THEOREM ClearPlaces == Spec => []ClearUnlessRaced
<1>1. Init => Clear
  BY DEF Init, Clear, ClearUnlessRaced, Unraced, NoCall
<1>2. Clear => ClearUnlessRaced
  BY DEF Clear
<1> QED BY <1>1, <1>2, ClearStep, AlwaysTyped, PTL DEF Spec
-----------------------------------------------------------------------------
(* Who made a booking, and who knows of it.                                *)

Active(c) == call[c].at # "idle"

\* A caller without trouble has one call at a time; a page waits for its answer
\* and shows no result yet; a request with candidates is not approved yet.
OneCall ==
  \A c, d \in Calls :
    Active(c) /\ Active(d) /\ call[c].by = call[d].by /\ call[c].by \notin trouble => c = d

PageWaits ==
  \A c \in Calls : Active(c) /\ call[c].by \in Visits /\ call[c].by \notin trouble =>
    call[c].listens /\ page[call[c].by].submitting /\ page[call[c].by].result = None

RequestWaits ==
  /\ \A c \in Calls : Active(c) /\ call[c].by \in Tentatives /\ call[c].by \notin trouble =>
       tentative[call[c].by].status = "PENDING"
  /\ \A r \in Tentatives : tentative[r].status # "APPROVED" => tentative[r].booking = None

\* Each of its bookings is the one it knows of, or its call is about to say so.
Credited(b) ==
  \/ booking[b].by \in Visits /\ page[booking[b].by].result = b
  \/ booking[b].by \in Tentatives /\ tentative[booking[b].by].booking = b
Told(b) ==
  \E c \in Calls : call[c].at = "inserted" /\ call[c].booking = b /\ call[c].by = booking[b].by
Named ==
  \A b \in Bookings : booking[b] # None /\ booking[b].by \notin trouble => Credited(b) \/ Told(b)

Orderly == OneCall /\ PageWaits /\ RequestWaits /\ Named

\* A step after which everybody still waits for, and has been told, the same.
LEMMA QuietStep ==
  ASSUME Orderly,
         \A d \in Calls : /\ Active(d)' <=> Active(d)
                          /\ Active(d) => call'[d].by = call[d].by /\ call'[d].listens = call[d].listens
                          /\ call[d].at = "inserted" =>
                               call'[d].at = "inserted" /\ call'[d].booking = call[d].booking,
         \A v \in Visits : page'[v].submitting = page[v].submitting /\ page'[v].result = page[v].result,
         \A b \in Bookings : booking'[b] # None =>
                               booking[b] # None /\ booking'[b].by = booking[b].by,
         UNCHANGED <<tentative, trouble>>
  PROVE  Orderly'
<1>1. OneCall'
  BY DEF Orderly, OneCall
<1>2. PageWaits'
  BY DEF Orderly, PageWaits
<1>3. RequestWaits'
  BY DEF Orderly, RequestWaits
<1>4. Named'
  <2> SUFFICES ASSUME NEW b \in Bookings, booking'[b] # None, booking'[b].by \notin trouble'
               PROVE  (Credited(b) \/ Told(b))'
    BY DEF Named
  <2>1. booking[b] # None /\ booking'[b].by = booking[b].by /\ booking[b].by \notin trouble
    OBVIOUS
  <2>2. CASE Credited(b)
    BY <2>1, <2>2 DEF Credited
  <2>3. CASE Told(b)
    <3>1. PICK c \in Calls :
            call[c].at = "inserted" /\ call[c].booking = b /\ call[c].by = booking[b].by
      BY <2>3 DEF Told
    <3>2. call'[c].at = "inserted" /\ call'[c].booking = b /\ call'[c].by = booking'[b].by
      BY <2>1, <3>1 DEF Active
    <3> QED BY <3>2 DEF Told
  <2> QED BY <2>1, <2>2, <2>3 DEF Orderly, Named
<1> QED BY <1>1, <1>2, <1>3, <1>4 DEF Orderly

LEMMA ActiveFacts ==
  ASSUME DeskTyped, NEW c \in Calls
  PROVE  /\ Active(c) <=> call[c] # NoCall
         /\ Active(c) => call[c].by \in Callers
BY CallKinds DEF DeskTyped, Active

\* A new call of somebody who waits for none.
LEMMA NewCall ==
  ASSUME Orderly, DeskTyped, NEW c \in Calls, call[c] = NoCall,
         call' = [call EXCEPT ![c] = call'[c]], call'[c].at = "check",
         call'[c].by \notin trouble' =>
           \A d \in Calls : ~ (Active(d) /\ call[d].by = call'[c].by),
         call'[c].by \in Visits => call'[c].listens /\ page'[call'[c].by].submitting
                                   /\ page'[call'[c].by].result = None,
         call'[c].by \in Tentatives => tentative[call'[c].by].status = "PENDING",
         \A v \in Visits : /\ v # call'[c].by => page'[v] = page[v]
                           /\ page'[v].result = page[v].result,
         trouble \subseteq trouble', UNCHANGED <<booking, tentative>>
  PROVE  Orderly'
<1>1. \A d \in Calls \ {c} : call'[d] = call[d]
  BY DEF DeskTyped
<1>2. ~ Active(c) /\ call[c].at # "inserted"
  BY DEF Active, NoCall
<1>3. OneCall'
  BY <1>1, <1>2 DEF Orderly, OneCall, Active
<1>4. PageWaits'
  <2> SUFFICES ASSUME NEW d \in Calls, Active(d)', call'[d].by \in Visits,
                      call'[d].by \notin trouble'
               PROVE  call'[d].listens /\ page'[call'[d].by].submitting
                      /\ page'[call'[d].by].result = None
    BY DEF PageWaits
  <2>1. CASE d = c
    BY <2>1
  <2>2. CASE d # c
    <3>1. Active(d) /\ call'[d] = call[d] /\ call[d].by \notin trouble
      BY <1>1, <2>2 DEF Active
    <3>2. call[d].by # call'[c].by
      BY <3>1
    <3> QED BY <3>1, <3>2 DEF Orderly, PageWaits
  <2> QED BY <2>1, <2>2
<1>5. RequestWaits'
  BY <1>1 DEF Orderly, RequestWaits, Active
<1>6. Named'
  <2> SUFFICES ASSUME NEW b \in Bookings, booking'[b] # None, booking'[b].by \notin trouble'
               PROVE  (Credited(b) \/ Told(b))'
    BY DEF Named
  <2>1. CASE Credited(b)
    BY <2>1 DEF Credited
  <2>2. CASE Told(b)
    BY <1>1, <1>2, <2>2 DEF Told
  <2> QED BY <2>1, <2>2 DEF Orderly, Named
<1> QED BY <1>3, <1>4, <1>5, <1>6 DEF Orderly

\* A call that ends, its booking known to who asked for it, if it made one.
LEMMA CallEnds ==
  ASSUME Orderly, DeskTyped, NEW c \in Calls, Active(c), call' = [call EXCEPT ![c] = NoCall],
         \A v \in Visits : v # call[c].by \/ ~ call[c].listens => page'[v] = page[v],
         \A r \in Tentatives : r # call[c].by => tentative'[r] = tentative[r],
         \A b \in Bookings :
           /\ Credited(b) /\ call[c].at # "inserted" => Credited(b)'
           /\ call[c].at = "inserted" /\ call[c].booking = b /\ call[c].by = booking[b].by
                /\ booking[b] # None /\ booking[b].by \notin trouble => Credited(b)',
         \A r \in Tentatives : tentative'[r].status # "APPROVED" => tentative'[r].booking = None,
         UNCHANGED <<booking, trouble>>
  PROVE  Orderly'
<1>1. /\ \A d \in Calls \ {c} : call'[d] = call[d]
      /\ ~ Active(c)' /\ call'[c].at = "idle"
  BY DEF DeskTyped, Active, NoCall
<1>2. ASSUME NEW d \in Calls, Active(d)', call'[d].by \notin trouble'
      PROVE  /\ d # c /\ Active(d) /\ call'[d] = call[d] /\ call[d].by \notin trouble
             /\ call[d].by # call[c].by
  <2>1. d # c /\ Active(d) /\ call'[d] = call[d] /\ call[d].by \notin trouble
    BY <1>1, <1>2 DEF Active
  <2> QED BY <2>1 DEF Orderly, OneCall
<1>3. OneCall'
  BY <1>2 DEF Orderly, OneCall
<1>4. PageWaits'
  BY <1>2 DEF Orderly, PageWaits
<1>5. RequestWaits'
  BY <1>2 DEF Orderly, RequestWaits
<1>6. Named'
  <2> SUFFICES ASSUME NEW b \in Bookings, booking'[b] # None, booking'[b].by \notin trouble'
               PROVE  (Credited(b) \/ Told(b))'
    BY DEF Named
  <2>1. booking[b] # None /\ booking[b].by \notin trouble /\ booking'[b] = booking[b]
    OBVIOUS
  <2>2. CASE Told(b)
    <3>1. PICK d \in Calls :
            call[d].at = "inserted" /\ call[d].booking = b /\ call[d].by = booking[b].by
      BY <2>2 DEF Told
    <3>2. CASE d = c
      BY <2>1, <3>1, <3>2
    <3>3. CASE d # c
      BY <1>1, <2>1, <3>1, <3>3 DEF Told
    <3> QED BY <3>2, <3>3
  <2>3. CASE Credited(b) /\ call[c].at # "inserted"
    BY <2>3
  <2>4. CASE Credited(b) /\ call[c].at = "inserted"
    <3>1. booking[b].by # call[c].by
      <4>1. b # None
        BY DeskAssumption
      <4>2. tentative[call[c].by].status = "PENDING" => call[c].by \notin Tentatives
                                                        \/ tentative[call[c].by].booking = None
        BY DEF Orderly, RequestWaits
      <4>3. CASE booking[b].by \in Visits /\ page[booking[b].by].result = b
        BY <2>1, <4>1, <4>3 DEF Orderly, PageWaits
      <4>4. CASE booking[b].by \in Tentatives /\ tentative[booking[b].by].booking = b
        BY <2>1, <4>1, <4>2, <4>4 DEF Orderly, RequestWaits
      <4> QED BY <2>4, <4>3, <4>4 DEF Credited
    <3>2. Credited(b)'
      BY <2>1, <2>4, <3>1 DEF Credited
    <3> QED BY <3>2
  <2> QED BY <2>1, <2>2, <2>3, <2>4 DEF Orderly, Named
<1> QED BY <1>3, <1>4, <1>5, <1>6 DEF Orderly

LEMMA OrderlyInit == Init => Orderly
  BY DEF Init, Orderly, OneCall, PageWaits, RequestWaits, Named, Active, NoCall

LEMMA OrderlyStep == DeskTyped /\ Orderly /\ [Next]_vars => Orderly'
<1> SUFFICES ASSUME DeskTyped, Orderly, [Next]_vars PROVE Orderly'
  OBVIOUS
<1>1. ASSUME NEW v \in Visits, Browse(v) PROVE Orderly'
  <2>1. /\ page' = [page EXCEPT ![v] = page'[v]]
        /\ page'[v].submitting = page[v].submitting /\ page'[v].result = page[v].result
        /\ UNCHANGED <<booking, tentative, call, trouble>>
    BY <1>1, BrowseFacts
  <2>2. \A u \in Visits : page'[u].submitting = page[u].submitting /\ page'[u].result = page[u].result
    BY <2>1 DEF DeskTyped
  <2> QED BY <2>1, <2>2, QuietStep DEF Active
<1>2. ASSUME NEW v \in Visits, NEW c \in Calls, Confirm(v, c) PROVE Orderly'
  <2>1. /\ page[v].result = None /\ ~ page[v].submitting /\ call[c] = NoCall
        /\ call' = [call EXCEPT ![c] = call'[c]] /\ call'[c].at = "check"
        /\ call'[c].by = v /\ call'[c].listens
        /\ page' = [page EXCEPT ![v] = [page[v] EXCEPT !.submitting = TRUE]]
        /\ UNCHANGED <<booking, tentative, trouble>>
    BY <1>2, ConfirmFacts DEF Checking
  <2>2. page'[v].submitting /\ page'[v].result = None
        /\ \A u \in Visits : (u # v => page'[u] = page[u]) /\ page'[u].result = page[u].result
    BY <2>1 DEF DeskTyped, PageTypes
  <2>3. v \notin trouble => \A d \in Calls : ~ (Active(d) /\ call[d].by = v)
    BY <2>1 DEF Orderly, PageWaits
  <2>4. v \notin Tentatives
    BY DeskAssumption
  <2> QED BY <2>1, <2>2, <2>3, <2>4, NewCall
<1>3. ASSUME NEW r \in Tentatives, NEW list \in CandidateLists, CreateTentative(r, list)
      PROVE  Orderly'
  <2>1. /\ tentative[r].status = None
        /\ tentative'[r].status = "PENDING" /\ tentative'[r].booking = tentative[r].booking
        /\ \A t \in Tentatives \ {r} : tentative'[t] = tentative[t]
        /\ UNCHANGED <<booking, page, call, trouble>>
    BY <1>3, CreatedFacts
  <2>2. OneCall' /\ PageWaits'
    BY <2>1 DEF Orderly, OneCall, PageWaits, Active
  <2>3. RequestWaits'
    BY <2>1, DeskAssumption DEF Orderly, RequestWaits, Active
  <2>4. Named'
    BY <2>1 DEF Orderly, Named, Credited, Told
  <2> QED BY <2>2, <2>3, <2>4 DEF Orderly
<1>4. ASSUME NEW r \in Tentatives, NEW i \in 1 .. 3, NEW c \in Calls, Approve(r, i, c)
      PROVE  Orderly'
  <2>1. /\ tentative[r].status = "PENDING" /\ call[c] = NoCall
        /\ call' = [call EXCEPT ![c] = call'[c]] /\ call'[c].at = "check" /\ call'[c].by = r
        /\ trouble' = (IF Working(r) = {} THEN trouble ELSE trouble \cup {r})
        /\ UNCHANGED <<booking, page, tentative>>
    BY <1>4, ApproveFacts DEF Checking
  <2>2. r \notin trouble' => \A d \in Calls : ~ (Active(d) /\ call[d].by = r)
    <3>1. r \notin trouble' => Working(r) = {}
      BY <2>1
    <3> QED BY <3>1, ActiveFacts DEF Working
  <2>3. trouble \subseteq trouble' /\ r \notin Visits
    BY <2>1, DeskAssumption
  <2> QED BY <2>1, <2>2, <2>3, NewCall
<1>5. ASSUME NEW c \in Calls, Check(c), Candidates(rows, Taken, now, call[c].ask) # {}
      PROVE  Orderly'
  <2>1. /\ call[c] \in Checking /\ call'[c] \in Inserting
        /\ call' = [call EXCEPT ![c] = call'[c]]
        /\ call'[c].by = call[c].by /\ call'[c].listens = call[c].listens
        /\ UNCHANGED <<booking, page, tentative, trouble>>
    BY <1>5, CheckFacts
  <2>2. call[c].at = "check" /\ call'[c].at = "insert" /\ \A d \in Calls \ {c} : call'[d] = call[d]
    BY <2>1 DEF Checking, Inserting, DeskTyped
  <2> QED BY <2>1, <2>2, QuietStep DEF Active
<1>6. ASSUME NEW c \in Calls, Refuse(c) PROVE Orderly'
  <2>1. /\ call[c].at \in {"check", "insert"} /\ call' = [call EXCEPT ![c] = NoCall]
        /\ page' = FailPage(c) /\ UNCHANGED <<booking, tentative, trouble>>
    BY <1>6 DEF Refuse
  <2>2. \A v \in Visits : page'[v].result = page[v].result
                          /\ (v # call[c].by => page'[v] = page[v])
    BY <2>1, FailPageFacts DEF SamePage
  <2>3. ~ call[c].listens => page' = page
    BY <2>1 DEF FailPage
  <2>4. \A b \in Bookings : Credited(b) => Credited(b)'
    BY <2>1, <2>2 DEF Credited
  <2>5. Active(c) /\ call[c].at # "inserted"
    BY <2>1 DEF Active
  <2> QED BY <2>1, <2>2, <2>3, <2>4, <2>5, CallEnds DEF Orderly, RequestWaits
<1>7. ASSUME NEW c \in Calls, ShowResult(c) PROVE Orderly'
  <2>1. /\ call[c].at = "inserted" /\ call[c].by \in Visits
        /\ call' = [call EXCEPT ![c] = NoCall]
        /\ \A v \in Visits : v # call[c].by \/ ~ call[c].listens => page'[v] = page[v]
        /\ call[c].listens => page'[call[c].by].result = call[c].booking
        /\ UNCHANGED <<booking, tentative, trouble>>
    BY <1>7, ResultFacts DEF Inserted
  <2>2. Active(c)
    BY <2>1 DEF Active
  <2>3. call[c].by \notin trouble => call[c].listens
    BY <2>1, <2>2 DEF Orderly, PageWaits
  <2>4. ASSUME NEW b \in Bookings, call[c].booking = b, call[c].by = booking[b].by,
               booking[b].by \notin trouble
        PROVE  Credited(b)'
    BY <2>1, <2>3, <2>4 DEF Credited
  <2> QED BY <2>1, <2>2, <2>4, CallEnds DEF Orderly, RequestWaits
<1>8. ASSUME NEW c \in Calls, MarkApproved(c) PROVE Orderly'
  <2>1. /\ call[c].at = "inserted" /\ call[c].by \in Tentatives
        /\ call' = [call EXCEPT ![c] = NoCall]
        /\ \A r \in Tentatives :
             IF r = call[c].by /\ tentative[r].status = "PENDING"
             THEN tentative'[r].status = "APPROVED" /\ tentative'[r].booking = call[c].booking
             ELSE tentative'[r] = tentative[r]
        /\ UNCHANGED <<booking, page, trouble>>
    BY <1>8, ApprovedFacts DEF Inserted
  <2>2. Active(c)
    BY <2>1 DEF Active
  <2>3. call[c].by \notin trouble => tentative[call[c].by].status = "PENDING"
    BY <2>1, <2>2 DEF Orderly, RequestWaits
  <2>4. ASSUME NEW b \in Bookings, call[c].booking = b, call[c].by = booking[b].by,
               booking[b].by \notin trouble
        PROVE  Credited(b)'
    BY <2>1, <2>3, <2>4 DEF Credited
  <2>5. \A r \in Tentatives : tentative'[r].status # "APPROVED" => tentative'[r].booking = None
    BY <2>1 DEF Orderly, RequestWaits
  <2> QED BY <2>1, <2>2, <2>4, <2>5, CallEnds
<1>9. ASSUME NEW c \in Calls, LoseAnswer(c) PROVE Orderly'
  <2>1. /\ call[c].by \in Visits /\ \A d \in Calls \ {c} : call'[d] = call[d]
        /\ call'[c].at = call[c].at /\ call'[c].by = call[c].by
        /\ call[c].at = "inserted" => call'[c].booking = call[c].booking
        /\ page' = FailPage(c) /\ trouble' = trouble \cup {call[c].by}
        /\ UNCHANGED <<booking, tentative>>
    BY <1>9, LostFacts
  <2>2. \A v \in Visits : page'[v].result = page[v].result
                          /\ (v # call[c].by => page'[v] = page[v])
    BY <2>1, FailPageFacts DEF SamePage
  <2>3. \A d \in Calls : /\ Active(d)' <=> Active(d)
                         /\ call'[d].by = call[d].by
                         /\ call[d].at = "inserted" =>
                              call'[d].at = "inserted" /\ call'[d].booking = call[d].booking
    BY <2>1 DEF Active
  <2>4. OneCall'
    BY <2>1, <2>3 DEF Orderly, OneCall
  <2>5. PageWaits'
    BY <2>1, <2>2, <2>3 DEF Orderly, PageWaits
  <2>6. RequestWaits'
    BY <2>1, <2>3 DEF Orderly, RequestWaits
  <2>7. Named'
    BY <2>1, <2>2, <2>3 DEF Orderly, Named, Credited, Told
  <2> QED BY <2>4, <2>5, <2>6, <2>7 DEF Orderly
<1>10. ASSUME NEW c \in Calls, NEW b \in Bookings, Insert(c, b) PROVE Orderly'
  <2>1. /\ call[c] \in Inserting /\ booking[b] = None
        /\ booking' = [booking EXCEPT ![b] = booking'[b]] /\ booking'[b].by = call[c].by
        /\ \A d \in Calls \ {c} : SameCall(call[d], call'[d])
        /\ call'[c].at = "inserted" /\ call'[c].by = call[c].by
        /\ call'[c].listens = call[c].listens /\ call'[c].booking = b
        /\ page' = StalePages /\ UNCHANGED <<tentative, trouble>>
    BY <1>10, InsertFacts
  <2>2. call[c].at = "insert" /\ \A x \in Bookings \ {b} : booking'[x] = booking[x]
    BY <2>1 DEF Inserting, DeskTyped
  <2>3. \A v \in Visits : page'[v].submitting = page[v].submitting /\ page'[v].result = page[v].result
    BY <2>1, StalePagesFacts DEF SamePage
  <2>4. \A d \in Calls : /\ Active(d)' <=> Active(d)
                         /\ Active(d) => call'[d].by = call[d].by /\ call'[d].listens = call[d].listens
                         /\ call[d].at = "inserted" =>
                              call'[d].at = "inserted" /\ call'[d].booking = call[d].booking
    BY <2>1, <2>2 DEF SameCall, Active
  <2>5. OneCall' /\ PageWaits' /\ RequestWaits'
    BY <2>1, <2>3, <2>4 DEF Orderly, OneCall, PageWaits, RequestWaits
  <2>6. Named'
    <3> SUFFICES ASSUME NEW x \in Bookings, booking'[x] # None, booking'[x].by \notin trouble'
                 PROVE  (Credited(x) \/ Told(x))'
      BY DEF Named
    <3>1. CASE x = b
      BY <2>1, <3>1 DEF Told
    <3>2. CASE x # b
      <4>1. booking'[x] = booking[x] /\ booking[x].by \notin trouble
        BY <2>1, <2>2, <3>2
      <4>2. CASE Credited(x)
        BY <2>1, <2>3, <4>1, <4>2 DEF Credited
      <4>3. CASE Told(x)
        <5>1. PICK d \in Calls :
                call[d].at = "inserted" /\ call[d].booking = x /\ call[d].by = booking[x].by
          BY <4>3 DEF Told
        <5>2. call'[d].at = "inserted" /\ call'[d].booking = x /\ call'[d].by = booking'[x].by
          BY <2>4, <4>1, <5>1 DEF Active
        <5> QED BY <5>2 DEF Told
      <4> QED BY <4>1, <4>2, <4>3 DEF Orderly, Named
    <3> QED BY <3>1, <3>2
  <2> QED BY <2>5, <2>6 DEF Orderly
<1>11. ASSUME NEW e \in Edits, Edit(e) PROVE Orderly'
  <2>1. /\ \A c \in Calls :
             /\ call'[c].at = call[c].at
             /\ call[c].at # "idle" => call'[c].by = call[c].by /\ call'[c].listens = call[c].listens
             /\ call[c].at = "inserted" => call'[c].booking = call[c].booking
        /\ page' = StalePages /\ UNCHANGED <<booking, tentative, trouble>>
    BY <1>11, EditFacts
  <2>2. \A v \in Visits : page'[v].submitting = page[v].submitting /\ page'[v].result = page[v].result
    BY <2>1, StalePagesFacts DEF SamePage
  <2> QED BY <2>1, <2>2, QuietStep DEF Active
<1>12. ASSUME NEW b \in Bookings, Cancel(b) PROVE Orderly'
  <2>1. /\ booking[b] # None /\ booking'[b].by = booking[b].by
        /\ \A x \in Bookings \ {b} : booking'[x] = booking[x]
        /\ \A c \in Calls : SameCall(call[c], call'[c])
        /\ page' = StalePages /\ UNCHANGED <<tentative, trouble>>
    BY <1>12, CancelFacts
  <2>2. \A v \in Visits : page'[v].submitting = page[v].submitting /\ page'[v].result = page[v].result
    BY <2>1, StalePagesFacts DEF SamePage
  <2>3. \A x \in Bookings : booking'[x] # None => booking[x] # None /\ booking'[x].by = booking[x].by
    BY <2>1
  <2> QED BY <2>1, <2>2, <2>3, QuietStep DEF Active, SameCall
<1>13. ASSUME Crash PROVE Orderly'
  <2>1. /\ call' = [c \in Calls |-> NoCall]
        /\ \A v \in Visits : SamePage(page[v], page'[v])
        /\ trouble' = trouble \cup {call[c].by : c \in {x \in Calls : call[x] # NoCall}}
        /\ UNCHANGED <<booking, tentative>>
    BY <1>13, CrashFacts
  <2>2. \A c \in Calls : ~ Active(c)' /\ (Active(c) => call[c].by \in trouble')
    BY <2>1, ActiveFacts DEF Active, NoCall
  <2>3. OneCall' /\ PageWaits' /\ RequestWaits'
    BY <2>1, <2>2 DEF Orderly, OneCall, PageWaits, RequestWaits
  <2>4. Named'
    <3> SUFFICES ASSUME NEW b \in Bookings, booking'[b] # None, booking'[b].by \notin trouble'
                 PROVE  Credited(b)'
      BY DEF Named
    <3>1. ~ Told(b)
      BY <2>1, <2>2 DEF Told, Active
    <3>2. Credited(b)
      BY <2>1, <3>1 DEF Orderly, Named
    <3> QED BY <2>1, <3>2 DEF Credited, SamePage
  <2> QED BY <2>3, <2>4 DEF Orderly
<1>14. ASSUME Wait PROVE Orderly'
  <2>1. /\ \A v \in Visits : SamePage(page[v], page'[v]) /\ page'[v].submitting = page[v].submitting
        /\ \A c \in Calls : SameCall(call[c], call'[c]) \/ call'[c] = call[c]
        /\ UNCHANGED <<booking, tentative, trouble>>
    BY <1>14, WaitFacts
  <2> QED BY <2>1, QuietStep DEF Active, SameCall, SamePage
<1> QED
  BY <1>1, <1>2, <1>3, <1>4, <1>5, <1>6, <1>7, <1>8, <1>9, <1>10, <1>11, <1>12, <1>13, <1>14,
     StepCases

LEMMA AlwaysOrderly == Spec => []Orderly
  BY OrderlyInit, OrderlyStep, AlwaysTyped, PTL DEF Spec

\* One visit makes a second booking only after an answer to it was lost, however
\* many visits, calls and bookings there are, and whatever else goes on.
THEOREM OneBookingEach == Spec => []SecondOnlyAfterLoss
<1>1. Orderly => SecondOnlyAfterLoss
  <2> SUFFICES ASSUME Orderly, NEW v \in Visits, v \notin trouble
               PROVE  ~ (Cardinality({b \in Bookings : booking[b] # None /\ booking[b].by = v}) > 1)
    BY DEF SecondOnlyAfterLoss
  <2> DEFINE made == {b \in Bookings : booking[b] # None /\ booking[b].by = v}
  <2>1. ASSUME NEW a \in made, NEW b \in made PROVE a = b
    <3>1. v \notin Tentatives /\ a # None /\ b # None
      BY DeskAssumption
    <3>2. (page[v].result = a \/ Told(a)) /\ (page[v].result = b \/ Told(b))
      BY <3>1 DEF Orderly, Named, Credited
    <3>3. Told(a) => page[v].result = None
      BY DEF Told, Orderly, PageWaits, Active
    <3>4. Told(b) => page[v].result = None
      BY DEF Told, Orderly, PageWaits, Active
    <3>5. CASE Told(a) /\ Told(b)
      <4>1. PICK c \in Calls :
              call[c].at = "inserted" /\ call[c].booking = a /\ call[c].by = v
        BY <3>5 DEF Told
      <4>2. PICK d \in Calls :
              call[d].at = "inserted" /\ call[d].booking = b /\ call[d].by = v
        BY <3>5 DEF Told
      <4>3. c = d
        BY <4>1, <4>2 DEF Orderly, OneCall, Active
      <4> QED BY <4>1, <4>2, <4>3
    <3> QED BY <3>1, <3>2, <3>3, <3>4, <3>5
  <2> HIDE DEF made
  <2>2. CASE made = {}
    BY <2>2, FS_EmptySet DEF made
  <2>3. CASE made # {}
    <3>1. PICK a \in made : TRUE
      BY <2>3
    <3>2. made = {a}
      BY <2>1, <3>1
    <3> QED BY <3>2, FS_Singleton DEF made
  <2> QED BY <2>2, <2>3
<1> QED BY <1>1, AlwaysOrderly, PTL

\* A booking made for a request with candidates is the one the request names, or
\* its approval is under way, unless approvals of it overlapped or were cut short.
THEOREM NoOrphans == Spec => []OrphanNeedsOverlap
<1>1. Orderly => OrphanNeedsOverlap
  BY DeskAssumption DEF Orderly, Named, Credited, Told, OrphanNeedsOverlap
<1> QED BY <1>1, AlwaysOrderly, PTL
-----------------------------------------------------------------------------
(* What was offered.                                                       *)

\* A candidate for a start, asked for by name, is a candidate.
LEMMA AskedByName ==
  ASSUME NEW r \in Edits \cup {First_rows}, NEW taken, NEW n,
         NEW service \in Services, NEW start \in Int, NEW staff \in {Anyone} \cup Nat,
         NEW c \in Candidates(r, taken, n, [service |-> service, start |-> start,
                                            staff |-> staff, resource |-> Anyone])
  PROVE  c \in Candidates(r, taken, n,
                 [service |-> service, start |-> start, staff |-> c[1],
                  resource |-> IF c[2] = NoResource THEN Anyone ELSE c[2]])
<1> DEFINE ask == [service |-> service, start |-> start, staff |-> staff, resource |-> Anyone]
           resource == IF c[2] = NoResource THEN Anyone ELSE c[2]
           named == [service |-> service, start |-> start, staff |-> c[1],
                     resource |-> resource]
           offered == r.services[service]
           w == Effective(offered, start)
           old == Asked(offered.resources, Anyone)
           new == Asked(offered.resources, resource)
           resources == IF new = {} THEN {NoResource} ELSE new
<1>1. /\ ask \in Requests /\ ask.service = service /\ ask.start = start /\ ask.staff = staff
      /\ ask.resource = Anyone
  BY DEF Requests
<1>2. /\ named.service = service /\ named.start = start /\ named.staff = c[1]
      /\ named.resource = resource
  OBVIOUS
<1> HIDE DEF ask, named
<1>3. /\ offered.active /\ EvaluateBookingStart(r.policy, start, n)
      /\ c \in Nat \X Nat /\ c[1] \in Asked(offered.staff, staff)
      /\ old = {} => c[2] = NoResource
      /\ old # {} => c[2] \in old
      /\ OpenFor(r, c[1], start, w)
      /\ \A away \in r.away : away.staff = c[1] => ~Overlap(w, away.window)
      /\ Busy(r, taken, c[1], w) < r.capacity[c[1]]
      /\ \A block \in r.blocks : InScope(block, c[1], c[2]) => Occurrences(block, w) = {}
      /\ c[2] # NoResource => Busy(r, taken, c[2], w) < r.capacity[c[2]]
  <2> HIDE DEF old, offered, w
  <2>1. c \in Candidates(r, taken, n, ask)
    BY DEF ask
  <2>2. offered = r.services[ask.service] /\ w = Effective(offered, ask.start)
    BY <1>1 DEF offered, w
  <2>3. old = Asked(offered.resources, ask.resource)
    BY <1>1 DEF old
  <2> QED BY <1>1, <2>1, <2>2, <2>3, CandidateFacts
<1>4. c[1] \in Asked(offered.staff, c[1])
  BY <1>3, ClockAssumption DEF Asked
<1>5. NoResource \notin offered.resources
  BY EditsAssumption DEF Admitted
<1>6. c[2] \in resources /\ (resource = Anyone \/ new # {})
  <2>1. CASE c[2] = NoResource
    <3>1. old = {}
      BY <1>3, <1>5, <2>1 DEF Asked
    <3>2. new = old /\ resource = Anyone
      BY <2>1
    <3> QED BY <2>1, <3>1, <3>2
  <2>2. CASE c[2] # NoResource
    <3>1. c[2] \in offered.resources /\ c[2] # Anyone
      BY <1>3, <2>2, ClockAssumption DEF Asked
    <3>2. new = {c[2]}
      BY <2>2, <3>1 DEF Asked
    <3> QED BY <3>2
  <2> QED BY <2>1, <2>2
<1>7. c \in Asked(offered.staff, c[1]) \X resources
  <2> HIDE DEF resources, offered
  <2>1. c = <<c[1], c[2]>>
    BY <1>3
  <2> QED BY <1>4, <1>6, <2>1
<1>8. Candidates(r, taken, n, named) =
        {d \in Asked(offered.staff, c[1]) \X resources :
             /\ OpenFor(r, d[1], start, w)
             /\ \A away \in r.away : away.staff = d[1] => ~Overlap(w, away.window)
             /\ Busy(r, taken, d[1], w) < r.capacity[d[1]]
             /\ \A block \in r.blocks :
                  InScope(block, d[1], d[2]) => Occurrences(block, w) = {}
             /\ d[2] # NoResource => Busy(r, taken, d[2], w) < r.capacity[d[2]]}
  BY <1>2, <1>3, <1>6 DEF Candidates
<1> HIDE DEF resources, offered, w
<1>9. c \in Candidates(r, taken, n, named)
  BY <1>3, <1>7, <1>8
<1> QED BY <1>9 DEF named

LEMMA TakenFinite == IsFiniteSet(Taken)
<1> DEFINE held == {x \in Bookings : booking[x] # None /\ booking[x].place # None}
           f == [b \in held |-> booking[b].place]
<1>1. IsFiniteSet(held)
  BY DeskAssumption, FS_Subset
<1>2. f \in Surjection(held, Taken)
  BY DEF Surjection, Taken
<1> HIDE DEF held, f
<1> QED BY <1>1, <1>2, FS_Surjection

\* What createWithConflictGuard asks of a place, the blacklist apart.
PlaceHolds(service, place) ==
  LET offered == rows.services[service]
      room(u) == Cardinality(Using(Taken, u, place.window)) < rows.capacity[u]
  IN /\ offered.active /\ place.staff \in offered.staff /\ room(place.staff)
     /\ place.resource # NoResource =>
          place.resource \in offered.resources /\ room(place.resource)

\* The guard counts bookings only, the check also imported events.
LEMMA CandidateHolds ==
  ASSUME rows \in Edits \cup {First_rows}, NEW ask \in Requests,
         NEW c \in Candidates(rows, Taken, now, ask),
         NEW w, w = Effective(rows.services[ask.service], ask.start),
         NEW place, place = [staff |-> c[1], resource |-> c[2], window |-> w]
  PROVE  PlaceHolds(ask.service, place)
<1> DEFINE offered == rows.services[ask.service]
<1>1. /\ offered.active
      /\ c \in Nat \X Nat /\ c[1] \in Asked(offered.staff, ask.staff)
      /\ Asked(offered.resources, ask.resource) = {} => c[2] = NoResource
      /\ Asked(offered.resources, ask.resource) # {} =>
           c[2] \in Asked(offered.resources, ask.resource)
      /\ Busy(rows, Taken, c[1], w) < rows.capacity[c[1]]
      /\ c[2] # NoResource => Busy(rows, Taken, c[2], w) < rows.capacity[c[2]]
  BY CandidateFacts
<1>2. c[1] \in offered.staff /\ (c[2] # NoResource => c[2] \in offered.resources)
  BY <1>1 DEF Asked
<1>3. ASSUME NEW u \in DOMAIN rows.capacity, Busy(rows, Taken, u, w) < rows.capacity[u]
      PROVE  Cardinality(Using(Taken, u, w)) < rows.capacity[u]
  <2> DEFINE events == {e \in rows.external : e.unit = u /\ Overlap(e.window, w)}
             mine == Using(Taken, u, w)
  <2>1. IsFiniteSet(rows.external) /\ rows.capacity[u] \in Nat
    BY EditsAssumption DEF Admitted
  <2>2. IsFiniteSet(events)
    BY <2>1, FS_Subset
  <2>3. IsFiniteSet(mine)
    BY TakenFinite, FS_Subset DEF Using
  <2>4. Busy(rows, Taken, u, w) = Cardinality(mine) + Cardinality(events)
    BY DEF Busy
  <2> HIDE DEF events, mine
  <2>5. Cardinality(mine) \in Nat /\ Cardinality(events) \in Nat
    BY <2>2, <2>3, FS_CardinalityType
  <2>6. Cardinality(mine) < rows.capacity[u]
    BY <1>3, <2>1, <2>4, <2>5
  <2> QED BY <2>6 DEF mine
<1>4. offered.staff \subseteq DOMAIN rows.capacity /\ offered.resources \subseteq DOMAIN rows.capacity
  BY EditsAssumption DEF Admitted, Requests
<1>5. place.staff = c[1] /\ place.resource = c[2] /\ place.window = w
  OBVIOUS
<1> HIDE DEF offered
<1>6. /\ Cardinality(Using(Taken, c[1], w)) < rows.capacity[c[1]]
      /\ c[2] # NoResource => Cardinality(Using(Taken, c[2], w)) < rows.capacity[c[2]]
  BY <1>1, <1>2, <1>3, <1>4
<1> QED BY <1>1, <1>2, <1>5, <1>6 DEF PlaceHolds, offered

\* A current list offers only what can be booked; a current call asked for it,
\* and the place it was given holds.
ListHolds(v) ==
  page[v].current =>
    \A slot \in page[v].slots : \E staff \in {Anyone} \cup Nat :
      slot.at \in Candidates(rows, Taken, now, [service |-> page[v].loadedFor,
                                                start |-> slot.start, staff |-> staff,
                                                resource |-> Anyone])
CallHolds(c) ==
  /\ call[c].at = "check" /\ call[c].current => Candidates(rows, Taken, now, call[c].ask) # {}
  /\ call[c].at = "insert" /\ call[c].current => PlaceHolds(call[c].service, call[c].place)

Offered == (\A v \in Visits : ListHolds(v)) /\ (\A c \in Calls : CallHolds(c))

World == <<now, rows, booking>>

LEMMA KeptHolds ==
  ASSUME UNCHANGED World
  PROVE  /\ Taken' = Taken
         /\ \A v \in Visits :
              ListHolds(v) /\ page'[v].slots = page[v].slots /\ page'[v].loadedFor = page[v].loadedFor
                /\ page'[v].current = page[v].current => ListHolds(v)'
         /\ \A c \in Calls : CallHolds(c) /\ call'[c] = call[c] => CallHolds(c)'
<1>1. Taken' = Taken
  BY DEF World, Taken
<1>2. ASSUME NEW v \in Visits, ListHolds(v), page'[v].slots = page[v].slots,
             page'[v].loadedFor = page[v].loadedFor, page'[v].current = page[v].current
      PROVE  ListHolds(v)'
  BY <1>1, <1>2 DEF World, ListHolds
<1>3. ASSUME NEW c \in Calls, CallHolds(c), call'[c] = call[c] PROVE CallHolds(c)'
  BY <1>1, <1>3 DEF World, CallHolds, PlaceHolds
<1> QED BY <1>1, <1>2, <1>3

\* What is no longer current promises nothing.
LEMMA StaleHolds ==
  ASSUME \A v \in Visits : ~ page'[v].current,
         \A c \in Calls : call'[c].at \in {"check", "insert"} => ~ call'[c].current
  PROVE  Offered'
BY DEF Offered, ListHolds, CallHolds

LEMMA OfferedStep == DeskTyped /\ Offered /\ [Next]_vars => Offered'
<1> SUFFICES ASSUME DeskTyped, Offered, [Next]_vars PROVE Offered'
  OBVIOUS
<1>1. ASSUME UNCHANGED World,
             \A v \in Visits : /\ page'[v].slots = page[v].slots
                               /\ page'[v].loadedFor = page[v].loadedFor
                               /\ page'[v].current = page[v].current
      PROVE  \A v \in Visits : ListHolds(v)'
  BY <1>1, KeptHolds DEF Offered
<1>2. ASSUME UNCHANGED World, NEW c \in Calls, NEW new, call' = [call EXCEPT ![c] = new],
             CallHolds(c)'
      PROVE  \A d \in Calls : CallHolds(d)'
  <2>1. \A d \in Calls \ {c} : call'[d] = call[d]
    BY <1>2 DEF DeskTyped
  <2> QED BY <1>2, <2>1, KeptHolds DEF Offered
<1>3. ASSUME NEW c \in Calls, call'[c] = NoCall PROVE CallHolds(c)'
  BY <1>3 DEF CallHolds, NoCall
<1>4. UNCHANGED <<World, call>> => \A c \in Calls : CallHolds(c)'
  BY KeptHolds DEF Offered
<1>5. ASSUME NEW v \in Visits, Browse(v) PROVE Offered'
  <2>1. /\ page' = [page EXCEPT ![v] = page'[v]] /\ UNCHANGED <<World, call>>
        /\ \/ /\ page'[v].slots = page[v].slots /\ page'[v].loadedFor = page[v].loadedFor
              /\ page'[v].current = page[v].current
           \/ /\ page[v].service \in Services /\ page'[v].loadedFor = page[v].service
              /\ page'[v].slots = FindSlots(rows, Taken, now, page[v].service, page[v].date,
                                            page[v].staff)
    BY <1>5, BrowseFacts DEF World
  <2>2. \A u \in Visits \ {v} : ListHolds(u)'
    <3>1. \A u \in Visits \ {v} : page'[u] = page[u]
      BY <2>1 DEF DeskTyped
    <3> QED BY <2>1, <3>1, KeptHolds DEF Offered
  <2>3. CASE /\ page'[v].slots = page[v].slots /\ page'[v].loadedFor = page[v].loadedFor
             /\ page'[v].current = page[v].current
    <3>1. ListHolds(v)'
      BY <2>1, <2>3, KeptHolds DEF Offered
    <3> QED BY <1>4, <2>1, <2>2, <3>1 DEF Offered
  <2>4. CASE /\ page[v].service \in Services /\ page'[v].loadedFor = page[v].service
             /\ page'[v].slots = FindSlots(rows, Taken, now, page[v].service, page[v].date,
                                           page[v].staff)
    <3>1. /\ rows \in Edits \cup {First_rows} /\ page[v].date \in Int
          /\ page[v].staff \in {Anyone} \cup Nat
      BY DEF DeskTyped, PageTypes
    <3>2. ASSUME NEW slot \in page'[v].slots
          PROVE  slot.at \in Candidates(rows, Taken, now,
                               [service |-> page[v].service, start |-> slot.start,
                                staff |-> page[v].staff, resource |-> Anyone])
      BY <2>4, <3>1, <3>2, OfferedFacts
    <3>3. UNCHANGED <<rows, now>> /\ Taken' = Taken
      BY <2>1, KeptHolds DEF World
    <3>4. ListHolds(v)'
      BY <2>4, <3>1, <3>2, <3>3 DEF ListHolds
    <3> QED BY <1>4, <2>1, <2>2, <3>4 DEF Offered
  <2> QED BY <2>1, <2>3, <2>4
<1>6. ASSUME NEW v \in Visits, NEW c \in Calls, Confirm(v, c) PROVE Offered'
  <2> DEFINE slot == page[v].slot
             ask == [service |-> page[v].service, start |-> slot.start, staff |-> slot.at[1],
                     resource |-> IF slot.at[2] = NoResource THEN Anyone ELSE slot.at[2]]
  <2>1. /\ slot \in SlotTypes /\ slot \in page[v].slots
        /\ call' = [call EXCEPT ![c] = call'[c]] /\ call'[c] \in Checking
        /\ call'[c].current => page[v].current /\ page[v].loadedFor = page[v].service
        /\ call'[c].ask = ask
        /\ page' = [page EXCEPT ![v] = [page[v] EXCEPT !.submitting = TRUE]]
        /\ UNCHANGED World
    BY <1>6, ConfirmFacts DEF World
  <2>2. /\ rows \in Edits \cup {First_rows} /\ page[v].service \in Services
        /\ slot.start \in Int
    BY <2>1 DEF DeskTyped, PageOk, SlotTypes
  <2>3. ASSUME call'[c].current PROVE Candidates(rows, Taken, now, ask) # {}
    <3>1. PICK staff \in {Anyone} \cup Nat :
            slot.at \in Candidates(rows, Taken, now,
                          [service |-> page[v].service, start |-> slot.start,
                           staff |-> staff, resource |-> Anyone])
      BY <2>1, <2>3 DEF Offered, ListHolds
    <3>2. slot.at \in Candidates(rows, Taken, now, ask)
      <4> HIDE DEF slot
      <4> QED BY <2>2, <3>1, AskedByName
    <3> QED BY <3>2
  <2> HIDE DEF ask
  <2>4. CallHolds(c)'
    <3>1. call'[c].at = "check" /\ UNCHANGED <<rows, now>> /\ Taken' = Taken
      BY <2>1, KeptHolds DEF Checking, World
    <3> QED BY <2>1, <2>3, <3>1 DEF CallHolds
  <2>5. \A u \in Visits : /\ page'[u].slots = page[u].slots
                          /\ page'[u].loadedFor = page[u].loadedFor
                          /\ page'[u].current = page[u].current
    BY <2>1 DEF DeskTyped, PageTypes
  <2> QED BY <1>1, <1>2, <2>1, <2>4, <2>5 DEF Offered
<1>7. ASSUME NEW r \in Tentatives, NEW list \in CandidateLists, CreateTentative(r, list)
      PROVE  Offered'
  <2>1. UNCHANGED <<World, page, call>>
    BY <1>7, CreatedFacts DEF World
  <2> QED BY <1>1, <1>4, <2>1 DEF Offered
<1>8. ASSUME NEW r \in Tentatives, NEW i \in 1 .. 3, NEW c \in Calls, Approve(r, i, c)
      PROVE  Offered'
  <2>1. /\ call' = [call EXCEPT ![c] = call'[c]] /\ ~ call'[c].current
        /\ UNCHANGED <<World, page>>
    BY <1>8, ApproveFacts DEF World
  <2>2. CallHolds(c)'
    BY <2>1 DEF CallHolds
  <2> QED BY <1>1, <1>2, <2>1, <2>2 DEF Offered
<1>9. ASSUME NEW c \in Calls, Check(c), Candidates(rows, Taken, now, call[c].ask) # {}
      PROVE  Offered'
  <2> DEFINE ask == call[c].ask
             cands == Candidates(rows, Taken, now, ask)
             w == Effective(rows.services[ask.service], ask.start)
  <2>1. /\ ask \in Requests /\ First(cands) \in cands
        /\ call' = [call EXCEPT ![c] = call'[c]] /\ call'[c] \in Inserting
        /\ call'[c].service = ask.service
        /\ call'[c].place = [staff |-> First(cands)[1], resource |-> First(cands)[2],
                             window |-> w]
        /\ UNCHANGED <<World, page>>
    BY <1>9, CheckFacts DEF World
  <2>2. rows \in Edits \cup {First_rows}
    BY DEF DeskTyped
  <2>3. PlaceHolds(call'[c].service, call'[c].place)
    <3> HIDE DEF ask
    <3> QED BY <2>1, <2>2, CandidateHolds
  <2> HIDE DEF cands, w, ask
  <2>4. CallHolds(c)'
    <3>1. call'[c].at = "insert" /\ UNCHANGED <<rows, now>> /\ Taken' = Taken
      BY <2>1, KeptHolds DEF Inserting, World
    <3> QED BY <2>3, <3>1 DEF CallHolds, PlaceHolds
  <2> QED BY <1>1, <1>2, <2>1, <2>4 DEF Offered
<1>10. ASSUME NEW c \in Calls, Refuse(c) PROVE Offered'
  <2>1. call' = [call EXCEPT ![c] = NoCall] /\ page' = FailPage(c) /\ UNCHANGED World
    BY <1>10 DEF Refuse, World
  <2>2. call'[c] = NoCall
    BY <2>1 DEF DeskTyped
  <2> QED BY <1>1, <1>2, <1>3, <2>1, <2>2, FailPageFacts DEF Offered, SamePage
<1>11. ASSUME NEW c \in Calls, ShowResult(c) PROVE Offered'
  <2>1. /\ call' = [call EXCEPT ![c] = NoCall] /\ UNCHANGED World
        /\ \A v \in Visits : page'[v] = page[v] \/ ~ page'[v].current
    BY <1>11, ResultFacts DEF World
  <2>2. call'[c] = NoCall
    BY <2>1 DEF DeskTyped
  <2>3. \A v \in Visits : ~ page'[v].current => ListHolds(v)'
    BY DEF ListHolds
  <2>4. \A v \in Visits : ListHolds(v)'
    BY <2>1, <2>3, KeptHolds DEF Offered
  <2> QED BY <1>2, <1>3, <2>1, <2>2, <2>4 DEF Offered
<1>12. ASSUME NEW c \in Calls, MarkApproved(c) PROVE Offered'
  <2>1. call' = [call EXCEPT ![c] = NoCall] /\ UNCHANGED <<World, page>>
    BY <1>12, ApprovedFacts DEF World
  <2>2. call'[c] = NoCall
    BY <2>1 DEF DeskTyped
  <2> QED BY <1>1, <1>2, <1>3, <2>1, <2>2 DEF Offered
<1>13. ASSUME NEW c \in Calls, LoseAnswer(c) PROVE Offered'
  <2>1. /\ \A d \in Calls \ {c} : call'[d] = call[d]
        /\ call'[c].at = call[c].at
        /\ call[c].at = "check" => call'[c].ask = call[c].ask
        /\ call[c].at \in {"check", "insert"} => call'[c].current = call[c].current
        /\ call[c].at = "insert" =>
             call'[c].place = call[c].place /\ call'[c].service = call[c].service
        /\ page' = FailPage(c) /\ UNCHANGED World
    BY <1>13, LostFacts DEF World
  <2>2. UNCHANGED <<rows, now>> /\ Taken' = Taken
    BY <2>1, KeptHolds DEF World
  <2>3. CallHolds(c)
    BY DEF Offered
  <2>4. CallHolds(c)'
    BY <2>1, <2>2, <2>3 DEF CallHolds, PlaceHolds
  <2>5. \A d \in Calls : CallHolds(d)'
    BY <2>1, <2>4, KeptHolds DEF Offered
  <2> QED BY <1>1, <2>1, <2>5, FailPageFacts DEF Offered, SamePage
<1>14. ASSUME NEW c \in Calls, NEW b \in Bookings, Insert(c, b) PROVE Offered'
  <2>1. /\ \A d \in Calls \ {c} : SameCall(call[d], call'[d])
        /\ call'[c].at = "inserted" /\ page' = StalePages
    BY <1>14, InsertFacts
  <2> QED BY <2>1, StalePagesFacts, StaleHolds DEF SameCall
<1>15. ASSUME NEW e \in Edits, Edit(e) PROVE Offered'
  BY <1>15, EditFacts, StalePagesFacts, StaleHolds
<1>16. ASSUME NEW b \in Bookings, Cancel(b) PROVE Offered'
  BY <1>16, CancelFacts, StalePagesFacts, StaleHolds DEF SameCall
<1>17. ASSUME Crash PROVE Offered'
  <2>1. /\ \A c \in Calls : call'[c] = NoCall
        /\ \A v \in Visits : SamePage(page[v], page'[v]) /\ page'[v].current = page[v].current
        /\ UNCHANGED World
    BY <1>17, CrashFacts DEF World
  <2> QED BY <1>1, <1>3, <2>1 DEF Offered, SamePage
<1>18. ASSUME Wait PROVE Offered'
  <2>1. \/ /\ \A v \in Visits : ~ page'[v].current
           /\ \A c \in Calls : SameCall(call[c], call'[c])
        \/ UNCHANGED <<World, page, call>>
    BY <1>18, WaitFacts DEF World
  <2>2. CASE /\ \A v \in Visits : ~ page'[v].current
             /\ \A c \in Calls : SameCall(call[c], call'[c])
    BY <2>2, StaleHolds DEF SameCall
  <2>3. CASE UNCHANGED <<World, page, call>>
    BY <1>1, <1>4, <2>3 DEF Offered
  <2> QED BY <2>1, <2>2, <2>3
<1> QED
  BY <1>5, <1>6, <1>7, <1>8, <1>9, <1>10, <1>11, <1>12, <1>13, <1>14, <1>15, <1>16, <1>17,
     <1>18, StepCases

LEMMA AlwaysOffered == Spec => []Offered
<1>1. Init => Offered
  BY DEF Init, Offered, ListHolds, CallHolds, Fresh, NoCall
<1> QED BY <1>1, OfferedStep, AlwaysTyped, PTL DEF Spec

\* An offer taken up is refused only when something changed since, when the
\* visitor is blacklisted, or when the list was that of another service: for any
\* rows, what findAvailabilitySlots shows passes check and guard.
THEOREM OffersHold == Spec => RefusedOnlyAfterChange
<1> DEFINE Kept == \A c \in Calls :
             Conflict(c) \/ (Check(c) /\ call'[c] = NoCall) => ~call[c].current \/ rows.blacklisted
<1>1. ASSUME DeskTyped, Offered PROVE Kept
  <2>1. ASSUME NEW c \in Calls, Conflict(c), call[c].current PROVE rows.blacklisted
    <3>1. call[c].at = "insert" /\ ~ Guard(c)
      BY <2>1 DEF Conflict
    <3>2. PlaceHolds(call[c].service, call[c].place)
      BY <1>1, <2>1, <3>1 DEF Offered, CallHolds
    <3> QED BY <3>1, <3>2 DEF Guard, PlaceHolds
  <2>2. ASSUME NEW c \in Calls, Check(c), call'[c] = NoCall PROVE ~ call[c].current
    <3>1. CASE Candidates(rows, Taken, now, call[c].ask) # {}
      <4>1. call'[c] \in Inserting
        BY <1>1, <2>2, <3>1, CheckFacts
      <4> QED BY <2>2, <4>1 DEF Inserting, NoCall
    <3>2. CASE Candidates(rows, Taken, now, call[c].ask) = {}
      BY <1>1, <2>2, <3>2 DEF Offered, CallHolds, Check
    <3> QED BY <3>1, <3>2
  <2> QED BY <2>1, <2>2
<1>2. DeskTyped /\ Offered => [Kept]_vars
  BY <1>1
<1> QED BY <1>2, AlwaysTyped, AlwaysOffered, PTL DEF RefusedOnlyAfterChange
=============================================================================
