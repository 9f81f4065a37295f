----------------------------- MODULE FrontDesk -----------------------------
(***************************************************************************)
(* Bookings that come in over the public booking page and from requests    *)
(* with several candidate times that the owner approves.  Both go through  *)
(* BookingService.create: the availability check, which reads, then the    *)
(* guarded insert, which counts again but looks at nothing else.           *)
(***************************************************************************)
EXTENDS OpeningRules

CONSTANTS Visits,      \* visits of the public page
          Tentatives,  \* rows of tentative_bookings
          Calls,       \* bound: requests a server is working on
          Bookings,    \* bound: bookings
          Dates, Choices, \* bound: dates and staff choices a visitor looks at
          CandidateLists, \* bound: candidates of a tentative request
          Edits,       \* bound: contents of the owner's rows
          First_rows,  \* their content at first
          MaxNow,      \* bound: time
          MaxEdits,    \* bound: edits of the rows
          None

VARIABLES now, rows, edits,
          booking,     \* bookings: place and who asked for it
          page,        \* the public page of each visit
          tentative,   \* status, candidates, approved booking
          call,        \* requests in the server
          trouble      \* history: visits that lost an answer, requests whose
                       \* approvals overlapped or were cut short
vars == <<now, rows, edits, booking, page, tentative, call, trouble>>

Services == DOMAIN First_rows.services

\* What a call of BookingService.create asks for.
Requests ==
  [service : Services, start : Int, staff : {Anyone} \cup Nat, resource : {Anyone} \cup Nat]

\* A service is switched off, never removed.
ASSUME EditsAssumption ==
  \A r \in Edits \cup {First_rows} : Admitted(r) /\ DOMAIN r.services = Services

ASSUME DeskAssumption ==
  /\ Visits \cap Tentatives = {}
  /\ Bookings \subseteq Nat /\ IsFiniteSet(Bookings)
  /\ None \notin Bookings /\ None \notin Services /\ None # "APPROVED"
  /\ Dates \subseteq Int /\ Choices \subseteq {Anyone} \cup Nat
  /\ \A list \in CandidateLists : \A i \in DOMAIN list : list[i] \in Requests

NoCall == [at |-> "idle"]

\* Bookings that count as busy; a cancelled one has place None.
Taken == {booking[b].place : b \in {x \in Bookings : booking[x] # None /\ booking[x].place # None}}
Free == {b \in Bookings : booking[b] = None}

Fresh == [service |-> None, staff |-> Anyone, date |-> LocalDate(0) + 1,
          slots |-> {}, loadedFor |-> None, current |-> FALSE, loading |-> FALSE,
          slot |-> None, submitting |-> FALSE, result |-> None]

Init ==
  /\ now = 0 /\ rows = First_rows /\ edits = 0
  /\ booking = [b \in Bookings |-> None]
  /\ page = [v \in Visits |-> Fresh]
  /\ tentative = [r \in Tentatives |-> [status |-> None, list |-> <<>>, booking |-> None]]
  /\ call = [c \in Calls |-> NoCall]
  /\ trouble = {}

\* After any change the lists on the pages, and the slots sent from them, are
\* no longer current.
StalePages == [v \in Visits |-> [page[v] EXCEPT !.current = FALSE]]
Stale(calls) == [c \in Calls |-> IF calls[c].at \in {"check", "insert"} THEN
                                   [calls[c] EXCEPT !.current = FALSE] ELSE calls[c]]

-----------------------------------------------------------------------------
(* The page.  Its five steps decide what is on the screen: Confirm is on   *)
(* the last, beyond a step that wants a slot, and going back is always     *)
(* possible.                                                               *)

\* Another service, staff member or date loads the list again and forgets the
\* slot; the list of the last load stays until the new one is there.
Choose(v, s, p, d) ==
  /\ page[v].result = None
  /\ \/ s # page[v].service /\ p = Anyone /\ d = page[v].date
     \/ s = page[v].service /\ s # None /\ p # page[v].staff /\ d = page[v].date
     \/ s = page[v].service /\ s # None /\ p = page[v].staff /\ d # page[v].date
  /\ page' = [page EXCEPT ![v].service = s, ![v].staff = p, ![v].date = d,
                          ![v].slot = None, ![v].loading = TRUE]
  /\ UNCHANGED <<now, rows, edits, booking, tentative, call, trouble>>

\* The service chosen again, with nobody asked for: only the slot goes.
ChooseAgain(v) ==
  /\ page[v].slot # None /\ page[v].staff = Anyone
  /\ page' = [page EXCEPT ![v].slot = None]
  /\ UNCHANGED <<now, rows, edits, booking, tentative, call, trouble>>

\* The availability route answers.
ShowSlots(v) ==
  /\ page[v].loading
  /\ page' = [page EXCEPT ![v].loading = FALSE, ![v].current = TRUE,
                ![v].loadedFor = page[v].service,
                ![v].slots = FindSlots(rows, Taken, now, page[v].service,
                                       page[v].date, page[v].staff)]
  /\ UNCHANGED <<now, rows, edits, booking, tentative, call, trouble>>

\* Or it does not: the page says so and keeps the list it had.
LoadFails(v) ==
  /\ page[v].loading
  /\ page' = [page EXCEPT ![v].loading = FALSE]
  /\ UNCHANGED <<now, rows, edits, booking, tentative, call, trouble>>

PickSlot(v, slot) ==
  /\ page[v].result = None /\ ~page[v].loading /\ slot \in page[v].slots
  /\ page[v].slot # slot
  /\ page' = [page EXCEPT ![v].slot = slot]
  /\ UNCHANGED <<now, rows, edits, booking, tentative, call, trouble>>

\* Confirm is disabled while an answer is awaited; the way back to the other
\* steps is not.
Enabled(v) == ~page[v].submitting
Always(v) == TRUE                        \* mutant: the button stays active
CanConfirm(v) == Enabled(v)
Confirm(v, c) ==
  LET slot == page[v].slot
  IN /\ page[v].result = None /\ CanConfirm(v) /\ slot # None /\ call[c] = NoCall
     /\ page' = [page EXCEPT ![v].submitting = TRUE]
     /\ call' = [call EXCEPT ![c] =
          [at |-> "check", by |-> v, listens |-> TRUE,
           current |-> page[v].current /\ page[v].loadedFor = page[v].service,
           ask |-> [service |-> page[v].service, start |-> slot.start, staff |-> slot.at[1],
                    resource |-> IF slot.at[2] = NoResource THEN Anyone ELSE slot.at[2]]]]
     /\ UNCHANGED <<now, rows, edits, booking, tentative, trouble>>

-----------------------------------------------------------------------------
(* Requests with candidates.                                               *)

CreateTentative(r, list) ==
  /\ tentative[r].status = None
  /\ tentative' = [tentative EXCEPT ![r].status = "PENDING", ![r].list = list]
  /\ UNCHANGED <<now, rows, edits, booking, page, call, trouble>>

\* TentativeBookingService.approve reads the request.
Pending(r) == tentative[r].status = "PENDING"
Known(r) == tentative[r].status # None         \* mutant: the status not looked at
MayApprove(r) == Pending(r)
Working(r) == {c \in Calls : call[c] # NoCall /\ call[c].by = r}
Approve(r, i, c) ==
  /\ MayApprove(r) /\ i \in DOMAIN tentative[r].list /\ call[c] = NoCall
  /\ call' = [call EXCEPT ![c] =
       [at |-> "check", by |-> r, listens |-> TRUE, current |-> FALSE,
        ask |-> tentative[r].list[i]]]
  /\ trouble' = IF Working(r) = {} THEN trouble ELSE trouble \cup {r}
  /\ UNCHANGED <<now, rows, edits, booking, page, tentative>>

-----------------------------------------------------------------------------
(* The server.                                                             *)

Answered(c) == [call EXCEPT ![c] = NoCall]
FailPage(c) ==
  IF call[c].by \in Visits /\ call[c].listens
  THEN [page EXCEPT ![call[c].by].submitting = FALSE] ELSE page

\* BookingService.create: the check.
Check(c) ==
  /\ call[c].at = "check"
  /\ LET cands == Candidates(rows, Taken, now, call[c].ask)
         place == [staff |-> First(cands)[1], resource |-> First(cands)[2],
                   window |-> Effective(rows.services[call[c].ask.service], call[c].ask.start)]
     IN IF cands = {}
        THEN call' = Answered(c) /\ page' = FailPage(c)
        ELSE /\ call' = [call EXCEPT ![c] = [at |-> "insert", by |-> @.by,
                           listens |-> @.listens, current |-> @.current,
                           service |-> @.ask.service, place |-> place, raced |-> FALSE]]
             /\ UNCHANGED page
  /\ UNCHANGED <<now, rows, edits, booking, tentative, trouble>>

\* createWithConflictGuard: a visitor must not be blacklisted; the service,
\* the staff member and the resource are looked up and the bookings counted.
Guard(c) ==
  LET place == call[c].place
      service == rows.services[call[c].service]
      room(u) == Cardinality(Using(Taken, u, place.window)) < rows.capacity[u]
  IN /\ call[c].by \in Visits => ~rows.blacklisted
     /\ service.active /\ place.staff \in service.staff /\ room(place.staff)
     /\ place.resource # NoResource =>
          place.resource \in service.resources /\ room(place.resource)

Insert(c, b) ==
  LET place == call[c].place
  IN /\ call[c].at = "insert" /\ Guard(c) /\ b \in Free
     /\ \A x \in Free : b <= x
     /\ booking' = [booking EXCEPT ![b] =
          [place |-> place, by |-> call[c].by,
           clear |-> call[c].raced \/ \A t \in place.window.from .. (place.window.to - 1) :
                                        ClearAt(rows, place.staff, place.resource, t)]]
     /\ call' = Stale([call EXCEPT ![c] = [at |-> "inserted", by |-> @.by,
                                           listens |-> @.listens, booking |-> b]])
     /\ page' = StalePages
     /\ UNCHANGED <<now, rows, edits, tentative, trouble>>

Conflict(c) ==
  /\ call[c].at = "insert" /\ ~Guard(c)
  /\ call' = Answered(c) /\ page' = FailPage(c)
  /\ UNCHANGED <<now, rows, edits, booking, tentative, trouble>>

\* The payment of PAY_NOW may fail to start; the booking is kept and the
\* answer names it all the same.  The confirmation takes the page's place.
ShowResult(c) ==
  /\ call[c].at = "inserted" /\ call[c].by \in Visits
  /\ call' = Answered(c)
  /\ page' = IF call[c].listens
             THEN [page EXCEPT ![call[c].by] =
                                 [Fresh EXCEPT !.result = call[c].booking]]
             ELSE page
  /\ UNCHANGED <<now, rows, edits, booking, tentative, trouble>>

\* approveTentative, UPDATE ... WHERE status='PENDING', else it throws and the
\* booking stays.
MarkApproved(c) ==
  LET r == call[c].by
  IN /\ call[c].at = "inserted" /\ r \in Tentatives
     /\ tentative' = IF tentative[r].status = "PENDING"
                     THEN [tentative EXCEPT ![r].status = "APPROVED",
                                            ![r].booking = call[c].booking]
                     ELSE tentative
     /\ call' = Answered(c)
     /\ UNCHANGED <<now, rows, edits, booking, page, trouble>>

\* The answer is lost on its way, or the server stops.
LoseAnswer(c) ==
  /\ call[c] # NoCall /\ call[c].by \in Visits /\ call[c].listens
  /\ call' = [call EXCEPT ![c].listens = FALSE]
  /\ page' = FailPage(c)
  /\ trouble' = trouble \cup {call[c].by}
  /\ UNCHANGED <<now, rows, edits, booking, tentative>>

Crash ==
  /\ \E c \in Calls : call[c] # NoCall
  /\ call' = [c \in Calls |-> NoCall]
  /\ page' = [v \in Visits |-> [page[v] EXCEPT !.submitting = FALSE]]
  /\ trouble' = trouble \cup {call[c].by : c \in {x \in Calls : call[x] # NoCall}}
  /\ UNCHANGED <<now, rows, edits, booking, tentative>>

-----------------------------------------------------------------------------
(* The rest of the world.                                                  *)

Edit(e) ==
  /\ edits < MaxEdits /\ edits' = edits + 1
  /\ rows # e /\ rows' = e
  /\ page' = StalePages
  /\ call' = [c \in Calls |-> IF call[c].at = "insert"
                              THEN [Stale(call)[c] EXCEPT !.raced = TRUE] ELSE Stale(call)[c]]
  /\ UNCHANGED <<now, booking, tentative, trouble>>

Cancel(b) ==
  /\ booking[b] # None /\ booking[b].place # None
  /\ booking' = [booking EXCEPT ![b].place = None]
  /\ page' = StalePages /\ call' = Stale(call)
  /\ UNCHANGED <<now, rows, edits, tentative, trouble>>

Tick ==
  /\ now < MaxNow /\ now' = now + 1
  /\ page' = StalePages /\ call' = Stale(call)
  /\ UNCHANGED <<rows, edits, booking, tentative, trouble>>

Next ==
  \/ \E v \in Visits :
       \/ \E s \in Services, p \in Choices, d \in Dates : Choose(v, s, p, d)
       \/ ChooseAgain(v) \/ ShowSlots(v) \/ LoadFails(v)
       \/ \E slot \in page[v].slots : PickSlot(v, slot)
       \/ \E c \in Calls : Confirm(v, c)
  \/ \E r \in Tentatives :
       \/ \E list \in CandidateLists : CreateTentative(r, list)
       \/ \E i \in 1 .. 3, c \in Calls : Approve(r, i, c)
  \/ \E c \in Calls :
       \/ Check(c) \/ Conflict(c) \/ ShowResult(c) \/ MarkApproved(c) \/ LoseAnswer(c)
       \/ \E b \in Bookings : Insert(c, b)
  \/ \E e \in Edits : Edit(e)
  \/ \E b \in Bookings : Cancel(b)
  \/ Crash \/ Tick

Spec == Init /\ [][Next]_vars

-----------------------------------------------------------------------------
(* Properties.                                                             *)

\* A booking lies in the working hours of its staff member and outside the
\* time off and every repetition of the calendar blocks at the moment it is
\* inserted, unless the rows changed after its check: the guard does not look
\* at them again.
ClearUnlessRaced == \A b \in Bookings : booking[b] # None => booking[b].clear

\* "Only slots that pass the same live booking rules are shown": a slot just
\* offered is refused only when something has changed since, when the visitor
\* is blacklisted, or when the list shown is that of another service.
RefusedOnlyAfterChange ==
  [][\A c \in Calls : Conflict(c) \/ (Check(c) /\ call'[c] = NoCall) =>
       ~call[c].current \/ rows.blacklisted]_vars

\* One visit makes a second booking only after the answer to the first was
\* lost: the page has no other way to send it again.
SecondOnlyAfterLoss ==
  \A v \in Visits :
    Cardinality({b \in Bookings : booking[b] # None /\ booking[b].by = v}) > 1
      => v \in trouble

\* A booking made for a request with candidates is the one the request names,
\* or its approval is under way; only overlapping approvals, or one cut short,
\* leave a booking nothing refers to.
OrphanNeedsOverlap ==
  \A b \in Bookings : booking[b] # None /\ booking[b].by \in Tentatives =>
    LET r == booking[b].by
    IN \/ tentative[r].booking = b \/ r \in trouble
       \/ \E c \in Calls : call[c].at = "inserted" /\ call[c].booking = b
=============================================================================
