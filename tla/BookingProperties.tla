------------------------- MODULE BookingProperties -------------------------
(* What must be true of BookingTransactions.                               *)
EXTENDS BookingTransactions

\* The type invariant: tables, locks and the state of every call.
TypeOK ==
  /\ status \in [Bookings -> Statuses \cup {"ABSENT"}]
  /\ place \in [Bookings -> Place \cup {NoPlace}]
  /\ trail \in [Bookings -> Seq((Statuses \cup {"ABSENT"}) \X Statuses)]
  /\ capacity \in [Units -> Nat]
  /\ usable \in [Guarded -> BOOLEAN]
  /\ linked \in SUBSET Units
  /\ owner \in [Rows -> SUBSET Requests]
  /\ pc \in [Requests -> InTx \cup Ended \cup {"idle", "update"}]
  /\ call \in [Requests -> Calls]
  /\ plan \in [Requests -> [Bookings -> Place \cup {NoPlace}]]
  /\ wrote \in [Requests -> SUBSET Bookings]

\* No call ever adds a booking to a staff member or a resource at an instant
\* at which it is already booked to the capacity it has at that moment, however
\* calls, moves, batches and capacity edits interleave (lockAndCheckCapacity).
NeverOverbooksStep ==
  \A u \in Units, t \in Instants :
    Load(Committed', u, t) > Load(Committed, u, t) =>
      Load(Committed', u, t) <= capacity'[u]
\* The same as an action property: no step overbooks.
NeverOverbooks == [][NeverOverbooksStep]_vars

\* Until a transaction ends, everything it has validated about the rows it
\* wrote is still true: the service, the staff, the resources are in service
\* and the customer may still book (FOR SHARE, FOR UPDATE held to COMMIT).
ChecksStillHold ==
  \A p \in Requests : wrote[p] # {} =>
    /\ \A x \in SharedRows(p) : usable[x]
    /\ \A b \in wrote[p] : \A u \in Occupies(plan[p][b]) : usable[u]

\* A booking follows PENDING -> CONFIRMED -> one of three final statuses or is
\* cancelled, and is moved in the calendar only while it is active, although
\* every call decides on a status it read before its transaction began.
LifecycleStep ==
  \A b \in Bookings :
    /\ \/ status'[b] = status[b]
       \/ status[b] = "ABSENT" /\ status'[b] \in ActiveStatuses
       \/ status'[b] \in Targets /\ status[b] \in Allowed(status'[b])
    /\ place'[b] # place[b] => status'[b] \in ActiveStatuses
\* The same as an action property: every step follows the lifecycle.
LifecycleFollowed == [][LifecycleStep]_vars

\* The audit trail of a booking replays to its status: each event starts where
\* the one before ended, and the last ends in the status the table shows.
TrailReplays ==
  \A b \in Bookings :
    /\ trail[b] = <<>> <=> status[b] = "ABSENT"
    /\ trail[b] # <<>> => trail[b][Len(trail[b])][2] = status[b]
    /\ \A i \in 2 .. Len(trail[b]) : trail[b][i][1] = trail[b][i - 1][2]

\* A batch appears entirely or not at all, and a call that was refused, lost
\* its connection or was the victim of a deadlock leaves no row behind.
AllOrNothing(p) ==
  call[p].kind = "create" =>
    \A b \in call[p].ids : status[b] # "ABSENT" <=> pc[p] = "done"
\* Every create call is all or nothing, whatever became of the others.
BatchAllOrNothing == \A p \in Requests : AllOrNothing(p)

\* Every knot of transactions waiting for each other contains a batch: calls
\* for one booking take booking, staff and resource rows in a fixed order.
DeadlockNeedsBatch ==
  \A S \in SUBSET Requests :
    Knot(S) => \E p \in S : Cardinality(call[p].ids) > 1

\* The service implements the ledger: seen from outside, every call is one
\* atomic change of the ledger or none.
Ledger == INSTANCE SlotLedger
            WITH held <- Committed,
                 spent <- {b \in Bookings : status[b] \in Statuses \ ActiveStatuses}
\* Refinement: every behaviour of the locking transactions is one of SlotLedger.
ImplementsLedger == Ledger!Spec

-----------------------------------------------------------------------------
(* The inductive invariant: what the safety properties above rest on.      *)

\* FOR UPDATE locks are held by one transaction at a time.
Exclusive ==
  \A x \in Units \cup Bookings : \A p, q \in owner[x] : p = q

\* What a call remembers fits where the call is.
ShapeOf(p) ==
  /\ wrote[p] \subseteq call[p].ids
  /\ pc[p] \notin InTx => wrote[p] = {}
  /\ pc[p] \in InTx => call[p].kind \in {"create", "reschedule"}
  /\ pc[p] \in InTx \ {"commit"} => Todo(p) # {}
  /\ pc[p] = "commit" => wrote[p] = call[p].ids
  /\ pc[p] = "row" => call[p].kind = "reschedule"
  /\ pc[p] = "update" => call[p].kind = "transition"
  /\ pc[p] = "idle" => call[p].kind = "none"
  /\ call[p].kind \in {"create", "reschedule"} =>
       \A b \in call[p].ids : plan[p][b] \in Place
  /\ call[p].kind = "create" =>
       call[p].ids \subseteq Fresh[p] /\ call[p].to \in ActiveStatuses
  /\ call[p].kind \in {"reschedule", "transition"} =>
       \E b \in Bookings : call[p].ids = {b}
  /\ call[p].kind = "transition" => call[p].to \in Targets

Shape == \A p \in Requests : ShapeOf(p)

\* An active booking has a place; the row a move works on is locked and active.
MoveHolds(p) ==
  call[p].kind = "reschedule" /\ pc[p] \in InTx \ {"row"} =>
    \A b \in call[p].ids : p \in owner[b] /\ Active(b)

\* A row is inserted only by the call that its id was made for.
FreshRows(p) ==
  \A b \in Fresh[p] : status[b] # "ABSENT" => call[p].kind = "create" /\ pc[p] = "done"

RowsHeld ==
  /\ \A b \in Bookings : Active(b) => place[b] \in Place
  /\ \A p \in Requests : MoveHolds(p) /\ FreshRows(p)

\* p holds a lock on x, and what it read there is still so.
Sure(p, x) == p \in owner[x] /\ usable[x]

\* Rows validated by a transaction stay locked, and valid, until it ends.
LockedOf(p) ==
  /\ pc[p] \in {"staff", "resource", "count"} \/ wrote[p] # {} =>
       \A x \in SharedRows(p) : Sure(p, x)
  /\ pc[p] = "resource" => Sure(p, Target(p).staff)
  /\ pc[p] = "count" => \A u \in Occupies(Target(p)) : Sure(p, u)
  /\ \A b \in wrote[p] : \A u \in Occupies(plan[p][b]) : Sure(p, u)

Locked == \A p \in Requests : LockedOf(p)

\* In the calendar a transaction sees, no row it wrote is in an overload.
RoomOf(p) ==
  \A b \in wrote[p] : \A u \in Occupies(plan[p][b]), t \in Instants :
    Covers(plan[p][b].window, t) => Load(Seen(p), u, t) <= capacity[u]

Room == \A p \in Requests : RoomOf(p)

Inv == TypeOK /\ Exclusive /\ Shape /\ RowsHeld /\ BatchAllOrNothing /\ Locked /\ Room
-----------------------------------------------------------------------------
\* Every call that was made is answered, whatever it has to wait for.
EveryCallAnswered ==
  \A p \in Requests : pc[p] # "idle" ~> pc[p] \in Ended
=============================================================================
