--------------------------- MODULE BookingProofs ---------------------------
(***************************************************************************)
(* Theorems about BookingTransactions for any number of calls, bookings,   *)
(* staff, resources and windows: types, the shape of a call, batches, the  *)
(* locks a transaction holds, the room it leaves, what follows for the     *)
(* committed calendar, that the audit trail replays, that only a batch can *)
(* be in a deadlock, and that the transactions implement SlotLedger.       *)
(***************************************************************************)
EXTENDS BookingProperties, FiniteSetTheorems, TLAPS

-----------------------------------------------------------------------------
(* Type correctness.                                                       *)

LEMMA RowTypes ==
  /\ Units \subseteq Guarded /\ Guarded \subseteq Rows /\ Bookings \subseteq Rows
  /\ Service \in Guarded
  /\ \A pl \in Place : Occupies(pl) \subseteq Units
BY DEF Units, Guarded, Rows, Occupies, Place

LEMMA TypeInit == Init => TypeOK
<1> SUFFICES ASSUME Init PROVE TypeOK
  OBVIOUS
<1> USE DEF Init, Statuses, ActiveStatuses
<1>1. status \in [Bookings -> Statuses \cup {"ABSENT"}]
  OBVIOUS
<1>2. place \in [Bookings -> Place \cup {NoPlace}]
  BY ExistingAssumption
<1>3. trail \in [Bookings -> Seq((Statuses \cup {"ABSENT"}) \X Statuses)]
  <2> DEFINE Event == (Statuses \cup {"ABSENT"}) \X Statuses
  <2>1. <<"ABSENT", "CONFIRMED">> \in Event
    OBVIOUS
  <2> HIDE DEF Event
  <2>2. <<<<"ABSENT", "CONFIRMED">>>> \in Seq(Event) /\ <<>> \in Seq(Event)
    BY <2>1
  <2>3. trail \in [Bookings -> Seq(Event)]
    BY <2>2
  <2> QED
    BY <2>3 DEF Event
<1>4. capacity \in [Units -> Nat]
  BY BoundsAssumption
<1>5. call \in [Requests -> Calls]
  BY DEF Calls, NoCall
<1> QED
  BY <1>1, <1>2, <1>3, <1>4, <1>5 DEF TypeOK, InTx, Ended

LEMMA RollbackTypes == ASSUME TypeOK, NEW p \in Requests, Rollback(p) PROVE TypeOK'
BY DEF TypeOK, Rollback, tables, admin, InTx, Ended

LEMMA LockTypes ==
  ASSUME TypeOK, NEW p \in Requests, NEW R, NEW label \in InTx,
         Lock(p, R), Goto(p, label)
  PROVE  TypeOK'
BY DEF TypeOK, Lock, Goto, tables, admin, InTx

LEMMA WriteTypes ==
  ASSUME TypeOK, Shape, NEW p \in Requests, CountAndWrite(p), HasRoom(p)
  PROVE  TypeOK'
<1>1. Current(p) \in call[p].ids
  BY DEF Current, Todo, CountAndWrite, Shape, ShapeOf, InTx
<1>2. call[p].ids \subseteq Bookings
  BY DEF TypeOK, Calls
<1>3. /\ wrote' = [wrote EXCEPT ![p] = @ \cup {Current(p)}]
      /\ \E label \in {"commit", "shared"} : pc' = [pc EXCEPT ![p] = label]
      /\ UNCHANGED <<tables, admin, owner, call, plan>>
  BY DEF CountAndWrite
<1> QED
  BY <1>1, <1>2, <1>3 DEF TypeOK, tables, admin, InTx

LEMMA WrittenType ==
  ASSUME TypeOK, Shape, RowsHeld, NEW p \in Requests, Commit(p), NEW b \in wrote[p]
  PROVE  /\ b \in Bookings
         /\ Written(p, b) \in ActiveStatuses
         /\ plan[p][b] \in Place
<1>1. b \in call[p].ids /\ b \in Bookings
  BY DEF Shape, ShapeOf, TypeOK
<1>2. pc[p] = "commit" /\ call[p].kind \in {"create", "reschedule"}
  BY DEF Commit, Shape, ShapeOf, InTx
<1>3. CASE call[p].kind = "create"
  BY <1>1, <1>3 DEF Shape, ShapeOf, Written
<1>4. CASE call[p].kind = "reschedule"
  BY <1>1, <1>2, <1>4 DEF Shape, ShapeOf, RowsHeld, MoveHolds, Written, Active, InTx
<1> QED
  BY <1>1, <1>2, <1>3, <1>4 DEF Shape, ShapeOf

LEMMA CommitTypes ==
  ASSUME TypeOK, Shape, RowsHeld, NEW p \in Requests, Commit(p)
  PROVE  TypeOK'
<1> DEFINE Event == (Statuses \cup {"ABSENT"}) \X Statuses
<1>1. \A b \in wrote[p] : Written(p, b) \in Statuses /\ plan[p][b] \in Place
  BY WrittenType DEF Statuses
<1>2. status' \in [Bookings -> Statuses \cup {"ABSENT"}]
  BY <1>1 DEF TypeOK, Commit
<1>3. place' \in [Bookings -> Place \cup {NoPlace}]
  BY <1>1 DEF TypeOK, Commit
<1>4. \A b \in wrote[p] : <<status[b], Written(p, b)>> \in Event
  BY <1>1 DEF TypeOK
<1> HIDE DEF Event
<1>5. trail \in [Bookings -> Seq(Event)]
  BY DEF TypeOK, Event
<1>6. trail' \in [Bookings -> Seq(Event)]
  BY <1>4, <1>5 DEF Commit
<1>7. trail' \in [Bookings -> Seq((Statuses \cup {"ABSENT"}) \X Statuses)]
  BY <1>6 DEF Event
<1> QED
  BY <1>2, <1>3, <1>7 DEF TypeOK, Commit, admin, Ended

LEMMA TransitionTypes ==
  ASSUME TypeOK, Shape, NEW p \in Requests, TransitionStatus(p)
  PROVE  TypeOK'
<1> DEFINE Event == (Statuses \cup {"ABSENT"}) \X Statuses
           b == CHOOSE x \in call[p].ids : TRUE
<1>1. call[p].kind = "transition"
  BY DEF TransitionStatus, Shape, ShapeOf
<1>2. b \in Bookings /\ call[p].to \in Statuses
  <2>1. PICK c \in Bookings : call[p].ids = {c}
    BY <1>1 DEF Shape, ShapeOf
  <2>2. b \in call[p].ids
    BY <2>1
  <2> QED
    BY <1>1, <2>1, <2>2 DEF Shape, ShapeOf, Targets, Statuses, ActiveStatuses
<1>3. CASE Rollback(p)
  BY <1>3, RollbackTypes
<1>4. CASE ~ Rollback(p)
  <2> HIDE DEF b
  <2>1. /\ status' = [status EXCEPT ![b] = call[p].to]
        /\ trail' = [trail EXCEPT ![b] = Append(@, <<status[b], call[p].to>>)]
        /\ pc' = [pc EXCEPT ![p] = "done"]
        /\ UNCHANGED <<place, admin, owner, call, plan, wrote>>
    BY <1>4 DEF TransitionStatus, b
  <2>2. <<status[b], call[p].to>> \in Event
    BY <1>2 DEF TypeOK
  <2> HIDE DEF Event
  <2>3. trail' \in [Bookings -> Seq(Event)]
    <3>1. trail \in [Bookings -> Seq(Event)]
      BY DEF TypeOK, Event
    <3> QED
      BY <1>2, <2>1, <2>2, <3>1
  <2>4. trail' \in [Bookings -> Seq((Statuses \cup {"ABSENT"}) \X Statuses)]
    BY <2>3 DEF Event
  <2> QED
    BY <1>2, <2>1, <2>4 DEF TypeOK, admin, Ended
<1> QED
  BY <1>3, <1>4

LEMMA CreateTypes ==
  ASSUME TypeOK, NEW p \in Requests, CheckCreate(p) PROVE TypeOK'
<1>1. PICK ids \in (SUBSET Fresh[p]) \ {{}}, customer \in Customers \cup {NoCustomer},
           first \in ActiveStatuses :
        /\ \E chosen \in [ids -> Place] :
             plan' = [plan EXCEPT ![p] =
                        [b \in Bookings |-> IF b \in ids THEN chosen[b] ELSE NoPlace]]
        /\ call' = [call EXCEPT ![p] = [kind |-> "create", ids |-> ids,
                                        to |-> first, customer |-> customer]]
        /\ pc' = [pc EXCEPT ![p] = "shared"]
        /\ UNCHANGED <<tables, admin, owner, wrote>>
  BY Zenon DEF CheckCreate
<1>2. ids \subseteq Bookings
  BY RequestsAssumption
<1>3. plan' \in [Requests -> [Bookings -> Place \cup {NoPlace}]]
  BY <1>1 DEF TypeOK
<1>4. call' \in [Requests -> Calls]
  BY <1>1, <1>2 DEF TypeOK, Calls, Statuses
<1> QED
  BY <1>1, <1>3, <1>4 DEF TypeOK, tables, admin, InTx

LEMMA TypeStep == TypeOK /\ Shape /\ RowsHeld /\ [Next]_vars => TypeOK'
<1> SUFFICES ASSUME TypeOK, Shape, RowsHeld, [Next]_vars PROVE TypeOK'
  OBVIOUS
<1>1. ASSUME NEW p \in Requests, Call(p) PROVE TypeOK'
  <2>1. CASE CheckCreate(p)
    BY <2>1, CreateTypes
  <2>2. CASE CheckReschedule(p)
    BY <2>2 DEF TypeOK, CheckReschedule, tables, admin, Calls, InTx, Statuses, Active
  <2>3. CASE CheckTransition(p)
    BY <2>3 DEF TypeOK, CheckTransition, tables, admin, Calls, Statuses, ActiveStatuses, Targets
  <2> QED
    BY <1>1, <2>1, <2>2, <2>3 DEF Call
<1>2. ASSUME NEW p \in Requests, Step(p) PROVE TypeOK'
  <2> USE DEF InTx
  <2>1. CASE LockRow(p)
    BY <2>1, RollbackTypes, LockTypes DEF LockRow
  <2>2. CASE LockShared(p)
    BY <2>2, RollbackTypes, LockTypes DEF LockShared
  <2>3. CASE LockStaff(p)
    BY <2>3, RollbackTypes, LockTypes DEF LockStaff
  <2>4. CASE LockResource(p)
    BY <2>4, RollbackTypes, LockTypes DEF LockResource
  <2>5. CASE CountAndWrite(p)
    BY <2>5, RollbackTypes, WriteTypes DEF CountAndWrite
  <2>6. CASE Commit(p)
    BY <2>6, CommitTypes
  <2>7. CASE TransitionStatus(p)
    BY <2>7, TransitionTypes
  <2> QED
    BY <1>2, <2>1, <2>2, <2>3, <2>4, <2>5, <2>6, <2>7 DEF Step
<1>3. ASSUME NEW p \in Requests, DeadlockVictim(p) \/ ConnectionLost(p) PROVE TypeOK'
  BY <1>3, RollbackTypes DEF DeadlockVictim, ConnectionLost
<1>4. CASE Administer
  <2>1. ASSUME NEW u \in Units, NEW n \in 1 .. MaxCapacity, SetCapacity(u, n)
        PROVE  TypeOK'
    BY <2>1, BoundsAssumption DEF TypeOK, SetCapacity, tables
  <2>2. ASSUME NEW x \in Guarded, SetUsable(x) PROVE TypeOK'
    BY <2>2 DEF TypeOK, SetUsable, tables
  <2>3. ASSUME NEW u \in Units, SetLinked(u) PROVE TypeOK'
    BY <2>3 DEF TypeOK, SetLinked, tables
  <2> QED
    BY <1>4, <2>1, <2>2, <2>3 DEF Administer
<1>5. CASE UNCHANGED vars
  BY <1>5 DEF TypeOK, vars
<1> QED
  BY <1>1, <1>2, <1>3, <1>4, <1>5 DEF Next, Answered
-----------------------------------------------------------------------------
(* What a step of one call leaves alone in every other call.               *)

Act(p) == Call(p) \/ Step(p) \/ DeadlockVictim(p) \/ ConnectionLost(p)

\* The part of the state that belongs to call q.
Same(q) == /\ pc'[q] = pc[q] /\ call'[q] = call[q]
           /\ plan'[q] = plan[q] /\ wrote'[q] = wrote[q]
           /\ \A x \in Rows : q \in owner'[x] <=> q \in owner[x]

LEMMA RollbackFrame ==
  ASSUME TypeOK, NEW p \in Requests, Rollback(p), NEW q \in Requests, q # p
  PROVE  Same(q)
BY DEF TypeOK, Rollback, Same

LEMMA LockFrame ==
  ASSUME TypeOK, NEW p \in Requests, NEW R, NEW label, Lock(p, R), Goto(p, label),
         NEW q \in Requests, q # p
  PROVE  Same(q)
BY DEF TypeOK, Lock, Goto, Same

LEMMA Frame ==
  ASSUME TypeOK, NEW p \in Requests, Act(p), NEW q \in Requests, q # p
  PROVE  Same(q)
<1>1. CASE Call(p)
  BY <1>1 DEF TypeOK, Call, CheckCreate, CheckReschedule, CheckTransition, Same
<1>2. CASE Step(p)
  <2>1. CASE LockRow(p)
    BY <2>1, RollbackFrame, LockFrame DEF LockRow
  <2>2. CASE LockShared(p)
    BY <2>2, RollbackFrame, LockFrame DEF LockShared
  <2>3. CASE LockStaff(p)
    BY <2>3, RollbackFrame, LockFrame DEF LockStaff
  <2>4. CASE LockResource(p)
    BY <2>4, RollbackFrame, LockFrame DEF LockResource
  <2>5. CASE CountAndWrite(p)
    <3>1. CASE HasRoom(p)
      BY <2>5, <3>1 DEF CountAndWrite, TypeOK, Same
    <3> QED
      BY <2>5, <3>1, RollbackFrame DEF CountAndWrite
  <2>6. CASE Commit(p)
    BY <2>6 DEF Commit, TypeOK, Same
  <2>7. CASE TransitionStatus(p)
    <3>1. CASE Rollback(p)
      BY <3>1, RollbackFrame
    <3>2. CASE ~ Rollback(p)
      BY <2>7, <3>2 DEF TransitionStatus, TypeOK, Same
    <3> QED
      BY <3>1, <3>2
  <2> QED
    BY <1>2, <2>1, <2>2, <2>3, <2>4, <2>5, <2>6, <2>7 DEF Step
<1>3. CASE DeadlockVictim(p) \/ ConnectionLost(p)
  BY <1>3, RollbackFrame DEF DeadlockVictim, ConnectionLost
<1> QED
  BY <1>1, <1>2, <1>3 DEF Act

\* The administrator changes no call and holds no lock from one step to another.
LEMMA AdminFrame ==
  ASSUME Administer \/ UNCHANGED vars
  PROVE  /\ UNCHANGED <<tables, owner, pc, call, plan, wrote>>
BY DEF Administer, SetCapacity, SetUsable, SetLinked, vars, tables

LEMMA NextCases ==
  ASSUME [Next]_vars
  PROVE  (\E p \in Requests : Act(p)) \/ Administer \/ UNCHANGED vars
BY DEF Next, Act, Answered

\* What q works on next depends only on q's own state.
LEMMA SameTarget ==
  ASSUME NEW q, call'[q] = call[q], plan'[q] = plan[q], wrote'[q] = wrote[q]
  PROVE  /\ Todo(q)' = Todo(q)
         /\ Current(q)' = Current(q)
         /\ Target(q)' = Target(q)
         /\ SharedRows(q)' = SharedRows(q)
<1>1. Todo(q)' = Todo(q)
  BY DEF Todo
<1>2. Current(q)' = Current(q)
  BY <1>1 DEF Current
<1> QED
  BY <1>1, <1>2 DEF Target, SharedRows
-----------------------------------------------------------------------------
(* What a call remembers fits where the call is.                           *)

LEMMA ShapeInit == Init => Shape
BY DEF Init, Shape, ShapeOf, InTx, NoCall

LEMMA ShapeSame == ASSUME NEW q, ShapeOf(q), Same(q) PROVE ShapeOf(q)'
<1>1. Todo(q)' = Todo(q)
  BY SameTarget DEF Same
<1> QED
  BY <1>1 DEF ShapeOf, Same

LEMMA ShapeRollback ==
  ASSUME TypeOK, NEW p \in Requests, ShapeOf(p), Rollback(p) PROVE ShapeOf(p)'
<1>1. pc'[p] = "refused" /\ wrote'[p] = {} /\ call' = call /\ plan' = plan
  BY DEF TypeOK, Rollback
<1> QED
  BY <1>1 DEF ShapeOf, InTx

LEMMA ShapeLock ==
  ASSUME TypeOK, NEW p \in Requests, ShapeOf(p), pc[p] \in InTx \ {"commit"},
         NEW label \in {"shared", "staff", "resource", "count"}, Goto(p, label)
  PROVE  ShapeOf(p)'
<1>1. /\ pc'[p] = label /\ call'[p] = call[p]
      /\ plan'[p] = plan[p] /\ wrote'[p] = wrote[p]
  BY DEF Goto, TypeOK
<1>2. Todo(p)' = Todo(p)
  BY <1>1, SameTarget
<1> QED
  BY <1>1, <1>2 DEF ShapeOf, InTx

LEMMA ShapeCall == ASSUME TypeOK, NEW p \in Requests, ShapeOf(p), Call(p) PROVE ShapeOf(p)'
<1>1. CASE CheckCreate(p)
  <2>1. PICK ids \in (SUBSET Fresh[p]) \ {{}}, customer \in Customers \cup {NoCustomer},
             first \in ActiveStatuses :
          /\ pc[p] = "idle"
          /\ \E chosen \in [ids -> Place] :
               plan' = [plan EXCEPT ![p] =
                          [b \in Bookings |-> IF b \in ids THEN chosen[b] ELSE NoPlace]]
          /\ call' = [call EXCEPT ![p] = [kind |-> "create", ids |-> ids,
                                          to |-> first, customer |-> customer]]
          /\ pc' = [pc EXCEPT ![p] = "shared"]
          /\ UNCHANGED <<tables, admin, owner, wrote>>
    BY <1>1, Zenon DEF CheckCreate
  <2>2. ids \subseteq Bookings
    BY RequestsAssumption
  <2>3. /\ pc'[p] = "shared"
        /\ call'[p] = [kind |-> "create", ids |-> ids, to |-> first, customer |-> customer]
        /\ wrote'[p] = {}
    BY <2>1 DEF TypeOK, ShapeOf, InTx
  <2>4. \A b \in ids : plan'[p][b] \in Place
    BY <2>1, <2>2 DEF TypeOK
  <2>5. Todo(p)' # {}
    BY <2>3 DEF Todo
  <2>6. call'[p].kind = "create" /\ call'[p].ids = ids /\ call'[p].to = first
    BY <2>3
  <2>7. pc'[p] = "shared" /\ wrote'[p] = {}
    BY <2>3
  <2> QED
    BY <2>4, <2>5, <2>6, <2>7 DEF ShapeOf, InTx
<1>2. CASE CheckReschedule(p)
  <2>1. PICK b \in Bookings, pl \in Place :
          /\ pc[p] = "idle"
          /\ plan' = [plan EXCEPT ![p][b] = pl]
          /\ call' = [call EXCEPT ![p] = [kind |-> "reschedule", ids |-> {b},
                                          to |-> status[b], customer |-> NoCustomer]]
          /\ pc' = [pc EXCEPT ![p] = "row"]
          /\ UNCHANGED <<tables, admin, owner, wrote>>
    BY <1>2, Zenon DEF CheckReschedule
  <2>2. /\ pc'[p] = "row" /\ call'[p].kind = "reschedule" /\ call'[p].ids = {b}
        /\ wrote'[p] = {} /\ plan'[p][b] = pl
    BY <2>1 DEF TypeOK, ShapeOf, InTx
  <2>3. Todo(p)' # {}
    BY <2>2 DEF Todo
  <2> QED
    BY <2>2, <2>3 DEF ShapeOf, InTx
<1>3. CASE CheckTransition(p)
  <2>1. PICK b \in Bookings, to \in Targets :
          /\ pc[p] = "idle"
          /\ call' = [call EXCEPT ![p] = [kind |-> "transition", ids |-> {b},
                                          to |-> to, customer |-> NoCustomer]]
          /\ pc' = [pc EXCEPT ![p] = "update"]
          /\ UNCHANGED <<tables, admin, owner, plan, wrote>>
    BY <1>3, Zenon DEF CheckTransition
  <2>2. /\ pc'[p] = "update" /\ call'[p].kind = "transition" /\ call'[p].ids = {b}
        /\ call'[p].to \in Targets /\ wrote'[p] = {}
    BY <2>1 DEF TypeOK, ShapeOf, InTx
  <2> QED
    BY <2>2 DEF ShapeOf, InTx
<1> QED
  BY <1>1, <1>2, <1>3 DEF Call

LEMMA ShapeWrite ==
  ASSUME TypeOK, NEW p \in Requests, ShapeOf(p), CountAndWrite(p), HasRoom(p)
  PROVE  ShapeOf(p)'
<1>1. /\ pc[p] = "count"
      /\ wrote' = [wrote EXCEPT ![p] = @ \cup {Current(p)}]
      /\ pc' = [pc EXCEPT ![p] = IF Todo(p) = {Current(p)} THEN "commit" ELSE "shared"]
      /\ UNCHANGED <<tables, admin, owner, call, plan>>
  BY DEF CountAndWrite
<1>2. Todo(p) # {} /\ Current(p) \in Todo(p)
  BY <1>1 DEF ShapeOf, InTx, Current
<1>3. /\ wrote'[p] = wrote[p] \cup {Current(p)}
      /\ pc'[p] = IF Todo(p) = {Current(p)} THEN "commit" ELSE "shared"
      /\ call' = call /\ plan' = plan
  BY <1>1 DEF TypeOK
<1>4. Todo(p)' = Todo(p) \ {Current(p)}
  BY <1>3 DEF Todo
<1>5. Todo(p) = {Current(p)} => wrote'[p] = call[p].ids
  BY <1>3 DEF Todo, ShapeOf
<1>6. wrote'[p] \subseteq call[p].ids
  BY <1>2, <1>3 DEF Todo, ShapeOf
<1> HIDE DEF Todo
<1> QED
  BY <1>1, <1>2, <1>3, <1>4, <1>5, <1>6 DEF ShapeOf, InTx

LEMMA ShapeAct == ASSUME TypeOK, NEW p \in Requests, ShapeOf(p), Act(p) PROVE ShapeOf(p)'
<1>1. CASE Call(p)
  BY <1>1, ShapeCall
<1>2. CASE Step(p)
  <2> USE DEF InTx
  <2>1. CASE LockRow(p)
    BY <2>1, ShapeRollback, ShapeLock DEF LockRow
  <2>2. CASE LockShared(p)
    BY <2>2, ShapeRollback, ShapeLock DEF LockShared
  <2>3. CASE LockStaff(p)
    BY <2>3, ShapeRollback, ShapeLock DEF LockStaff
  <2>4. CASE LockResource(p)
    BY <2>4, ShapeRollback, ShapeLock DEF LockResource
  <2>5. CASE CountAndWrite(p)
    BY <2>5, ShapeRollback, ShapeWrite DEF CountAndWrite
  <2>6. CASE Commit(p)
    <3>1. /\ pc'[p] = "done" /\ wrote'[p] = {} /\ call' = call /\ plan' = plan
      BY <2>6 DEF Commit, TypeOK
    <3> QED
      BY <3>1 DEF ShapeOf
  <2>7. CASE TransitionStatus(p)
    <3>1. CASE Rollback(p)
      BY <3>1, ShapeRollback
    <3>2. CASE ~ Rollback(p)
      <4>1. /\ pc[p] = "update" /\ pc'[p] = "done" /\ wrote' = wrote
            /\ call' = call /\ plan' = plan
        BY <2>7, <3>2 DEF TransitionStatus, TypeOK
      <4> QED
        BY <4>1 DEF ShapeOf
    <3> QED
      BY <3>1, <3>2
  <2> QED
    BY <1>2, <2>1, <2>2, <2>3, <2>4, <2>5, <2>6, <2>7 DEF Step
<1>3. CASE DeadlockVictim(p) \/ ConnectionLost(p)
  BY <1>3, ShapeRollback DEF DeadlockVictim, ConnectionLost
<1> QED
  BY <1>1, <1>2, <1>3 DEF Act

LEMMA ShapeStep == TypeOK /\ Shape /\ [Next]_vars => Shape'
<1> SUFFICES ASSUME TypeOK, Shape, [Next]_vars, NEW q \in Requests PROVE ShapeOf(q)'
  BY DEF Shape
<1>1. ASSUME NEW p \in Requests, Act(p) PROVE ShapeOf(q)'
  BY <1>1, Frame, ShapeSame, ShapeAct DEF Shape
<1>2. CASE Administer \/ UNCHANGED vars
  <2>1. Same(q)
    BY <1>2, AdminFrame DEF Same
  <2> QED
    BY <2>1, ShapeSame DEF Shape
<1> QED
  BY <1>1, <1>2, NextCases
-----------------------------------------------------------------------------
(* Locks.                                                                  *)

LEMMA CurrentTodo ==
  ASSUME TypeOK, NEW p \in Requests, ShapeOf(p), pc[p] \in InTx \ {"commit"}
  PROVE  /\ Current(p) \in call[p].ids /\ Current(p) \notin wrote[p]
         /\ Current(p) \in Bookings
         /\ Target(p) \in Place /\ Occupies(Target(p)) \subseteq Units
<1>1. Current(p) \in Todo(p)
  BY DEF ShapeOf, Current
<1>2. Current(p) \in call[p].ids /\ Current(p) \notin wrote[p]
  BY <1>1 DEF Todo
<1>3. call[p].ids \subseteq Bookings
  BY DEF TypeOK, Calls
<1>4. Target(p) \in Place
  BY <1>2 DEF ShapeOf, Target
<1> QED
  BY <1>2, <1>3, <1>4, RowTypes

LEMMA SharedRowsType ==
  ASSUME TypeOK, NEW p \in Requests
  PROVE  /\ SharedRows(p) \subseteq Guarded
         /\ SharedRows(p) \cap (Units \cup Bookings) = {}
<1>1. call[p].customer \in Customers \cup {NoCustomer}
  BY DEF TypeOK, Calls
<1> QED
  BY <1>1, RowsAssumption DEF SharedRows, Guarded

LEMMA ExclusiveLess ==
  ASSUME Exclusive, NEW p, owner' = [x \in Rows |-> owner[x] \ {p}] PROVE Exclusive'
BY RowTypes DEF Exclusive

LEMMA ExclusiveLock ==
  ASSUME TypeOK, Exclusive, NEW p \in Requests, NEW R, Lock(p, R),
         \A x \in R : Grantable(p, x) \/ x \notin Units \cup Bookings
  PROVE  Exclusive'
<1> SUFFICES ASSUME NEW x \in Units \cup Bookings, NEW q \in owner'[x], NEW r \in owner'[x]
             PROVE  q = r
  BY DEF Exclusive
<1>1. owner'[x] = IF x \in R THEN owner[x] \cup {p} ELSE owner[x]
  BY RowTypes DEF Lock
<1>2. CASE x \in R
  BY <1>1, <1>2 DEF Grantable
<1>3. CASE x \notin R
  BY <1>1, <1>3 DEF Exclusive
<1> QED
  BY <1>2, <1>3

LEMMA ExclusiveStep == TypeOK /\ Shape /\ Exclusive /\ [Next]_vars => Exclusive'
<1> SUFFICES ASSUME TypeOK, Shape, Exclusive, [Next]_vars PROVE Exclusive'
  OBVIOUS
<1>0. \A p \in Requests : Rollback(p) => Exclusive'
  BY ExclusiveLess DEF Rollback
<1>1. ASSUME NEW p \in Requests, Call(p) PROVE Exclusive'
  BY <1>1 DEF Call, CheckCreate, CheckReschedule, CheckTransition, Exclusive
<1>2. ASSUME NEW p \in Requests, Step(p) PROVE Exclusive'
  <2>1. CASE LockRow(p)
    BY <2>1, <1>0, ExclusiveLock DEF LockRow
  <2>2. CASE LockShared(p)
    BY <2>2, <1>0, ExclusiveLock, SharedRowsType DEF LockShared
  <2>3. CASE LockStaff(p)
    BY <2>3, <1>0, ExclusiveLock DEF LockStaff
  <2>4. CASE LockResource(p)
    BY <2>4, <1>0, ExclusiveLock DEF LockResource
  <2>5. CASE CountAndWrite(p)
    BY <2>5, <1>0 DEF CountAndWrite, Exclusive
  <2>6. CASE Commit(p)
    BY <2>6, ExclusiveLess DEF Commit
  <2>7. CASE TransitionStatus(p)
    BY <2>7, <1>0 DEF TransitionStatus, Exclusive
  <2> QED
    BY <1>2, <2>1, <2>2, <2>3, <2>4, <2>5, <2>6, <2>7 DEF Step
<1>3. ASSUME NEW p \in Requests, DeadlockVictim(p) \/ ConnectionLost(p) PROVE Exclusive'
  BY <1>3, <1>0 DEF DeadlockVictim, ConnectionLost
<1>4. CASE Administer \/ UNCHANGED vars
  BY <1>4, AdminFrame DEF Exclusive
<1> QED
  BY <1>1, <1>2, <1>3, <1>4, NextCases DEF Act
-----------------------------------------------------------------------------
(* Who changes the bookings table, and how.                                *)

\* The transition that is neither refused nor rolled back.
Transited(p, b) ==
  /\ call[p].kind = "transition" /\ call[p].ids = {b} /\ b \in Bookings
  /\ call[p].to \in Targets
  /\ status[b] \in Allowed(call[p].to)
  /\ owner[b] \subseteq {p}
  /\ pc[p] = "update"
  /\ status' = [status EXCEPT ![b] = call[p].to]
  /\ trail' = [trail EXCEPT ![b] = Append(@, <<status[b], call[p].to>>)]
  /\ pc' = [pc EXCEPT ![p] = "done"]
  /\ UNCHANGED <<place, admin, owner, call, plan, wrote>>

LEMMA TransitionCases ==
  ASSUME TypeOK, NEW p \in Requests, ShapeOf(p), TransitionStatus(p)
  PROVE  Rollback(p) \/ \E b \in Bookings : Transited(p, b)
<1>1. call[p].kind = "transition" /\ call[p].to \in Targets /\ pc[p] = "update"
  BY DEF TransitionStatus, ShapeOf
<1>2. PICK c \in Bookings : call[p].ids = {c}
  BY <1>1 DEF ShapeOf
<1>3. (CHOOSE x \in call[p].ids : TRUE) = c
  BY <1>2
<1>4. ASSUME ~ Rollback(p) PROVE Transited(p, c)
  BY <1>1, <1>2, <1>3, <1>4 DEF TransitionStatus, Transited, Grantable
<1> QED
  BY <1>4

\* Every step of a call commits, transits a booking, or leaves the tables alone.
LEMMA TableCases ==
  ASSUME TypeOK, NEW p \in Requests, ShapeOf(p), Act(p)
  PROVE  \/ Commit(p)
         \/ \E b \in Bookings : Transited(p, b)
         \/ UNCHANGED tables
<1>1. Rollback(p) => UNCHANGED tables
  BY DEF Rollback, tables
<1>2. \A label : Goto(p, label) => UNCHANGED tables
  BY DEF Goto, tables
<1>3. CASE Call(p)
  BY <1>3 DEF Call, CheckCreate, CheckReschedule, CheckTransition, tables
<1>4. CASE Step(p)
  <2>1. LockRow(p) \/ LockShared(p) \/ LockStaff(p) \/ LockResource(p) => UNCHANGED tables
    BY <1>1, <1>2 DEF LockRow, LockShared, LockStaff, LockResource
  <2>2. CountAndWrite(p) => UNCHANGED tables
    BY <1>1 DEF CountAndWrite, tables
  <2> QED
    BY <1>1, <1>4, <2>1, <2>2, TransitionCases DEF Step
<1>5. CASE DeadlockVictim(p) \/ ConnectionLost(p)
  BY <1>1, <1>5 DEF DeadlockVictim, ConnectionLost
<1> QED
  BY <1>3, <1>4, <1>5 DEF Act

LEMMA AllowedActive ==
  ASSUME NEW to \in Targets
  PROVE  /\ Allowed(to) \subseteq ActiveStatuses
         /\ "ABSENT" \notin Allowed(to) /\ to # "ABSENT"
         /\ to \in ActiveStatuses => to = "CONFIRMED"
BY DEF Targets, Allowed, ActiveStatuses
-----------------------------------------------------------------------------
(* The bookings table.                                                     *)

LEMMA RowsInit == Init => RowsHeld /\ BatchAllOrNothing
<1> SUFFICES ASSUME Init PROVE RowsHeld /\ BatchAllOrNothing
  OBVIOUS
<1>1. \A b \in Bookings : Active(b) => place[b] \in Place
  BY ExistingAssumption DEF Init, Active, ActiveStatuses
<1>2. \A p \in Requests : MoveHolds(p)
  BY DEF Init, MoveHolds, NoCall
<1>3. \A p \in Requests : FreshRows(p)
  BY RequestsAssumption DEF Init, FreshRows
<1>4. BatchAllOrNothing
  BY DEF Init, BatchAllOrNothing, AllOrNothing, NoCall
<1> QED
  BY <1>1, <1>2, <1>3, <1>4 DEF RowsHeld

\* Active bookings keep having a place.
LEMMA PlacesStep ==
  ASSUME TypeOK, Shape, RowsHeld, NEW p \in Requests, Act(p),
         NEW b \in Bookings, Active(b)'
  PROVE  place'[b] \in Place
<1>1. CASE Commit(p)
  <2>1. CASE b \in wrote[p]
    BY <1>1, <2>1, WrittenType DEF Commit
  <2>2. CASE b \notin wrote[p]
    BY <1>1, <2>2 DEF Commit, Active, RowsHeld
  <2> QED
    BY <2>1, <2>2
<1>2. ASSUME NEW c \in Bookings, Transited(p, c) PROVE place'[b] \in Place
  <2>1. Active(b)
    BY <1>2, AllowedActive DEF Transited, Active, TypeOK
  <2> QED
    BY <1>2, <2>1 DEF Transited, RowsHeld
<1>3. CASE UNCHANGED tables
  BY <1>3 DEF tables, Active, RowsHeld
<1> QED
  BY <1>1, <1>2, <1>3, TableCases DEF Shape

\* A move keeps its lock and its booking stays active, whatever others do.
LEMMA MoveOther ==
  ASSUME TypeOK, Shape, RowsHeld, NEW p \in Requests, Act(p),
         NEW q \in Requests, q # p
  PROVE  MoveHolds(q)'
<1> SUFFICES ASSUME call'[q].kind = "reschedule", pc'[q] \in InTx \ {"row"},
                    NEW b \in call'[q].ids
             PROVE  q \in owner'[b] /\ Active(b)'
  BY DEF MoveHolds
<1>1. Same(q)
  BY Frame
<1>2. b \in Bookings /\ b \in Rows /\ q \in owner[b] /\ Active(b)
  BY <1>1, RowTypes DEF Same, RowsHeld, MoveHolds, TypeOK, Calls
<1>3. q \in owner'[b]
  BY <1>1, <1>2 DEF Same
<1>4. CASE Commit(p)
  <2>1. CASE b \in wrote[p]
    BY <1>2, <1>4, <2>1, WrittenType DEF Commit, Active
  <2>2. CASE b \notin wrote[p]
    BY <1>2, <1>4, <2>2 DEF Commit, Active
  <2> QED
    BY <1>3, <2>1, <2>2
<1>5. ASSUME NEW c \in Bookings, Transited(p, c) PROVE Active(b)'
  <2>1. c # b
    BY <1>2, <1>5 DEF Transited
  <2> QED
    BY <1>2, <1>5, <2>1 DEF Transited, Active, TypeOK
<1>6. CASE UNCHANGED tables
  BY <1>2, <1>3, <1>6 DEF tables, Active
<1> QED
  BY <1>3, <1>4, <1>5, <1>6, TableCases DEF Shape

LEMMA MoveOwn ==
  ASSUME TypeOK, Shape, RowsHeld, NEW p \in Requests, Act(p)
  PROVE  MoveHolds(p)'
<1> USE DEF InTx
<1>0. ShapeOf(p) /\ MoveHolds(p)
  BY DEF Shape, RowsHeld
<1>1. ASSUME pc'[p] \notin InTx \ {"row"} PROVE MoveHolds(p)'
  BY <1>1 DEF MoveHolds
<1>2. ASSUME NEW R, NEW label, Lock(p, R), Goto(p, label), pc[p] \in InTx \ {"row"}
      PROVE  MoveHolds(p)'
  <2>1. \A b \in Bookings : owner[b] \subseteq owner'[b]
    BY <1>2, RowTypes DEF Lock
  <2>2. call' = call /\ status' = status /\ call[p].ids \subseteq Bookings
    BY <1>2 DEF Goto, tables, TypeOK, Calls
  <2> QED
    BY <1>0, <1>2, <2>1, <2>2 DEF MoveHolds, Active
<1>3. Rollback(p) => MoveHolds(p)'
  BY <1>1 DEF Rollback, TypeOK
<1>4. CASE Call(p)
  <2>1. CASE CheckCreate(p)
    <3>1. call'[p].kind = "create"
      BY <2>1 DEF CheckCreate, TypeOK
    <3> QED
      BY <3>1 DEF MoveHolds
  <2>2. CASE CheckReschedule(p) \/ CheckTransition(p)
    BY <1>1, <2>2 DEF CheckReschedule, CheckTransition, TypeOK
  <2> QED
    BY <1>4, <2>1, <2>2 DEF Call
<1>5. CASE LockRow(p)
  <2>1. CASE Rollback(p)
    BY <1>3, <2>1
  <2>2. CASE Active(Current(p)) /\ Lock(p, {Current(p)}) /\ Goto(p, "shared")
    <3>1. /\ call[p].kind = "reschedule" /\ Current(p) \in call[p].ids
          /\ Current(p) \in Rows
      BY <1>5, <1>0, CurrentTodo, RowTypes DEF LockRow, ShapeOf
    <3>2. call[p].ids = {Current(p)}
      BY <1>0, <3>1 DEF ShapeOf
    <3>3. p \in owner'[Current(p)] /\ call' = call /\ status' = status
      BY <2>2, <3>1 DEF Lock, Goto, tables
    <3> QED
      BY <2>2, <3>2, <3>3 DEF MoveHolds, Active
  <2> QED
    BY <1>5, <2>1, <2>2 DEF LockRow
<1>6. CASE LockShared(p)
  BY <1>6, <1>2, <1>3 DEF LockShared
<1>7. CASE LockStaff(p)
  BY <1>7, <1>2, <1>3 DEF LockStaff
<1>8. CASE LockResource(p)
  BY <1>8, <1>2, <1>3 DEF LockResource
<1>9. CASE CountAndWrite(p)
  <2>1. CASE HasRoom(p)
    <3>1. /\ pc[p] = "count" /\ call' = call /\ status' = status /\ owner' = owner
      BY <1>9, <2>1 DEF CountAndWrite, tables
    <3> QED
      BY <1>0, <3>1 DEF MoveHolds, Active
  <2> QED
    BY <1>3, <1>9, <2>1 DEF CountAndWrite
<1>10. CASE Commit(p)
  BY <1>1, <1>10 DEF Commit, TypeOK
<1>11. CASE TransitionStatus(p)
  <2>1. ASSUME NEW b \in Bookings, Transited(p, b) PROVE MoveHolds(p)'
    BY <1>1, <2>1 DEF Transited, TypeOK
  <2> QED
    BY <1>0, <1>3, <1>11, <2>1, TransitionCases
<1>12. CASE DeadlockVictim(p) \/ ConnectionLost(p)
  BY <1>3, <1>12 DEF DeadlockVictim, ConnectionLost
<1> QED
  BY <1>4, <1>5, <1>6, <1>7, <1>8, <1>9, <1>10, <1>11, <1>12 DEF Act, Step

\* An id is inserted only by the call it was made for.
LEMMA FreshStep ==
  ASSUME TypeOK, Shape, RowsHeld, NEW p \in Requests, Act(p), NEW q \in Requests
  PROVE  FreshRows(q)'
<1> SUFFICES ASSUME NEW b \in Fresh[q], status'[b] # "ABSENT"
             PROVE  call'[q].kind = "create" /\ pc'[q] = "done"
  BY DEF FreshRows
<1>0. b \in Bookings
  BY RequestsAssumption
<1>1. CASE status[b] # "ABSENT"
  <2>1. call[q].kind = "create" /\ pc[q] = "done"
    BY <1>1 DEF RowsHeld, FreshRows
  <2>2. CASE p = q
    BY <2>1, <2>2 DEF Act, Call, CheckCreate, CheckReschedule, CheckTransition, Step,
       LockRow, LockShared, LockStaff, LockResource, CountAndWrite, Commit,
       TransitionStatus, DeadlockVictim, ConnectionLost, InTx, Knot, WaitsFor, Wanted
  <2>3. CASE p # q
    BY <2>1, <2>3, Frame DEF Same
  <2> QED
    BY <2>2, <2>3
<1>2. CASE status[b] = "ABSENT"
  <2>1. CASE Commit(p)
    <3>1. b \in wrote[p] /\ b \in call[p].ids
      BY <1>0, <1>2, <2>1 DEF Commit, Shape, ShapeOf, TypeOK
    <3>2. pc[p] = "commit" /\ call[p].kind \in {"create", "reschedule"}
      BY <2>1 DEF Commit, Shape, ShapeOf, InTx
    <3>3. call[p].kind # "reschedule"
      BY <1>2, <3>1, <3>2 DEF RowsHeld, MoveHolds, Active, ActiveStatuses, InTx
    <3>4. b \in Fresh[p]
      BY <3>1, <3>2, <3>3 DEF Shape, ShapeOf
    <3>5. p = q
      BY <3>4, RequestsAssumption
    <3> QED
      BY <2>1, <3>2, <3>3, <3>5 DEF Commit, TypeOK
  <2>2. ASSUME NEW c \in Bookings, Transited(p, c) PROVE FALSE
    <3>1. c # b
      BY <1>2, <2>2, AllowedActive DEF Transited
    <3> QED
      BY <1>0, <1>2, <2>2, <3>1 DEF Transited, TypeOK
  <2>3. CASE UNCHANGED tables
    BY <1>2, <2>3 DEF tables
  <2> QED
    BY <2>1, <2>2, <2>3, TableCases DEF Shape
<1> QED
  BY <1>1, <1>2

LEMMA RowsStep == TypeOK /\ Shape /\ RowsHeld /\ [Next]_vars => RowsHeld'
<1> SUFFICES ASSUME TypeOK, Shape, RowsHeld, [Next]_vars PROVE RowsHeld'
  OBVIOUS
<1>1. ASSUME NEW p \in Requests, Act(p) PROVE RowsHeld'
  <2>1. \A q \in Requests : MoveHolds(q)'
    BY <1>1, MoveOther, MoveOwn
  <2> QED
    BY <1>1, <2>1, PlacesStep, FreshStep DEF RowsHeld
<1>2. CASE Administer \/ UNCHANGED vars
  BY <1>2, AdminFrame DEF RowsHeld, MoveHolds, FreshRows, Active, tables
<1> QED
  BY <1>1, <1>2, NextCases

\* A batch appears with its commit; before it none of its rows is there.
LEMMA BatchStep ==
  TypeOK /\ Shape /\ RowsHeld /\ BatchAllOrNothing /\ TypeOK' /\ Shape' /\ RowsHeld' /\ [Next]_vars
    => BatchAllOrNothing'
<1> SUFFICES ASSUME TypeOK, Shape, RowsHeld, BatchAllOrNothing, TypeOK', Shape', RowsHeld',
                    [Next]_vars, NEW q \in Requests, call'[q].kind = "create",
                    NEW b \in call'[q].ids
             PROVE  status'[b] # "ABSENT" <=> pc'[q] = "done"
  BY DEF BatchAllOrNothing, AllOrNothing
<1>1. b \in Fresh[q] /\ b \in Bookings
  BY RequestsAssumption DEF Shape, ShapeOf
<1>2. status'[b] # "ABSENT" => pc'[q] = "done"
  BY <1>1 DEF RowsHeld, FreshRows
<1>3. ASSUME pc[q] = "done", Same(q), status[b] = status'[b] \/ status'[b] # "ABSENT"
      PROVE  status'[b] # "ABSENT"
  BY <1>3 DEF BatchAllOrNothing, AllOrNothing, Same
<1>4. ASSUME NEW p \in Requests, Act(p), pc'[q] = "done" PROVE status'[b] # "ABSENT"
  <2>1. CASE p # q
    <3>1. Same(q)
      BY <1>4, <2>1, Frame
    <3>2. status[b] # "ABSENT"
      BY <1>4, <3>1 DEF BatchAllOrNothing, AllOrNothing, Same
    <3>3. CASE Commit(p)
      <4>1. CASE b \in wrote[p]
        BY <1>1, <3>3, <4>1, WrittenType DEF Commit, ActiveStatuses
      <4> QED
        BY <1>1, <3>2, <3>3, <4>1 DEF Commit
    <3>4. ASSUME NEW c \in Bookings, Transited(p, c) PROVE status'[b] # "ABSENT"
      BY <1>1, <3>2, <3>4, AllowedActive DEF Transited, TypeOK
    <3>5. CASE UNCHANGED tables
      BY <3>2, <3>5 DEF tables
    <3> QED
      BY <1>4, <3>3, <3>4, <3>5, TableCases DEF Shape
  <2>2. CASE p = q
    <3>1. CASE Commit(q)
      <4>1. pc[q] = "commit" /\ call' = call
        BY <3>1 DEF Commit
      <4>2. b \in wrote[q]
        BY <4>1 DEF Shape, ShapeOf
      <4> QED
        BY <1>1, <3>1, <4>2, WrittenType DEF Commit, ActiveStatuses
    <3>2. ASSUME NEW c \in Bookings, Transited(q, c) PROVE FALSE
      BY <3>2 DEF Transited
    <3>3. CASE TransitionStatus(q)
      <4>1. Rollback(q)
        BY <3>2, <3>3, TransitionCases DEF Shape
      <4> QED
        BY <1>4, <4>1 DEF Rollback, TypeOK
    <3>4. Rollback(q) => pc'[q] # "done"
      BY DEF Rollback, TypeOK
    <3>5. \A label \in InTx : Goto(q, label) => pc'[q] # "done"
      BY DEF Goto, TypeOK, InTx
    <3>6. CASE Call(q)
      BY <1>4, <3>6 DEF Call, CheckCreate, CheckReschedule, CheckTransition, TypeOK
    <3>7. CASE LockRow(q) \/ LockShared(q) \/ LockStaff(q) \/ LockResource(q)
      BY <1>4, <3>4, <3>5, <3>7 DEF LockRow, LockShared, LockStaff, LockResource, InTx
    <3>8. CASE CountAndWrite(q)
      <4>1. HasRoom(q) => pc'[q] # "done"
        BY <3>8 DEF CountAndWrite, TypeOK
      <4> QED
        BY <1>4, <3>4, <3>8, <4>1 DEF CountAndWrite
    <3>9. CASE DeadlockVictim(q) \/ ConnectionLost(q)
      BY <1>4, <3>4, <3>9 DEF DeadlockVictim, ConnectionLost
    <3> QED
      BY <1>4, <2>2, <3>1, <3>3, <3>6, <3>7, <3>8, <3>9 DEF Act, Step
  <2> QED
    BY <2>1, <2>2
<1>5. CASE Administer \/ UNCHANGED vars
  BY <1>5, AdminFrame DEF BatchAllOrNothing, AllOrNothing, tables
<1> QED
  BY <1>2, <1>4, <1>5, NextCases

-----------------------------------------------------------------------------
(* Validated rows stay locked and valid.                                   *)

\* No step of a call changes what administrators edit.
LEMMA ActAdmin == ASSUME NEW p \in Requests, Act(p) PROVE UNCHANGED admin
<1>1. Rollback(p) => UNCHANGED admin
  BY DEF Rollback
<1>2. \A label : Goto(p, label) => UNCHANGED admin
  BY DEF Goto
<1>3. Call(p) => UNCHANGED admin
  BY DEF Call, CheckCreate, CheckReschedule, CheckTransition
<1>4. LockRow(p) \/ LockShared(p) \/ LockStaff(p) \/ LockResource(p) => UNCHANGED admin
  BY <1>1, <1>2 DEF LockRow, LockShared, LockStaff, LockResource
<1>5. CountAndWrite(p) \/ Commit(p) \/ TransitionStatus(p) => UNCHANGED admin
  BY <1>1 DEF CountAndWrite, Commit, TransitionStatus
<1> QED
  BY <1>1, <1>3, <1>4, <1>5 DEF Act, Step, DeadlockVictim, ConnectionLost

\* A row somebody has locked is not edited.
LEMMA EditWaits ==
  ASSUME TypeOK, Administer \/ UNCHANGED vars, NEW x \in Guarded, owner[x] # {}
  PROVE  usable'[x] = usable[x] /\ (x \in Units => capacity'[x] = capacity[x])
BY DEF Administer, SetCapacity, SetUsable, SetLinked, vars, TypeOK

LEMMA LockedInit == Init => Locked
BY DEF Init, Locked, LockedOf

\* A lock adds to what p is sure of.
LEMMA SureLock ==
  ASSUME TypeOK, NEW p \in Requests, NEW R, Lock(p, R), UNCHANGED admin
  PROVE  /\ \A x \in Rows : Sure(p, x) => Sure(p, x)'
         /\ \A x \in R \cap Rows : usable[x] => Sure(p, x)'
BY DEF TypeOK, Lock, Sure, admin

LEMMA SharedRowsRows ==
  ASSUME TypeOK, NEW p \in Requests PROVE SharedRows(p) \subseteq Rows
BY SharedRowsType, RowTypes

\* Wherever p is, its locks survive a step that only takes more of them.
LEMMA LockedLock ==
  ASSUME TypeOK, Shape, NEW p \in Requests, LockedOf(p), pc[p] \in InTx \ {"commit"},
         NEW label \in InTx, NEW R, Lock(p, R), Goto(p, label),
         label \in {"staff", "resource", "count"} =>
           \A x \in SharedRows(p) : Sure(p, x)',
         label = "resource" => \A x \in {Target(p).staff} : Sure(p, x)',
         label = "count" => \A u \in Occupies(Target(p)) : Sure(p, u)'
  PROVE  LockedOf(p)'
<1>1. pc'[p] = label /\ call' = call /\ plan' = plan /\ wrote' = wrote /\ UNCHANGED admin
  BY DEF Goto, TypeOK
<1>2. Target(p)' = Target(p) /\ SharedRows(p)' = SharedRows(p)
  BY <1>1, SameTarget
<1>3. \A x \in Rows : Sure(p, x) => Sure(p, x)'
  BY <1>1, SureLock
<1>4. wrote[p] # {} => \A x \in SharedRows(p) : Sure(p, x)'
  BY <1>3, SharedRowsRows DEF LockedOf
<1>5. \A b \in wrote[p] : plan[p][b] \in Place /\ Occupies(plan[p][b]) \subseteq Rows
  <2>1. \A b \in wrote[p] : plan[p][b] \in Place
    BY DEF Shape, ShapeOf, InTx
  <2> QED
    BY <2>1, RowTypes
<1>6. \A b \in wrote[p] : \A u \in Occupies(plan[p][b]) : Sure(p, u)'
  BY <1>3, <1>5 DEF LockedOf
<1> HIDE DEF Target
<1> QED
  BY <1>1, <1>2, <1>4, <1>6 DEF LockedOf

LEMMA LockedOwn ==
  ASSUME TypeOK, Shape, NEW p \in Requests, LockedOf(p), Act(p)
  PROVE  LockedOf(p)'
<1> USE DEF InTx
<1>0. ShapeOf(p)
  BY DEF Shape
<1>1. ASSUME wrote'[p] = {}, pc'[p] \notin {"staff", "resource", "count"}
      PROVE  LockedOf(p)'
  BY <1>1 DEF LockedOf
<1>2. Rollback(p) => LockedOf(p)'
  BY <1>1 DEF Rollback, TypeOK
<1>3. CASE Call(p)
  <2>1. /\ wrote'[p] = wrote[p] /\ pc[p] = "idle"
        /\ pc'[p] \in {"shared", "row", "update"}
    BY <1>3 DEF Call, CheckCreate, CheckReschedule, CheckTransition, TypeOK
  <2> QED
    BY <1>0, <1>1, <2>1 DEF ShapeOf
<1>4. CASE LockRow(p)
  BY <1>2, <1>4, LockedLock DEF LockRow
<1>5. CASE LockShared(p)
  <2>1. CASE Lock(p, SharedRows(p)) /\ Goto(p, "staff") /\ \A x \in SharedRows(p) : usable[x]
    <3>1. \A x \in SharedRows(p) : Sure(p, x)'
      BY <2>1, SureLock, SharedRowsRows DEF Goto
    <3> QED
      BY <1>5, <2>1, <3>1, LockedLock DEF LockShared
  <2> QED
    BY <1>2, <1>5, <2>1 DEF LockShared
<1>6. CASE LockStaff(p)
  <2> DEFINE s == Target(p).staff
             label == IF Target(p).resource = NoResource THEN "count" ELSE "resource"
  <2>1. CASE Lock(p, {s}) /\ Goto(p, label) /\ usable[s]
    <3>1. Target(p) \in Place /\ Occupies(Target(p)) \subseteq Units
      BY <1>0, <1>6, CurrentTodo DEF LockStaff
    <3>2. s \in Rows
      BY <3>1, RowTypes DEF Occupies
    <3>3. \A x \in {s} : Sure(p, x)'
      BY <2>1, <3>2, SureLock DEF Goto
    <3>4. \A x \in SharedRows(p) : Sure(p, x)'
      BY <1>6, <2>1, SureLock, SharedRowsRows DEF Goto, LockStaff, LockedOf
    <3>5. label = "count" => \A u \in Occupies(Target(p)) : Sure(p, u)'
      BY <3>3 DEF Occupies
    <3>6. label \in {"count", "resource"} /\ pc[p] \in InTx \ {"commit"}
      BY <1>6 DEF LockStaff
    <3> HIDE DEF label
    <3> QED
      BY <2>1, <3>3, <3>4, <3>5, <3>6, LockedLock
  <2> QED
    BY <1>2, <1>6, <2>1 DEF LockStaff
<1>7. CASE LockResource(p)
  <2> DEFINE s == Target(p).staff
             r == Target(p).resource
  <2>1. CASE Lock(p, {r}) /\ Goto(p, "count") /\ usable[r]
    <3>1. Target(p) \in Place /\ Occupies(Target(p)) \subseteq Units
      BY <1>0, <1>7, CurrentTodo DEF LockResource
    <3>2. Occupies(Target(p)) \subseteq {s, r} /\ s \in Rows
      BY <3>1, RowTypes DEF Occupies
    <3>3. \A x \in {s} : Sure(p, x)'
      <4>1. Sure(p, s) /\ UNCHANGED admin
        BY <1>7, <2>1 DEF Goto, LockResource, LockedOf
      <4> HIDE DEF s
      <4> QED
        BY <2>1, <3>2, <4>1, SureLock
    <3>4. \A x \in {r} \cap Rows : Sure(p, x)'
      <4> HIDE DEF r
      <4> QED
        BY <2>1, SureLock DEF Goto
    <3>5. \A u \in Occupies(Target(p)) : Sure(p, u)'
      BY <3>1, <3>2, <3>3, <3>4, RowTypes
    <3>6. \A x \in SharedRows(p) : Sure(p, x)'
      BY <1>7, <2>1, SureLock, SharedRowsRows DEF Goto, LockResource, LockedOf
    <3> QED
      BY <1>7, <2>1, <3>5, <3>6, LockedLock DEF LockResource
  <2> QED
    BY <1>2, <1>7, <2>1 DEF LockResource
<1>8. CASE CountAndWrite(p)
  <2>1. CASE HasRoom(p)
    <3>1. /\ pc[p] = "count"
          /\ wrote' = [wrote EXCEPT ![p] = @ \cup {Current(p)}]
          /\ pc' = [pc EXCEPT ![p] = IF Todo(p) = {Current(p)} THEN "commit" ELSE "shared"]
          /\ UNCHANGED <<tables, admin, owner, call, plan>>
      BY <1>8, <2>1 DEF CountAndWrite
    <3>2. /\ wrote'[p] = wrote[p] \cup {Current(p)} /\ pc'[p] \in {"commit", "shared"}
          /\ call' = call /\ plan' = plan /\ \A x : Sure(p, x)' <=> Sure(p, x)
      BY <3>1 DEF TypeOK, Sure, admin
    <3>3. SharedRows(p)' = SharedRows(p)
      BY <3>2 DEF SharedRows
    <3>4. \A x \in SharedRows(p) : Sure(p, x)
      BY <3>1 DEF LockedOf
    <3>5. \A b \in wrote'[p] : \A u \in Occupies(plan[p][b]) : Sure(p, u)
      BY <3>1, <3>2 DEF LockedOf, Target
    <3> QED
      BY <3>2, <3>3, <3>4, <3>5 DEF LockedOf
  <2> QED
    BY <1>2, <1>8, <2>1 DEF CountAndWrite
<1>9. CASE Commit(p)
  BY <1>1, <1>9 DEF Commit, TypeOK
<1>10. CASE TransitionStatus(p)
  <2>1. ASSUME NEW b \in Bookings, Transited(p, b) PROVE LockedOf(p)'
    BY <1>0, <1>1, <2>1 DEF Transited, TypeOK, ShapeOf
  <2> QED
    BY <1>0, <1>2, <1>10, <2>1, TransitionCases
<1>11. CASE DeadlockVictim(p) \/ ConnectionLost(p)
  BY <1>2, <1>11 DEF DeadlockVictim, ConnectionLost
<1> QED
  BY <1>3, <1>4, <1>5, <1>6, <1>7, <1>8, <1>9, <1>10, <1>11 DEF Act, Step

LEMMA LockedRows ==
  ASSUME TypeOK, NEW q \in Requests, NEW x, Sure(q, x), x \in Rows PROVE owner[x] # {}
BY DEF Sure

\* All the rows q may be sure of.
LEMMA SureGuarded ==
  ASSUME TypeOK, Shape, NEW q \in Requests
  PROVE  /\ SharedRows(q) \subseteq Guarded
         /\ pc[q] \in InTx \ {"commit"} => Occupies(Target(q)) \subseteq Guarded
         /\ \A b \in wrote[q] : Occupies(plan[q][b]) \subseteq Guarded
<1>1. ShapeOf(q)
  BY DEF Shape
<1>2. pc[q] \in InTx \ {"commit"} => Occupies(Target(q)) \subseteq Guarded
  BY <1>1, CurrentTodo, RowTypes
<1>3. \A b \in wrote[q] : plan[q][b] \in Place
  BY <1>1 DEF ShapeOf, InTx
<1> QED
  BY <1>2, <1>3, SharedRowsType, RowTypes

LEMMA LockedSame ==
  ASSUME TypeOK, Shape, NEW q \in Requests, LockedOf(q),
         pc'[q] = pc[q], call'[q] = call[q], plan'[q] = plan[q], wrote'[q] = wrote[q],
         \A x \in Guarded : Sure(q, x) => Sure(q, x)'
  PROVE  LockedOf(q)'
<1>1. Target(q)' = Target(q) /\ SharedRows(q)' = SharedRows(q)
  BY SameTarget
<1>2. pc[q] = "resource" => Target(q).staff \in Guarded
  BY SureGuarded DEF InTx, Occupies
<1> QED
  BY <1>1, <1>2, SureGuarded DEF LockedOf, InTx

LEMMA LockedStep == TypeOK /\ Shape /\ Locked /\ [Next]_vars => Locked'
<1> SUFFICES ASSUME TypeOK, Shape, Locked, [Next]_vars, NEW q \in Requests PROVE LockedOf(q)'
  BY DEF Locked
<1>0. LockedOf(q)
  BY DEF Locked
<1>1. ASSUME NEW p \in Requests, Act(p), p # q PROVE LockedOf(q)'
  <2>1. Same(q) /\ UNCHANGED admin
    BY <1>1, Frame, ActAdmin
  <2>2. \A x \in Guarded : Sure(q, x) => Sure(q, x)'
    BY <2>1, RowTypes DEF Same, Sure, admin
  <2> QED
    BY <1>0, <2>1, <2>2, LockedSame DEF Same
<1>2. CASE Administer \/ UNCHANGED vars
  <2>1. \A x \in Guarded : Sure(q, x) => Sure(q, x)'
    BY <1>2, AdminFrame, EditWaits, LockedRows, RowTypes DEF Sure
  <2> QED
    BY <1>0, <1>2, <2>1, AdminFrame, LockedSame
<1> QED
  BY <1>0, <1>1, <1>2, NextCases, LockedOwn
-----------------------------------------------------------------------------
(* Loads.                                                                  *)

LEMMA LoadType ==
  ASSUME NEW S, S \subseteq Bookings PROVE IsFiniteSet(S) /\ Cardinality(S) \in Nat
BY BookingsAssumption, FS_Subset, FS_CardinalityType

LEMMA LoadMonotone ==
  ASSUME NEW at, NEW bt, NEW u, NEW t, Holding(at, u, t) \subseteq Holding(bt, u, t)
  PROVE  Load(at, u, t) \in Nat /\ Load(bt, u, t) \in Nat /\ Load(at, u, t) <= Load(bt, u, t)
<1>1. Holding(bt, u, t) \subseteq Bookings /\ Holding(at, u, t) \subseteq Bookings
  BY DEF Holding
<1>2. Cardinality(Holding(at, u, t)) <= Cardinality(Holding(bt, u, t))
  BY <1>1, LoadType, FS_Subset
<1> QED
  BY <1>1, <1>2, LoadType DEF Load

\* Putting booking b where a count found room leaves no overload there.
LEMMA LoadAdds ==
  ASSUME NEW at, NEW bt, NEW u, NEW b \in Bookings, NEW w \in Windows, NEW t \in Instants,
         Covers(w, t), \A c \in Bookings : at[c] # NoPlace => at[c] \in Place,
         \A c \in Bookings \ {b} : bt[c] = at[c],
         NEW n \in Nat, Cardinality(Crowd(at, u, w) \ {b}) < n
  PROVE  Load(bt, u, t) <= n
<1> DEFINE C == Crowd(at, u, w) \ {b}
<1>1. t \in Int
  BY WindowsAssumption DEF Instants
<1>2. Holding(bt, u, t) \subseteq C \cup {b}
  <2> SUFFICES ASSUME NEW c \in Holding(bt, u, t), c # b PROVE c \in Crowd(at, u, w)
    OBVIOUS
  <2>1. /\ c \in Bookings /\ at[c] \in Place /\ at[c] # NoPlace
        /\ u \in Occupies(at[c]) /\ Covers(at[c].window, t)
    BY DEF Holding
  <2>2. Overlap(at[c].window, w)
    <3>1. at[c].window \in Windows
      BY <2>1 DEF Place
    <3> QED
      BY <1>1, <2>1, <3>1, WindowsAssumption DEF Covers, Overlap
  <2> QED
    BY <2>1, <2>2 DEF Crowd
<1>3. C \subseteq Bookings /\ C \cup {b} \subseteq Bookings
  BY DEF Crowd
<1> HIDE DEF C
<1>4. IsFiniteSet(C) /\ Cardinality(C) \in Nat
  BY <1>3, LoadType
<1>5. IsFiniteSet(C \cup {b}) /\ Cardinality(C \cup {b}) <= Cardinality(C) + 1
  <2>1. /\ IsFiniteSet(C \cup {b})
        /\ Cardinality(C \cup {b}) = IF b \in C THEN Cardinality(C) ELSE Cardinality(C) + 1
    BY <1>4, FS_AddElement, Zenon
  <2> QED
    BY <1>4, <2>1
<1>6. Cardinality(Holding(bt, u, t)) <= Cardinality(C \cup {b})
  BY <1>2, <1>5, FS_Subset
<1>7. Cardinality(Holding(bt, u, t)) \in Nat /\ Cardinality(C \cup {b}) \in Nat
  BY <1>2, <1>3, LoadType
<1> QED
  BY <1>4, <1>5, <1>6, <1>7 DEF Load, C

-----------------------------------------------------------------------------
(* The committed calendar.                                                 *)

LEMMA CommitSeen ==
  ASSUME TypeOK, Shape, RowsHeld, NEW p \in Requests, Commit(p)
  PROVE  Committed' = Seen(p)
<1>1. \A b \in wrote[p] : status'[b] \in ActiveStatuses /\ place'[b] = plan[p][b]
  BY WrittenType DEF Commit
<1>2. \A b \in Bookings \ wrote[p] : status'[b] = status[b] /\ place'[b] = place[b]
  BY DEF Commit
<1>3. \A b \in Bookings : Committed'[b] = Seen(p)[b]
  BY <1>1, <1>2 DEF Committed, Seen, Active
<1> QED
  BY <1>3 DEF Committed, Seen

\* A commit shows everyone the calendar its transaction saw; every other step
\* of a call only takes bookings out of it.
LEMMA CalendarAct ==
  ASSUME TypeOK, Shape, RowsHeld, NEW p \in Requests, Act(p)
  PROVE  \/ Commit(p) /\ Committed' = Seen(p)
         \/ \A b \in Bookings : Committed'[b] \in {Committed[b], NoPlace}
<1>1. CASE Commit(p)
  BY <1>1, CommitSeen
<1>2. ASSUME NEW c \in Bookings, Transited(p, c), NEW b \in Bookings
      PROVE  Committed'[b] \in {Committed[b], NoPlace}
  <2>1. place' = place
    BY <1>2 DEF Transited
  <2>2. Active(b)' => Active(b)
    BY <1>2, AllowedActive DEF Transited, Active, TypeOK
  <2> QED
    BY <2>1, <2>2 DEF Committed
<1>3. CASE UNCHANGED tables
  BY <1>3 DEF Committed, tables, Active
<1> QED
  BY <1>1, <1>2, <1>3, TableCases DEF Shape

LEMMA CommittedPlaces ==
  ASSUME RowsHeld, NEW b \in Bookings
  PROVE  /\ Committed[b] # NoPlace => Committed[b] \in Place
         /\ Active(b) => Committed[b] # NoPlace
BY NoPlaceAssumption DEF Committed, RowsHeld

LEMMA SeenPlaces ==
  ASSUME TypeOK, Shape, RowsHeld, NEW p \in Requests, NEW b \in Bookings, Seen(p)[b] # NoPlace
  PROVE  Seen(p)[b] \in Place
<1>1. b \in wrote[p] => plan[p][b] \in Place
  BY DEF Shape, ShapeOf, InTx
<1> QED
  BY <1>1, CommittedPlaces DEF Seen

LEMMA RoomInit == Init => Room
BY DEF Init, Room, RoomOf

\* A unit q has written on is locked by q, so no commit of p loads it.
LEMMA RoomOther ==
  ASSUME TypeOK, Exclusive, Shape, RowsHeld, Locked,
         NEW q \in Requests, RoomOf(q), NEW p \in Requests, Act(p), p # q
  PROVE  RoomOf(q)'
<1>1. Same(q) /\ UNCHANGED admin
  BY Frame, ActAdmin
<1> SUFFICES ASSUME NEW b \in wrote[q], NEW u \in Occupies(plan[q][b]), NEW t \in Instants,
                    Covers(plan[q][b].window, t)
             PROVE  Load(Seen(q)', u, t) <= capacity'[u]
  BY <1>1 DEF RoomOf, Same
<1>2. plan[q][b] \in Place /\ u \in Units
  BY RowTypes DEF Shape, ShapeOf, InTx
<1>3. q \in owner[u]
  BY DEF Locked, LockedOf, Sure
<1>4. Holding(Seen(q)', u, t) \subseteq Holding(Seen(q), u, t)
  <2> SUFFICES ASSUME NEW c \in Holding(Seen(q)', u, t) PROVE c \in Holding(Seen(q), u, t)
    OBVIOUS
  <2>1. c \in Bookings /\ Seen(q)'[c] # NoPlace /\ u \in Occupies(Seen(q)'[c])
    BY DEF Holding
  <2>2. CASE c \in wrote[q]
    <3>1. Seen(q)'[c] = Seen(q)[c]
      BY <1>1, <2>1, <2>2 DEF Seen, Same
    <3> QED
      BY <3>1 DEF Holding
  <2>3. CASE c \notin wrote[q]
    <3>1. Seen(q)'[c] = Committed'[c] /\ Seen(q)[c] = Committed[c]
      BY <1>1, <2>1, <2>3 DEF Seen, Same
    <3>2. CASE Commit(p) /\ Committed' = Seen(p)
      <4>1. c \notin wrote[p]
        <5>1. ASSUME c \in wrote[p] PROVE FALSE
          <6>1. Seen(p)[c] = plan[p][c]
            BY <2>1, <5>1 DEF Seen
          <6>2. p \in owner[u]
            BY <2>1, <3>1, <3>2, <5>1, <6>1 DEF Locked, LockedOf, Sure
          <6> QED
            BY <1>2, <1>3, <6>2 DEF Exclusive
        <5> QED
          BY <5>1
      <4>2. Seen(p)[c] = Committed[c]
        BY <2>1, <4>1 DEF Seen
      <4> QED
        BY <3>1, <3>2, <4>2 DEF Holding
    <3>3. CASE Committed'[c] \in {Committed[c], NoPlace}
      BY <2>1, <3>1, <3>3 DEF Holding
    <3> QED
      BY <2>1, <3>2, <3>3, CalendarAct
  <2> QED
    BY <2>2, <2>3
<1>5. Load(Seen(q)', u, t) <= Load(Seen(q), u, t) /\ Load(Seen(q), u, t) \in Nat
      /\ Load(Seen(q)', u, t) \in Nat
  BY <1>4, LoadMonotone
<1>6. Load(Seen(q), u, t) <= capacity[u]
  BY DEF RoomOf
<1>7. capacity' = capacity /\ capacity[u] \in Nat
  BY <1>1, <1>2 DEF admin, TypeOK
<1> QED
  BY <1>5, <1>6, <1>7

LEMMA RoomWrite ==
  ASSUME TypeOK, Shape, RowsHeld, NEW p \in Requests, RoomOf(p),
         CountAndWrite(p), HasRoom(p)
  PROVE  RoomOf(p)'
<1> DEFINE b == Current(p)
<1>1. /\ pc[p] = "count" /\ wrote' = [wrote EXCEPT ![p] = @ \cup {b}]
      /\ UNCHANGED <<tables, admin, owner, call, plan>>
  BY DEF CountAndWrite
<1>2. /\ b \in Bookings /\ b \notin wrote[p] /\ Target(p) \in Place
      /\ Occupies(Target(p)) \subseteq Units
  BY <1>1, CurrentTodo DEF Shape, InTx
<1>3. /\ wrote'[p] = wrote[p] \cup {b} /\ plan' = plan /\ capacity' = capacity
      /\ Committed' = Committed
  BY <1>1 DEF TypeOK, admin, tables, Committed, Active
<1>4. plan[p][b] = Target(p)
  BY DEF Target
<1>5. \A u \in Occupies(Target(p)) :
        Cardinality(Crowd(Seen(p), u, Target(p).window) \ {b}) < capacity[u]
  BY DEF HasRoom
<1> HIDE DEF b
<1>6. /\ \A c \in Bookings \ {b} : Seen(p)'[c] = Seen(p)[c]
      /\ Seen(p)'[b] = Target(p)
  BY <1>2, <1>3, <1>4 DEF Seen
<1> SUFFICES ASSUME NEW c \in wrote'[p], NEW u \in Occupies(plan[p][c]), NEW t \in Instants,
                    Covers(plan[p][c].window, t)
             PROVE  Load(Seen(p)', u, t) <= capacity[u]
  BY <1>3 DEF RoomOf
<1>7. u \in Units /\ capacity[u] \in Nat
  BY <1>2, <1>3, <1>4, RowTypes DEF TypeOK, Shape, ShapeOf, InTx
<1>8. CASE u \in Occupies(Target(p)) /\ Covers(Target(p).window, t)
  <2>1. Target(p).window \in Windows
    BY <1>2 DEF Place
  <2>2. \A d \in Bookings : Seen(p)[d] # NoPlace => Seen(p)[d] \in Place
    BY SeenPlaces
  <2>3. Cardinality(Crowd(Seen(p), u, Target(p).window) \ {b}) < capacity[u]
    BY <1>5, <1>8
  <2> HIDE DEF Target, Seen
  <2> QED
    BY <1>2, <1>6, <1>7, <1>8, <2>1, <2>2, <2>3, LoadAdds
<1>9. CASE ~ (u \in Occupies(Target(p)) /\ Covers(Target(p).window, t))
  <2>1. c \in wrote[p]
    BY <1>3, <1>4, <1>9
  <2>2. Holding(Seen(p)', u, t) \subseteq Holding(Seen(p), u, t)
    BY <1>6, <1>9 DEF Holding
  <2>3. Load(Seen(p), u, t) <= capacity[u]
    BY <2>1 DEF RoomOf
  <2>4. Load(Seen(p)', u, t) <= Load(Seen(p), u, t) /\ Load(Seen(p), u, t) \in Nat
        /\ Load(Seen(p)', u, t) \in Nat
    BY <2>2, LoadMonotone
  <2> QED
    BY <1>7, <2>3, <2>4
<1> QED
  BY <1>8, <1>9

LEMMA RoomOwn ==
  ASSUME TypeOK, Shape, RowsHeld, NEW p \in Requests, RoomOf(p), Act(p)
  PROVE  RoomOf(p)'
<1>0. ShapeOf(p)
  BY DEF Shape
<1>1. ASSUME wrote'[p] = {} PROVE RoomOf(p)'
  BY <1>1 DEF RoomOf
<1>2. Rollback(p) => RoomOf(p)'
  BY <1>1 DEF Rollback, TypeOK
<1>3. ASSUME NEW label, Goto(p, label) PROVE RoomOf(p)'
  <2>1. wrote' = wrote /\ plan' = plan /\ capacity' = capacity /\ Seen(p)' = Seen(p)
    BY <1>3 DEF Goto, admin, tables, Seen, Committed, Active
  <2> QED
    BY <2>1 DEF RoomOf
<1>4. CASE Call(p)
  <2>1. pc[p] = "idle" /\ wrote' = wrote
    BY <1>4 DEF Call, CheckCreate, CheckReschedule, CheckTransition
  <2> QED
    BY <1>0, <1>1, <2>1 DEF ShapeOf, InTx
<1>5. CASE LockRow(p) \/ LockShared(p) \/ LockStaff(p) \/ LockResource(p)
  BY <1>2, <1>3, <1>5 DEF LockRow, LockShared, LockStaff, LockResource
<1>6. CASE CountAndWrite(p)
  BY <1>2, <1>6, RoomWrite DEF CountAndWrite
<1>7. CASE Commit(p)
  BY <1>1, <1>7 DEF Commit, TypeOK
<1>8. CASE TransitionStatus(p)
  <2>1. ASSUME NEW b \in Bookings, Transited(p, b) PROVE RoomOf(p)'
    <3>1. wrote'[p] = {}
      BY <1>0, <2>1 DEF Transited, ShapeOf, InTx
    <3> QED
      BY <1>1, <3>1
  <2> QED
    BY <1>0, <1>2, <1>8, <2>1, TransitionCases
<1>9. CASE DeadlockVictim(p) \/ ConnectionLost(p)
  BY <1>2, <1>9 DEF DeadlockVictim, ConnectionLost
<1> QED
  BY <1>4, <1>5, <1>6, <1>7, <1>8, <1>9 DEF Act, Step

LEMMA RoomStep ==
  TypeOK /\ Exclusive /\ Shape /\ RowsHeld /\ Locked /\ Room /\ [Next]_vars => Room'
<1> SUFFICES ASSUME TypeOK, Exclusive, Shape, RowsHeld, Locked, Room, [Next]_vars,
                    NEW q \in Requests
             PROVE  RoomOf(q)'
  BY DEF Room
<1>0. RoomOf(q)
  BY DEF Room
<1>1. ASSUME NEW p \in Requests, Act(p) PROVE RoomOf(q)'
  BY <1>0, <1>1, RoomOther, RoomOwn
<1>2. CASE Administer \/ UNCHANGED vars
  <2>1. wrote' = wrote /\ plan' = plan /\ Seen(q)' = Seen(q)
    BY <1>2, AdminFrame DEF tables, Seen, Committed, Active
  <2>2. ASSUME NEW b \in wrote[q], NEW u \in Occupies(plan[q][b]) PROVE capacity'[u] = capacity[u]
    <3>1. plan[q][b] \in Place
      BY DEF Shape, ShapeOf, InTx
    <3>2. u \in Units /\ u \in Guarded /\ u \in Rows
      BY <3>1, RowTypes
    <3>3. owner[u] # {}
      BY DEF Locked, LockedOf, Sure
    <3> QED
      BY <1>2, <3>2, <3>3, EditWaits
  <2> QED
    BY <1>0, <2>1, <2>2 DEF RoomOf
<1> QED
  BY <1>1, <1>2, NextCases
-----------------------------------------------------------------------------
(* Theorems.                                                               *)

LEMMA InvInit == Init => Inv
<1>1. Init => Exclusive
  BY RowTypes DEF Init, Exclusive
<1> QED
  BY <1>1, TypeInit, ShapeInit, RowsInit, LockedInit, RoomInit DEF Inv

LEMMA InvStep == Inv /\ [Next]_vars => Inv'
BY TypeStep, ExclusiveStep, ShapeStep, RowsStep, BatchStep, LockedStep, RoomStep DEF Inv

\* The inductive invariant holds in every reachable state.
THEOREM Invariance == Spec => []Inv
BY InvInit, InvStep, PTL DEF Spec

\* Tables, locks and calls keep their types, whatever calls and administrators do.
THEOREM TypeCorrect == Spec => []TypeOK
<1>1. Inv => TypeOK
  BY DEF Inv
<1> QED
  BY <1>1, Invariance, PTL

\* A batch appears entirely or not at all, for any number of calls in flight.
THEOREM BatchesAtomic == Spec => []BatchAllOrNothing
<1>1. Inv => BatchAllOrNothing
  BY DEF Inv
<1> QED
  BY <1>1, Invariance, PTL

\* What a transaction validated about its rows is true until it ends.
THEOREM ChecksHold == Spec => []ChecksStillHold
<1>1. Inv => ChecksStillHold
  BY DEF Inv, Locked, LockedOf, Sure, ChecksStillHold
<1> QED
  BY <1>1, Invariance, PTL

\* What a commit adds to a unit, its transaction found room for.
LEMMA CommitRoom ==
  ASSUME Inv, NEW p \in Requests, Commit(p), Committed' = Seen(p),
         NEW u \in Units, NEW t \in Instants, Load(Committed', u, t) > Load(Committed, u, t)
  PROVE  Load(Committed', u, t) <= capacity[u]
<1>1. PICK b \in wrote[p] : u \in Occupies(plan[p][b]) /\ Covers(plan[p][b].window, t)
  <2>1. ~ (Holding(Committed', u, t) \subseteq Holding(Committed, u, t))
    BY LoadMonotone
  <2>2. PICK b \in Holding(Seen(p), u, t) : b \notin Holding(Committed, u, t)
    BY <2>1
  <2>3. b \in Bookings
    BY <2>2 DEF Holding
  <2>4. b \in wrote[p]
    BY <2>2, <2>3 DEF Holding, Seen
  <2>5. Seen(p)[b] = plan[p][b]
    BY <2>3, <2>4 DEF Seen
  <2> QED
    BY <2>2, <2>4, <2>5 DEF Holding
<1> QED
  BY <1>1 DEF Inv, Room, RoomOf

LEMMA NeverOverbooksInv == Inv /\ [Next]_vars => [NeverOverbooksStep]_vars
<1> SUFFICES ASSUME Inv, [Next]_vars, NEW u \in Units, NEW t \in Instants,
                    Load(Committed', u, t) > Load(Committed, u, t)
             PROVE  Load(Committed', u, t) <= capacity'[u]
  BY DEF NeverOverbooksStep
<1> USE DEF Inv
<1>1. ~ (Holding(Committed', u, t) \subseteq Holding(Committed, u, t))
  BY LoadMonotone
<1>2. CASE Administer \/ UNCHANGED vars
  <2>1. Committed' = Committed
    BY <1>2, AdminFrame DEF tables, Committed, Active
  <2> QED
    BY <1>1, <2>1
<1>3. ASSUME NEW p \in Requests, Act(p) PROVE Load(Committed', u, t) <= capacity'[u]
  <2>1. CASE Commit(p) /\ Committed' = Seen(p)
    BY <1>3, <2>1, ActAdmin, CommitRoom DEF admin
  <2>2. CASE \A b \in Bookings : Committed'[b] \in {Committed[b], NoPlace}
    <3>1. Holding(Committed', u, t) \subseteq Holding(Committed, u, t)
      BY <2>2 DEF Holding
    <3> QED
      BY <1>1, <3>1
  <2> QED
    BY <1>3, <2>1, <2>2, CalendarAct
<1> QED
  BY <1>2, <1>3, NextCases

\* No step adds a booking to a unit that is full at that instant: for any
\* number of calls, bookings, staff, resources and windows.
THEOREM NoOverbooking == Spec => NeverOverbooks
BY Invariance, NeverOverbooksInv, PTL DEF Spec, NeverOverbooks

LEMMA LifecycleInv == Inv /\ [Next]_vars => [LifecycleStep]_vars
<1> SUFFICES ASSUME Inv, [Next]_vars PROVE LifecycleStep \/ UNCHANGED vars
  OBVIOUS
<1> USE DEF Inv
<1>1. CASE UNCHANGED tables
  BY <1>1 DEF tables, LifecycleStep
<1>2. ASSUME NEW p \in Requests, Commit(p) PROVE LifecycleStep
  <2>1. pc[p] = "commit" /\ ShapeOf(p) /\ MoveHolds(p) /\ FreshRows(p)
    BY <1>2 DEF Commit, Shape, RowsHeld
  <2>2. ASSUME NEW b \in wrote[p]
        PROVE  /\ status'[b] \in ActiveStatuses
               /\ status'[b] = status[b] \/ status[b] = "ABSENT"
    <3>1. b \in Bookings /\ status'[b] = Written(p, b) /\ Written(p, b) \in ActiveStatuses
      BY <1>2, <2>2, WrittenType DEF Commit
    <3>2. b \in call[p].ids /\ call[p].kind \in {"create", "reschedule"}
      BY <2>1, <2>2 DEF ShapeOf, InTx
    <3>3. CASE call[p].kind = "create"
      BY <2>1, <3>1, <3>2, <3>3 DEF ShapeOf, FreshRows
    <3> QED
      BY <3>1, <3>2, <3>3 DEF Written
  <2>3. \A b \in Bookings \ wrote[p] : status'[b] = status[b] /\ place'[b] = place[b]
    BY <1>2 DEF Commit
  <2> QED
    BY <2>2, <2>3 DEF LifecycleStep
<1>3. ASSUME NEW p \in Requests, NEW b \in Bookings, Transited(p, b) PROVE LifecycleStep
  <2>1. place' = place /\ status' = [status EXCEPT ![b] = call[p].to]
        /\ call[p].to \in Targets /\ status[b] \in Allowed(call[p].to)
    BY <1>3 DEF Transited
  <2> QED
    BY <2>1 DEF LifecycleStep, TypeOK
<1>4. Administer => UNCHANGED tables
  BY AdminFrame
<1> QED
  BY <1>1, <1>2, <1>3, <1>4, NextCases, TableCases DEF Shape

\* A booking only ever moves along its lifecycle, and only while it is active.
THEOREM Lifecycle == Spec => LifecycleFollowed
BY Invariance, LifecycleInv, PTL DEF Spec, LifecycleFollowed
-----------------------------------------------------------------------------
(* The service implements the ledger.                                      *)

Final(st) == {b \in Bookings : st[b] \in Statuses \ ActiveStatuses}

LEMMA LedgerInit == Init => Ledger!Init
<1> SUFFICES ASSUME Init PROVE Ledger!Init
  OBVIOUS
<1>1. Committed \in [Bookings -> Place \cup {NoPlace}]
  BY TypeInit DEF TypeOK, Committed
<1>2. \A b \in Bookings : status[b] \in Statuses \ ActiveStatuses => Committed[b] = NoPlace
  BY DEF Committed, Active
<1>3. capacity \in [Units -> Nat]
  BY TypeInit DEF TypeOK
<1> QED
  BY <1>1, <1>2, <1>3 DEF Ledger!Init, Place, Units, Ledger!Place, Ledger!Units

\* The ledger's calendar is the service's.
LEMMA SameSlots ==
  /\ Ledger!Units = Units /\ Ledger!Instants = Instants /\ Ledger!Place = Place
  /\ \A at, u, t : Ledger!Load(at, u, t) = Load(at, u, t)
<1>0. /\ \A pl : Ledger!Occupies(pl) = Occupies(pl)
      /\ \A w, t : Ledger!Covers(w, t) = Covers(w, t)
  BY DEF Ledger!Covers, Covers, Ledger!Occupies, Occupies
<1>1. \A at, u, t : Ledger!Holding(at, u, t) = Holding(at, u, t)
  BY <1>0 DEF Ledger!Holding, Holding
<1>2. \A at, u, t : Ledger!Load(at, u, t) = Load(at, u, t)
  BY <1>1 DEF Ledger!Load, Load, Ledger!Cardinality, Cardinality
<1> QED
  BY <1>2 DEF Ledger!Units, Units, Ledger!Instants, Instants, Ledger!Place, Place

LEMMA LedgerCommit ==
  ASSUME Inv, NEW p \in Requests, Act(p), Commit(p), Committed' = Seen(p),
         [NeverOverbooksStep]_vars, [LifecycleStep]_vars
  PROVE  Ledger!Claim \/ UNCHANGED vars
<1> SUFFICES ASSUME NeverOverbooksStep, LifecycleStep PROVE Ledger!Claim
  OBVIOUS
<1> USE DEF Inv
<1>1. capacity' = capacity
  BY ActAdmin DEF admin
<1>2. \A b \in wrote[p] : b \in Bookings /\ status'[b] \in ActiveStatuses
  BY WrittenType DEF Commit
<1>3. \A b \in wrote[p] : status[b] \in ActiveStatuses \cup {"ABSENT"}
  BY <1>2, AllowedActive DEF LifecycleStep
<1>4. \A b \in Bookings \ wrote[p] : status'[b] = status[b] /\ Committed'[b] = Committed[b]
  BY DEF Commit, Committed, Active
<1>5. Final(status') = Final(status)
  BY <1>2, <1>3, <1>4 DEF Final, Statuses, ActiveStatuses
<1>6. ASSUME NEW b \in Bookings, Committed'[b] # Committed[b]
      PROVE  Committed'[b] \in Place /\ b \notin Final(status)
  <2>1. b \in wrote[p]
    BY <1>4, <1>6
  <2>2. Committed'[b] = plan[p][b]
    BY <1>6, <2>1 DEF Seen
  <2> QED
    BY <1>3, <2>1, <2>2, WrittenType DEF Final, Statuses, ActiveStatuses
<1>7. \A u \in Units, t \in Instants :
        Load(Committed', u, t) > Load(Committed, u, t) => Load(Committed', u, t) <= capacity[u]
  BY <1>1 DEF NeverOverbooksStep
<1>8. \A b \in Bookings :
        Committed'[b] # Committed[b] => Committed'[b] \in Ledger!Place /\ b \notin Final(status)
  BY <1>6, SameSlots
<1>9. \A u \in Ledger!Units, t \in Ledger!Instants :
        Ledger!Load(Committed', u, t) > Ledger!Load(Committed, u, t) =>
          Ledger!Load(Committed', u, t) <= capacity[u]
  BY <1>7, SameSlots
<1> QED
  BY <1>1, <1>5, <1>8, <1>9 DEF Ledger!Claim, Final

LEMMA LedgerTransit ==
  ASSUME Inv, NEW p \in Requests, NEW b \in Bookings, Transited(p, b)
  PROVE  Ledger!GiveBack \/ UNCHANGED Ledger!vars
<1> USE DEF Inv
<1>1. /\ place' = place /\ capacity' = capacity
      /\ status' = [status EXCEPT ![b] = call[p].to]
      /\ call[p].to \in Targets /\ status[b] \in Allowed(call[p].to)
  BY DEF Transited, admin
<1>2. status[b] \in ActiveStatuses /\ Committed[b] # NoPlace
  BY <1>1, AllowedActive, CommittedPlaces DEF Active
<1>3. \A c \in Bookings \ {b} : status'[c] = status[c] /\ Committed'[c] = Committed[c]
  BY <1>1 DEF Committed, Active
<1>4. status'[b] = call[p].to
  BY <1>1 DEF TypeOK
<1>5. CASE call[p].to = "CONFIRMED"
  <2>1. Committed' = Committed
    BY <1>1, <1>2, <1>3, <1>4, <1>5 DEF Committed, Active, ActiveStatuses
  <2>2. Final(status') = Final(status)
    BY <1>2, <1>3, <1>4, <1>5 DEF Final, ActiveStatuses
  <2> QED
    BY <1>1, <2>1, <2>2 DEF Ledger!vars, Final
<1>6. CASE call[p].to # "CONFIRMED"
  <2>1. status'[b] \in Statuses \ ActiveStatuses
    BY <1>1, <1>4, <1>6 DEF Targets, Statuses, ActiveStatuses
  <2>2. Committed' = [Committed EXCEPT ![b] = NoPlace]
    BY <1>3, <2>1 DEF Committed, Active
  <2>3. Final(status') = Final(status) \cup {b}
    BY <1>3, <2>1 DEF Final
  <2> QED
    BY <1>1, <1>2, <2>2, <2>3 DEF Ledger!GiveBack, Final
<1> QED
  BY <1>5, <1>6

LEMMA LedgerStep ==
  Inv /\ [Next]_vars => [Ledger!Next]_(Ledger!vars)
<1> SUFFICES ASSUME Inv, [Next]_vars PROVE Ledger!Next \/ UNCHANGED Ledger!vars
  OBVIOUS
<1>1. ASSUME UNCHANGED tables, UNCHANGED capacity PROVE UNCHANGED Ledger!vars
  BY <1>1 DEF tables, Ledger!vars, Committed, Active
<1>2. CASE Administer
  <2>1. UNCHANGED tables
    BY <1>2, AdminFrame
  <2>2. ASSUME NEW u \in Units, NEW n, SetCapacity(u, n) PROVE Ledger!SetCapacity
    BY <2>1, <2>2 DEF SetCapacity, Ledger!SetCapacity, tables, Committed, Active,
       Inv, TypeOK, Units, Ledger!Units
  <2>3. ASSUME NEW x, SetUsable(x) \/ SetLinked(x) PROVE UNCHANGED capacity
    BY <2>3 DEF SetUsable, SetLinked
  <2> QED
    BY <1>1, <1>2, <2>1, <2>2, <2>3 DEF Administer, Ledger!Next
<1>3. CASE UNCHANGED vars
  BY <1>1, <1>3 DEF vars, tables
<1>4. ASSUME NEW p \in Requests, Act(p) PROVE Ledger!Next \/ UNCHANGED Ledger!vars
  <2>1. CASE Commit(p)
    <3>1. Committed' = Seen(p)
      BY <1>4, <2>1, CommitSeen DEF Inv
    <3>2. Ledger!Claim \/ UNCHANGED vars
      BY <1>4, <2>1, <3>1, LedgerCommit, NeverOverbooksInv, LifecycleInv
    <3> QED
      BY <1>3, <3>2 DEF Ledger!Next
  <2>2. ASSUME NEW b \in Bookings, Transited(p, b) PROVE Ledger!Next \/ UNCHANGED Ledger!vars
    BY <2>2, LedgerTransit DEF Ledger!Next
  <2>3. CASE UNCHANGED tables
    BY <1>1, <1>4, <2>3, ActAdmin DEF admin
  <2> QED
    BY <1>4, <2>1, <2>2, <2>3, TableCases DEF Inv, Shape
<1> QED
  BY <1>2, <1>3, <1>4, NextCases

\* Seen from outside, every call is one atomic change of the ledger or none.
THEOREM Implements == Spec => ImplementsLedger
BY Invariance, LedgerInit, LedgerStep, PTL DEF Spec, ImplementsLedger, Ledger!Spec

-----------------------------------------------------------------------------
(* The audit trail.                                                        *)

\* The trail of one booking replays to its status.
Replays(b) ==
  /\ trail[b] = <<>> <=> status[b] = "ABSENT"
  /\ trail[b] # <<>> => trail[b][Len(trail[b])][2] = status[b]
  /\ \A i \in 2 .. Len(trail[b]) : trail[b][i][1] = trail[b][i - 1][2]

\* An event of the audit trail: from one status to another.
Event == (Statuses \cup {"ABSENT"}) \X Statuses

\* An event that starts where the trail ends carries it on.
LEMMA ReplaysOn ==
  ASSUME NEW b, trail[b] \in Seq(Event), Replays(b), status[b] \in Statuses \cup {"ABSENT"},
         NEW to \in Statuses, status'[b] = to,
         trail'[b] = Append(trail[b], <<status[b], to>>)
  PROVE  Replays(b)'
<1> DEFINE e == <<status[b], to>>
           n == Len(trail[b])
<1>1. e \in Event /\ e[1] = status[b] /\ e[2] = to
  BY DEF Event
<1> HIDE DEF e
<1>2. trail'[b] = Append(trail[b], e)
  BY DEF e
<1>3. /\ n \in Nat /\ Len(trail'[b]) = n + 1 /\ trail'[b][n + 1] = e
      /\ \A i \in 1 .. n : trail'[b][i] = trail[b][i]
      /\ trail'[b] # <<>>
  <2> DEFINE tr == trail[b]
  <2>1. tr \in Seq(Event)
    OBVIOUS
  <2> HIDE DEF tr
  <2>2. Len(tr) \in Nat /\ DOMAIN tr = 1 .. Len(tr)
    BY <2>1
  <2>3. Append(tr, e) \in Seq(Event) /\ Len(Append(tr, e)) = Len(tr) + 1
    BY <1>1, <2>1
  <2>4. Append(tr, e)[Len(tr) + 1] = e
    BY <1>1, <2>1
  <2>5. \A i \in 1 .. Len(tr) : Append(tr, e)[i] = tr[i]
    BY <1>1, <2>1
  <2>6. Append(tr, e) # <<>>
    BY <2>2, <2>3
  <2> QED BY <1>2, <2>2, <2>3, <2>4, <2>5, <2>6 DEF tr
<1>4. to # "ABSENT"
  BY DEF Statuses, ActiveStatuses
<1>5. ASSUME NEW i \in 2 .. (n + 1) PROVE trail'[b][i][1] = trail'[b][i - 1][2]
  <2>1. CASE i = n + 1
    <3>1. trail[b] # <<>> /\ n \in 1 .. n /\ i - 1 = n
      BY <1>3, <1>5, <2>1
    <3>2. trail[b][n][2] = status[b]
      BY <3>1 DEF Replays
    <3> QED BY <1>1, <1>3, <2>1, <3>1, <3>2
  <2>2. CASE i # n + 1
    <3>1. i \in 2 .. n /\ i \in 1 .. n /\ i - 1 \in 1 .. n
      BY <1>3, <1>5, <2>2
    <3> QED BY <1>3, <3>1 DEF Replays
  <2> QED BY <2>1, <2>2
<1> QED BY <1>1, <1>3, <1>4, <1>5 DEF Replays

LEMMA ReplaysStep == Inv /\ TrailReplays /\ [Next]_vars => TrailReplays'
<1> SUFFICES ASSUME Inv, TrailReplays, [Next]_vars, NEW b \in Bookings
             PROVE  Replays(b)'
  BY DEF TrailReplays, Replays
<1>1. Replays(b)
  BY DEF TrailReplays, Replays
<1>2. /\ trail[b] \in Seq(Event) /\ status[b] \in Statuses \cup {"ABSENT"}
      /\ trail \in [Bookings -> Seq(Event)]
  BY DEF Inv, TypeOK, Event
<1>3. CASE UNCHANGED tables
  BY <1>1, <1>3 DEF tables, Replays
<1>4. ASSUME NEW p \in Requests, Commit(p) PROVE Replays(b)'
  <2>1. CASE b \in wrote[p]
    <3>1. Written(p, b) \in Statuses
      BY <1>4, <2>1, WrittenType DEF Inv, Statuses
    <3>2. status'[b] = Written(p, b) /\ trail'[b] = Append(trail[b], <<status[b], Written(p, b)>>)
      BY <1>4, <2>1 DEF Commit
    <3> QED BY <1>1, <1>2, <3>1, <3>2, ReplaysOn
  <2>2. CASE b \notin wrote[p]
    <3>1. status'[b] = status[b] /\ trail'[b] = trail[b]
      BY <1>4, <2>2 DEF Commit
    <3> QED BY <1>1, <3>1 DEF Replays
  <2> QED BY <2>1, <2>2
<1>5. ASSUME NEW p \in Requests, NEW c \in Bookings, Transited(p, c) PROVE Replays(b)'
  <2>1. CASE c = b
    <3>1. call[p].to \in Statuses
      BY <1>5 DEF Transited, Targets, Statuses, ActiveStatuses
    <3>2. status'[b] = call[p].to /\ trail'[b] = Append(trail[b], <<status[b], call[p].to>>)
      BY <1>2, <1>5, <2>1 DEF Transited, Inv, TypeOK
    <3> QED BY <1>1, <1>2, <3>1, <3>2, ReplaysOn
  <2>2. CASE c # b
    <3>1. status'[b] = status[b] /\ trail'[b] = trail[b]
      BY <1>2, <1>5, <2>2 DEF Transited, Inv, TypeOK
    <3> QED BY <1>1, <3>1 DEF Replays
  <2> QED BY <2>1, <2>2
<1>6. CASE Administer \/ UNCHANGED vars
  BY <1>3, <1>6, AdminFrame
<1> QED
  BY <1>3, <1>4, <1>5, <1>6, NextCases, TableCases DEF Inv, Shape

\* The audit trail of every booking replays to its status, although the two
\* statuses of an event are read and written in different statements.
THEOREM TrailKept == Spec => []TrailReplays
<1>1. Init => TrailReplays
  <2> SUFFICES ASSUME Init, NEW b \in Bookings PROVE Replays(b)
    BY DEF TrailReplays, Replays
  <2>1. CASE b \in DOMAIN Existing
    <3>1. trail[b] = <<<<"ABSENT", "CONFIRMED">>>> /\ status[b] = "CONFIRMED"
      BY <2>1 DEF Init
    <3> QED BY <3>1 DEF Replays
  <2>2. CASE b \notin DOMAIN Existing
    <3>1. trail[b] = <<>> /\ status[b] = "ABSENT"
      BY <2>2 DEF Init
    <3> QED BY <3>1 DEF Replays
  <2> QED BY <2>1, <2>2
<1> QED
  BY <1>1, ReplaysStep, Invariance, PTL DEF Spec

-----------------------------------------------------------------------------
(* Deadlocks.                                                              *)

\* A call for one booking.
Single(p) == \A a, b \in call[p].ids : a = b

\* Between two steps only a transaction in the middle of its locks holds any,
\* and a call for one booking holds none of the kinds it locks later.
Ordered(p) ==
  /\ pc[p] \notin InTx \ {"row"} => \A x \in Rows : p \notin owner[x]
  /\ Single(p) /\ pc[p] \in {"shared", "staff"} => \A u \in Units : p \notin owner[u]
  /\ Single(p) /\ pc[p] = "resource" => \A u \in Resources : p \notin owner[u]
  /\ pc[p] = "resource" => Target(p).resource # NoResource
AllOrdered == \A p \in Requests : Ordered(p)

LEMMA OrderedRollback ==
  ASSUME TypeOK, NEW p \in Requests, Rollback(p) PROVE Ordered(p)'
<1>1. pc'[p] = "refused" /\ \A x \in Rows : p \notin owner'[x]
  BY DEF Rollback, TypeOK
<1> QED BY <1>1 DEF Ordered, InTx

LEMMA OrderedAct ==
  ASSUME Inv, NEW p \in Requests, Ordered(p), Act(p) PROVE Ordered(p)'
<1>0. TypeOK /\ ShapeOf(p)
  BY DEF Inv, Shape
<1>1. CASE Call(p)
  <2>1. /\ pc[p] = "idle" /\ owner' = owner
        /\ pc'[p] \in {"shared", "row", "update"}
    BY <1>0, <1>1 DEF Call, CheckCreate, CheckReschedule, CheckTransition, TypeOK
  <2>2. \A x \in Rows : p \notin owner'[x]
    BY <2>1 DEF Ordered, InTx
  <2> QED BY <2>1, <2>2, RowTypes DEF Ordered, Units
<1>2. CASE LockRow(p)
  <2>1. CASE Rollback(p)
    BY <1>0, <2>1, OrderedRollback
  <2>2. CASE ~ Rollback(p)
    <3>1. pc[p] = "row" /\ Lock(p, {Current(p)}) /\ Goto(p, "shared")
      BY <1>2, <2>2 DEF LockRow
    <3>2. Current(p) \in Bookings /\ pc'[p] = "shared"
      BY <1>0, <3>1, CurrentTodo DEF Goto, TypeOK, InTx
    <3>3. \A u \in Units : p \notin owner'[u]
      BY <3>1, <3>2, RowTypes, RowsAssumption DEF Ordered, Lock, InTx
    <3> QED BY <3>2, <3>3 DEF Ordered, InTx
  <2> QED BY <2>1, <2>2
<1>3. CASE LockShared(p)
  <2>1. CASE Rollback(p)
    BY <1>0, <2>1, OrderedRollback
  <2>2. CASE ~ Rollback(p)
    <3>1. pc[p] = "shared" /\ Lock(p, SharedRows(p)) /\ Goto(p, "staff")
      BY <1>3, <2>2 DEF LockShared
    <3>2. pc'[p] = "staff" /\ call' = call
      BY <1>0, <3>1 DEF Goto, TypeOK
    <3>3. Single(p) => \A u \in Units : p \notin owner'[u]
      BY <1>0, <3>1, RowTypes, SharedRowsType DEF Ordered, Lock
    <3> QED BY <3>2, <3>3 DEF Ordered, InTx, Single
  <2> QED BY <2>1, <2>2
<1>4. CASE LockStaff(p)
  <2>1. CASE Rollback(p)
    BY <1>0, <2>1, OrderedRollback
  <2>2. CASE ~ Rollback(p)
    <3>1. PICK label \in {"count", "resource"} :
            pc[p] = "staff" /\ Lock(p, {Target(p).staff}) /\ Goto(p, label)
      BY <1>4, <2>2 DEF LockStaff
    <3>2. pc'[p] = label /\ call' = call
      BY <1>0, <3>1 DEF Goto, TypeOK
    <3>3. Target(p).staff \in Staff
      BY <1>0, <3>1, CurrentTodo DEF InTx, Place
    <3>4. Single(p) => \A u \in Resources : p \notin owner'[u]
      BY <3>1, <3>3, RowTypes, UnitsAssumption DEF Ordered, Lock, Units
    <3>5. label = "resource" => Target(p).resource # NoResource
      BY <1>4, <2>2, <3>1, <3>2, <1>0 DEF LockStaff, Goto, TypeOK
    <3>6. Target(p)' = Target(p)
      BY <3>1, SameTarget DEF Goto
    <3> QED BY <3>2, <3>4, <3>5, <3>6 DEF Ordered, InTx, Single
  <2> QED BY <2>1, <2>2
<1>5. CASE LockResource(p)
  <2>1. CASE Rollback(p)
    BY <1>0, <2>1, OrderedRollback
  <2>2. CASE ~ Rollback(p)
    <3>1. pc'[p] = "count"
      BY <1>0, <1>5, <2>2 DEF LockResource, Goto, TypeOK
    <3> QED BY <3>1 DEF Ordered, InTx
  <2> QED BY <2>1, <2>2
<1>6. CASE CountAndWrite(p)
  <2>1. CASE Rollback(p)
    BY <1>0, <2>1, OrderedRollback
  <2>2. CASE ~ Rollback(p)
    <3>1. /\ pc[p] = "count" /\ call' = call
          /\ pc'[p] = IF Todo(p) = {Current(p)} THEN "commit" ELSE "shared"
      BY <1>0, <1>6, <2>2 DEF CountAndWrite, TypeOK
    <3>2. Single(p) => pc'[p] = "commit"
      <4>1. Current(p) \in Todo(p)
        BY <1>0, <3>1, CurrentTodo DEF InTx, Todo
      <4> QED BY <3>1, <4>1 DEF Single, Todo
    <3> QED BY <3>1, <3>2 DEF Ordered, InTx, Single
  <2> QED BY <2>1, <2>2
<1>7. CASE Commit(p)
  <2>1. pc'[p] = "done" /\ \A x \in Rows : p \notin owner'[x]
    BY <1>0, <1>7 DEF Commit, TypeOK
  <2> QED BY <2>1 DEF Ordered, InTx
<1>8. CASE TransitionStatus(p)
  <2>1. CASE Rollback(p)
    BY <1>0, <2>1, OrderedRollback
  <2>2. ASSUME NEW b \in Bookings, Transited(p, b) PROVE Ordered(p)'
    <3>1. pc[p] = "update" /\ owner' = owner /\ pc'[p] = "done"
      BY <1>0, <2>2 DEF Transited, TypeOK
    <3> QED BY <3>1 DEF Ordered, InTx
  <2> QED BY <1>0, <1>8, <2>1, <2>2, TransitionCases
<1>9. CASE DeadlockVictim(p) \/ ConnectionLost(p)
  BY <1>0, <1>9, OrderedRollback DEF DeadlockVictim, ConnectionLost
<1> QED
  BY <1>1, <1>2, <1>3, <1>4, <1>5, <1>6, <1>7, <1>8, <1>9 DEF Act, Step

LEMMA OrderedSame ==
  ASSUME NEW q, Ordered(q), Same(q) PROVE Ordered(q)'
BY RowTypes, SameTarget DEF Ordered, Same, Single, Units

LEMMA OrderedStep == Inv /\ AllOrdered /\ [Next]_vars => AllOrdered'
<1> SUFFICES ASSUME Inv, AllOrdered, [Next]_vars, NEW q \in Requests PROVE Ordered(q)'
  BY DEF AllOrdered
<1>1. Ordered(q)
  BY DEF AllOrdered
<1>2. ASSUME NEW p \in Requests, Act(p) PROVE Ordered(q)'
  BY <1>1, <1>2, OrderedAct, OrderedSame, Frame DEF Inv
<1>3. CASE Administer \/ UNCHANGED vars
  <2>1. Same(q)
    BY <1>3, AdminFrame DEF Same
  <2> QED BY <1>1, <2>1, OrderedSame
<1> QED BY <1>2, <1>3, NextCases

\* How far a waiting call has come in the order of the locks.
Level(p) == CASE pc[p] = "resource" -> 3 [] pc[p] = "staff" -> 2 [] OTHER -> 1

\* Whoever a call for one booking waits for has come further, if it waits too.
LEMMA WaitsUpwards ==
  ASSUME Inv, AllOrdered, NEW p \in Requests, NEW q \in WaitsFor(p) \cap Requests,
         Single(q), WaitsFor(q) # {}
  PROVE  Level(q) > Level(p)
<1>0. TypeOK /\ ShapeOf(p) /\ Ordered(q) /\ ShapeOf(q)
  BY DEF Inv, Shape, AllOrdered
<1>1. PICK x \in Wanted(p) : q \in owner[x]
  BY DEF WaitsFor
<1>2. pc[q] \in {"row", "staff", "resource", "update"}
  BY DEF WaitsFor, Wanted
<1>3. pc[p] \in {"row", "staff", "resource", "update"}
  BY <1>1 DEF Wanted
<1>4. x \in Rows
  <2>1. CASE pc[p] = "update"
    BY <1>0, <1>1, <2>1, RowTypes DEF Wanted, TypeOK, Calls
  <2>2. CASE pc[p] = "row"
    BY <1>0, <1>1, <2>2, CurrentTodo, RowTypes DEF Wanted, InTx
  <2>3. CASE pc[p] = "staff"
    BY <1>0, <1>1, <2>3, CurrentTodo, RowTypes DEF Wanted, InTx, Occupies
  <2>4. CASE pc[p] = "resource"
    <3>1. x = Target(p).resource /\ Target(p) \in Place
      BY <1>0, <1>1, <2>4, CurrentTodo DEF Wanted, InTx
    <3>2. CASE x # NoResource
      BY <3>1, <3>2, RowTypes DEF Place, Units
    <3>3. x # NoResource
      BY <2>4, <3>1 DEF Ordered, AllOrdered
    <3> QED BY <3>2, <3>3
  <2> QED BY <1>3, <2>1, <2>2, <2>3, <2>4
<1>5. pc[q] \in {"staff", "resource"}
  BY <1>0, <1>1, <1>2, <1>4 DEF Ordered, InTx
<1>6. CASE pc[p] \in {"row", "update"}
  BY <1>5, <1>6 DEF Level
<1>7. CASE pc[p] = "staff"
  <2>1. x \in Units
    BY <1>0, <1>1, <1>7, CurrentTodo DEF Wanted, InTx, Occupies
  <2>2. pc[q] = "resource"
    BY <1>0, <1>1, <1>5, <2>1 DEF Ordered
  <2> QED BY <1>7, <2>2 DEF Level
<1>8. pc[p] # "resource"
  <2> SUFFICES ASSUME pc[p] = "resource" PROVE FALSE
    OBVIOUS
  <2>1. x = Target(p).resource /\ Target(p) \in Place /\ x # NoResource
    BY <1>0, <1>1, CurrentTodo DEF Wanted, InTx, Ordered, AllOrdered
  <2>2. x \in Resources /\ x \in Units
    BY <2>1 DEF Place, Units
  <2> QED BY <1>0, <1>1, <1>5, <2>2 DEF Ordered
<1> QED BY <1>3, <1>6, <1>7, <1>8
\* A set of bookings that is not a batch has at most one element.
LEMMA SmallIsSingle ==
  ASSUME TypeOK, NEW p \in Requests, ~ (Cardinality(call[p].ids) > 1)
  PROVE  Single(p)
<1> SUFFICES ASSUME NEW a \in call[p].ids, NEW b \in call[p].ids, a # b PROVE FALSE
  BY DEF Single
<1>1. call[p].ids \subseteq Bookings /\ IsFiniteSet(Bookings)
  BY BookingsAssumption DEF TypeOK, Calls
<1>2. IsFiniteSet(call[p].ids) /\ Cardinality(call[p].ids) \in Nat
  BY <1>1, FS_Subset, FS_CardinalityType
<1>3. Cardinality({a}) = 1 /\ IsFiniteSet({a})
  BY FS_Singleton
<1>4. Cardinality({a} \cup {b}) = 2
  <2>1. b \notin {a}
    OBVIOUS
  <2>2. Cardinality({a} \cup {b}) =
          IF b \in {a} THEN Cardinality({a}) ELSE Cardinality({a}) + 1
    BY <1>3, FS_AddElement, Zenon
  <2>3. Cardinality({a} \cup {b}) = Cardinality({a}) + 1
    BY <2>1, <2>2, Zenon
  <2>4. 1 + 1 = 2
    OBVIOUS
  <2> QED BY <1>3, <2>3, <2>4
<1>5. Cardinality({a} \cup {b}) <= Cardinality(call[p].ids)
  BY <1>2, FS_Subset
<1> QED BY <1>2, <1>4, <1>5

\* A knot without a batch would climb the three levels for ever.
LEMMA KnotHasBatch == Inv /\ AllOrdered => DeadlockNeedsBatch
<1> SUFFICES ASSUME Inv, AllOrdered, NEW S \in SUBSET Requests, Knot(S),
                    \A p \in S : ~ (Cardinality(call[p].ids) > 1)
             PROVE  FALSE
  BY DEF DeadlockNeedsBatch
<1>1. ASSUME NEW p \in S
      PROVE  \E q \in S : Level(q) > Level(p)
  <2>1. PICK q \in WaitsFor(p) \cap S : TRUE
    BY DEF Knot
  <2>2. Single(q) /\ WaitsFor(q) # {} /\ q \in Requests
    BY <2>1, SmallIsSingle DEF Knot, Inv
  <2> QED BY <2>1, <2>2, WaitsUpwards
<1>2. \A p \in S : Level(p) \in 1 .. 3
  BY DEF Level
<1>3. PICK a \in S : TRUE
  BY DEF Knot
<1>4. PICK b \in S : Level(b) > Level(a)
  BY <1>1
<1>5. PICK c \in S : Level(c) > Level(b)
  BY <1>1
<1>6. PICK d \in S : Level(d) > Level(c)
  BY <1>1
<1> QED BY <1>2, <1>4, <1>5, <1>6

\* Every knot of waiting transactions contains a batch: calls for one booking
\* take the booking, the staff member and the resource in a fixed order.
THEOREM KnotsNeedBatches == Spec => []DeadlockNeedsBatch
<1>1. Init => AllOrdered
  BY RowTypes DEF Init, AllOrdered, Ordered, InTx
<1> QED
  BY <1>1, OrderedStep, KnotHasBatch, Invariance, PTL DEF Spec
=============================================================================
