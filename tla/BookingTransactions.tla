------------------------ MODULE BookingTransactions ------------------------
(***************************************************************************)
(* BookingService and its PostgreSQL repository: every channel (dashboard, *)
(* web, WhatsApp, AI tools) ends in these calls.  A call first asks the    *)
(* availability engine, without any lock, for a candidate; then it opens a *)
(* READ COMMITTED transaction that takes row locks one by one, counts the  *)
(* bookings it can see, and writes.  Administrators edit staff, resources, *)
(* services and customers, and connections are lost, in between.           *)
(*                                                                         *)
(* One service is modelled; what the availability engine computes beyond   *)
(* capacity (hours, blocks, policy) is left open: it only narrows the      *)
(* candidates a call may start with.                                       *)
(***************************************************************************)
EXTENDS Slots, Sequences

CONSTANTS Requests,    \* service calls in flight, each made once
          Fresh,       \* Fresh[p]: the ids the rows inserted by p get
          Existing,    \* bookings already in the table: id |-> place
          Customers,   \* customers who book by themselves (WHATSAPP, WEB)
          NoCustomer,  \* a booking made by the staff of the business
          Service,     \* the row of services
          MaxCapacity, \* bound on the capacities an administrator sets
          AdminOps     \* bound: the administrator's edits that may happen

ASSUME RequestsAssumption ==
  /\ Fresh \in [Requests -> SUBSET (Bookings \ DOMAIN Existing)]
  /\ \A p, q \in Requests : p # q => Fresh[p] \cap Fresh[q] = {}

ASSUME ExistingAssumption ==
  /\ DOMAIN Existing \subseteq Bookings
  /\ \A b \in DOMAIN Existing : Existing[b] \in Place

ASSUME RowsAssumption ==
  /\ NoCustomer \notin Customers
  /\ Customers \cap Units = {}
  /\ Service \notin Units \cup Customers \cup Bookings
  /\ Bookings \cap (Units \cup Customers) = {}

ASSUME BoundsAssumption ==
  /\ MaxCapacity \in Nat \ {0}
  /\ AdminOps \subseteq {"capacity", "usable", "links"}

VARIABLES status,    \* bookings.status, "ABSENT" before the insert
          place,     \* bookings.staff_id, resource_id, effective window
          trail,     \* booking_audit_events: <<from_status, to_status>>
          capacity,  \* staff_profiles.booking_capacity, resources.capacity
          usable,    \* active; for a customer: may book by himself
          linked,    \* staff_services and resource_services
          owner,     \* owner[x]: the transactions that hold a lock on row x
          pc,        \* where each call is
          call,      \* what each call was asked to do
          plan,      \* plan[p][b]: the candidate p chose for booking b
          wrote      \* rows written by p's transaction, not yet committed

tables == <<status, place, trail>>
admin == <<capacity, usable, linked>>
vars == <<status, place, trail, capacity, usable, linked,
          owner, pc, call, plan, wrote>>
-----------------------------------------------------------------------------
ActiveStatuses == {"PENDING", "CONFIRMED"}
Statuses == ActiveStatuses \cup {"CANCELLED", "COMPLETED", "NO_SHOW"}

\* The statuses from which a booking may go to `to'.
Allowed(to) ==
  CASE to = "CONFIRMED" -> {"PENDING"}
    [] to = "CANCELLED" -> {"PENDING", "CONFIRMED"}
    [] to = "COMPLETED" -> {"CONFIRMED"}
    [] to = "NO_SHOW"   -> {"CONFIRMED"}

Targets == {"CONFIRMED", "CANCELLED", "COMPLETED", "NO_SHOW"}

Guarded == Units \cup {Service} \cup Customers
Rows == Guarded \cup Bookings

Active(b) == status[b] \in ActiveStatuses

\* The calendar everyone sees, and the one p's own transaction sees.
Committed == [b \in Bookings |-> IF Active(b) THEN place[b] ELSE NoPlace]
Seen(p) == [b \in Bookings |-> IF b \in wrote[p] THEN plan[p][b] ELSE Committed[b]]

NoCall == [kind |-> "none", ids |-> {}, to |-> "PENDING", customer |-> NoCustomer]
Calls == [kind : {"none", "create", "reschedule", "transition"},
          ids : SUBSET Bookings, to : Statuses, customer : Customers \cup {NoCustomer}]

InTx == {"row", "shared", "staff", "resource", "count", "commit"}
Ended == {"done", "refused"}

Init ==
  /\ status = [b \in Bookings |-> IF b \in DOMAIN Existing THEN "CONFIRMED" ELSE "ABSENT"]
  /\ place = [b \in Bookings |-> IF b \in DOMAIN Existing THEN Existing[b] ELSE NoPlace]
  /\ trail = [b \in Bookings |->
                IF b \in DOMAIN Existing THEN <<<<"ABSENT", "CONFIRMED">>>> ELSE <<>>]
  /\ capacity \in [Units -> 1 .. MaxCapacity]
  /\ usable = [x \in Guarded |-> TRUE]
  /\ linked = Units
  /\ owner = [x \in Rows |-> {}]
  /\ pc = [p \in Requests |-> "idle"]
  /\ call = [p \in Requests |-> NoCall]
  /\ plan = [p \in Requests |-> [b \in Bookings |-> NoPlace]]
  /\ wrote = [p \in Requests |-> {}]
-----------------------------------------------------------------------------
(* The unlocked part of a call: AvailabilityEngine.check and the reads of   *)
(* BookingService.  A call that finds no candidate ends here, unseen.       *)

\* A candidate for booking b: every unit in service and below its capacity.
Available(b, pl) ==
  /\ usable[Service]
  /\ \A u \in Occupies(pl) :
       /\ usable[u]
       /\ u \in linked
       /\ Cardinality(Crowd(Committed, u, pl.window) \ {b}) < capacity[u]

\* create and createManualBatch.  Each date of a batch is checked on its own,
\* against the committed calendar only; only staff may send several dates.
CheckCreate(p) ==
  \E ids \in (SUBSET Fresh[p]) \ {{}}, customer \in Customers \cup {NoCustomer},
     first \in ActiveStatuses :
    /\ pc[p] = "idle"
    /\ Cardinality(ids) > 1 => customer = NoCustomer
    /\ \E chosen \in [ids -> Place] :
         /\ \A b \in ids : Available(b, chosen[b])
         /\ plan' = [plan EXCEPT ![p] =
                       [b \in Bookings |-> IF b \in ids THEN chosen[b] ELSE NoPlace]]
    /\ call' = [call EXCEPT ![p] = [kind |-> "create", ids |-> ids,
                                    to |-> first, customer |-> customer]]
    /\ pc' = [pc EXCEPT ![p] = "shared"]
    /\ UNCHANGED <<tables, admin, owner, wrote>>

\* reschedule: reads the booking, then asks for a candidate that ignores it.
CheckReschedule(p) ==
  \E b \in Bookings, pl \in Place :
    /\ pc[p] = "idle"
    /\ Active(b)
    /\ Available(b, pl)
    /\ plan' = [plan EXCEPT ![p][b] = pl]
    /\ call' = [call EXCEPT ![p] = [kind |-> "reschedule", ids |-> {b},
                                    to |-> status[b], customer |-> NoCustomer]]
    /\ pc' = [pc EXCEPT ![p] = "row"]
    /\ UNCHANGED <<tables, admin, owner, wrote>>

\* transition: confirm, complete, noShow, and cancel when its deadline allows.
CheckTransition(p) ==
  \E b \in Bookings, to \in Targets :
    /\ pc[p] = "idle"
    /\ status[b] \in Allowed(to)
    /\ call' = [call EXCEPT ![p] = [kind |-> "transition", ids |-> {b},
                                    to |-> to, customer |-> NoCustomer]]
    /\ pc' = [pc EXCEPT ![p] = "update"]
    /\ UNCHANGED <<tables, admin, owner, plan, wrote>>
-----------------------------------------------------------------------------
(* Inside the transaction.                                                  *)

\* Mutated form: the client goes back to the pool without a ROLLBACK.
RollbackForgotten(p) ==
  /\ pc' = [pc EXCEPT ![p] = "refused"]
  /\ wrote' = [wrote EXCEPT ![p] = {}]
  /\ UNCHANGED <<tables, admin, owner, call, plan>>

\* ROLLBACK: the locks go, the written rows were never visible.
Rollback(p) ==
  /\ pc' = [pc EXCEPT ![p] = "refused"]
  /\ owner' = [x \in Rows |-> owner[x] \ {p}]
  /\ wrote' = [wrote EXCEPT ![p] = {}]
  /\ UNCHANGED <<tables, admin, call, plan>>

Lock(p, rows) ==
  owner' = [x \in Rows |-> IF x \in rows THEN owner[x] \cup {p} ELSE owner[x]]

\* FOR UPDATE waits until nobody else holds the row.
Grantable(p, x) == owner[x] \subseteq {p}

Goto(p, label) ==
  /\ pc' = [pc EXCEPT ![p] = label]
  /\ UNCHANGED <<tables, admin, call, plan, wrote>>

\* The row the transaction works on.  The ids of a batch are interchangeable
\* until their places are chosen, so a fixed order of them loses nothing.
Todo(p) == call[p].ids \ wrote[p]
Current(p) == CHOOSE b \in Todo(p) : TRUE
Target(p) == plan[p][Current(p)]

\* rescheduleWithConflictGuard starts with the booking row and reads it again.
LockRow(p) ==
  /\ pc[p] = "row"
  /\ Grantable(p, Current(p))
  /\ IF Active(Current(p))
     THEN Lock(p, {Current(p)}) /\ Goto(p, "shared")
     ELSE Rollback(p)

\* The rows read FOR SHARE: the service, and the customer when he books himself.
SharedRows(p) ==
  {Service} \cup (IF call[p].customer = NoCustomer THEN {} ELSE {call[p].customer})

\* Mutated form: plain SELECTs instead of FOR SHARE.
LockSharedUnlocked(p) ==
  /\ pc[p] = "shared"
  /\ IF \A x \in SharedRows(p) : usable[x] THEN Lock(p, {}) /\ Goto(p, "staff")
                                           ELSE Rollback(p)

\* assertCustomerSelfBookable, then the service: editors wait, readers do not.
LockShared(p) ==
  /\ pc[p] = "shared"
  /\ IF \A x \in SharedRows(p) : usable[x]
     THEN Lock(p, SharedRows(p)) /\ Goto(p, "staff")
     ELSE Rollback(p)

\* Mutated form: the staff row is read without FOR UPDATE.
LockStaffUnlocked(p) ==
  /\ pc[p] = "staff"
  /\ IF usable[Target(p).staff] /\ Target(p).staff \in linked
     THEN /\ Lock(p, {})
          /\ Goto(p, IF Target(p).resource = NoResource THEN "count" ELSE "resource")
     ELSE Rollback(p)

\* Mutated form: a reschedule locks the resource before the staff member.
LockStaffSwapped(p) ==
  /\ pc[p] = "staff"
  /\ IF /\ call[p].kind = "reschedule"
        /\ Target(p).resource # NoResource
        /\ p \notin owner[Target(p).resource]
     THEN /\ Grantable(p, Target(p).resource)
          /\ Lock(p, {Target(p).resource})
          /\ Goto(p, "staff")
     ELSE /\ Grantable(p, Target(p).staff)
          /\ Lock(p, {Target(p).staff})
          /\ Goto(p, IF Target(p).resource = NoResource THEN "count" ELSE "resource")

LockStaff(p) ==
  /\ pc[p] = "staff"
  /\ Grantable(p, Target(p).staff)
  /\ IF usable[Target(p).staff] /\ Target(p).staff \in linked
     THEN /\ Lock(p, {Target(p).staff})
          /\ Goto(p, IF Target(p).resource = NoResource THEN "count" ELSE "resource")
     ELSE Rollback(p)

LockResource(p) ==
  /\ pc[p] = "resource"
  /\ Grantable(p, Target(p).resource)
  /\ IF usable[Target(p).resource] /\ Target(p).resource \in linked
     THEN Lock(p, {Target(p).resource}) /\ Goto(p, "count")
     ELSE Rollback(p)

\* Mutated form: the counts do not see the rows this transaction inserted.
HasRoomCommitted(p) ==
  \A u \in Occupies(Target(p)) :
    Cardinality(Crowd(Committed, u, Target(p).window) \ {Current(p)}) < capacity[u]

\* The two busy counts, then the INSERT or UPDATE inside the transaction.
HasRoom(p) ==
  \A u \in Occupies(Target(p)) :
    Cardinality(Crowd(Seen(p), u, Target(p).window) \ {Current(p)}) < capacity[u]

\* Mutated form: a batch skips the date that does not fit instead of failing.
CountAndWriteSkipping(p) ==
  /\ pc[p] = "count"
  /\ IF HasRoom(p)
     THEN /\ wrote' = [wrote EXCEPT ![p] = @ \cup {Current(p)}]
          /\ pc' = [pc EXCEPT ![p] = IF Todo(p) = {Current(p)} THEN "commit" ELSE "shared"]
          /\ UNCHANGED <<tables, admin, owner, call, plan>>
     ELSE IF wrote[p] # {} THEN Goto(p, "commit") /\ UNCHANGED owner ELSE Rollback(p)

CountAndWrite(p) ==
  /\ pc[p] = "count"
  /\ IF HasRoom(p)
     THEN /\ wrote' = [wrote EXCEPT ![p] = @ \cup {Current(p)}]
          /\ pc' = [pc EXCEPT ![p] = IF Todo(p) = {Current(p)} THEN "commit" ELSE "shared"]
          /\ UNCHANGED <<tables, admin, owner, call, plan>>
     ELSE Rollback(p)

\* The status of a written row: as asked for an insert, unchanged for a move.
Written(p, b) == IF call[p].kind = "create" THEN call[p].to ELSE status[b]

\* Mutated form: the audit row of a move quotes the status read before BEGIN.
CommitStaleAudit(p) ==
  /\ pc[p] = "commit"
  /\ status' = [b \in Bookings |-> IF b \in wrote[p] THEN Written(p, b) ELSE status[b]]
  /\ place' = [b \in Bookings |-> IF b \in wrote[p] THEN plan[p][b] ELSE place[b]]
  /\ trail' = [b \in Bookings |->
                 IF b \notin wrote[p] THEN trail[b]
                 ELSE IF call[p].kind = "create" THEN <<<<"ABSENT", call[p].to>>>>
                 ELSE Append(trail[b], <<call[p].to, call[p].to>>)]
  /\ pc' = [pc EXCEPT ![p] = "done"]
  /\ owner' = [x \in Rows |-> owner[x] \ {p}]
  /\ wrote' = [wrote EXCEPT ![p] = {}]
  /\ UNCHANGED <<admin, call, plan>>

\* Mutated form: the audit row is written with its two statuses swapped.
CommitSwappedAudit(p) ==
  /\ pc[p] = "commit"
  /\ status' = [b \in Bookings |-> IF b \in wrote[p] THEN Written(p, b) ELSE status[b]]
  /\ place' = [b \in Bookings |-> IF b \in wrote[p] THEN plan[p][b] ELSE place[b]]
  /\ trail' = [b \in Bookings |->
                 IF b \in wrote[p] THEN Append(trail[b], <<Written(p, b), status[b]>>)
                                   ELSE trail[b]]
  /\ pc' = [pc EXCEPT ![p] = "done"]
  /\ owner' = [x \in Rows |-> owner[x] \ {p}]
  /\ wrote' = [wrote EXCEPT ![p] = {}]
  /\ UNCHANGED <<admin, call, plan>>

Commit(p) ==
  /\ pc[p] = "commit"
  /\ status' = [b \in Bookings |-> IF b \in wrote[p] THEN Written(p, b) ELSE status[b]]
  /\ place' = [b \in Bookings |-> IF b \in wrote[p] THEN plan[p][b] ELSE place[b]]
  /\ trail' = [b \in Bookings |->
                 IF b \in wrote[p] THEN Append(trail[b], <<status[b], Written(p, b)>>)
                                   ELSE trail[b]]
  /\ pc' = [pc EXCEPT ![p] = "done"]
  /\ owner' = [x \in Rows |-> owner[x] \ {p}]
  /\ wrote' = [wrote EXCEPT ![p] = {}]
  /\ UNCHANGED <<admin, call, plan>>

\* Mutated form: the status checked by the service is not checked again.
TransitionStatusUnchecked(p) ==
  LET b == CHOOSE x \in call[p].ids : TRUE
  IN /\ pc[p] = "update"
     /\ Grantable(p, b)
     /\ status' = [status EXCEPT ![b] = call[p].to]
     /\ trail' = [trail EXCEPT ![b] = Append(@, <<status[b], call[p].to>>)]
     /\ pc' = [pc EXCEPT ![p] = "done"]
     /\ UNCHANGED <<place, admin, owner, call, plan, wrote>>

\* transitionStatus takes one lock only, so the whole transaction is one step.
TransitionStatus(p) ==
  LET b == CHOOSE x \in call[p].ids : TRUE
      to == call[p].to
  IN /\ pc[p] = "update"
     /\ Grantable(p, b)
     /\ IF status[b] \in Allowed(to)
        THEN /\ status' = [status EXCEPT ![b] = to]
             /\ trail' = [trail EXCEPT ![b] = Append(@, <<status[b], to>>)]
             /\ pc' = [pc EXCEPT ![p] = "done"]
             /\ UNCHANGED <<place, admin, owner, call, plan, wrote>>
        ELSE Rollback(p)
-----------------------------------------------------------------------------
(* The row a transaction is waiting to lock, and who is in its way.         *)
Wanted(p) ==
  CASE pc[p] = "row"      -> {Current(p)}
    [] pc[p] = "staff"    -> {Target(p).staff}
    [] pc[p] = "resource" -> {Target(p).resource}
    [] pc[p] = "update"   -> call[p].ids
    [] OTHER              -> {}

WaitsFor(p) == UNION {owner[x] \ {p} : x \in Wanted(p)}

\* A knot: everyone in S waits for someone in S.
Knot(S) == S # {} /\ \A q \in S : WaitsFor(q) \cap S # {}

\* PostgreSQL finds the knot and makes one of its members fail (40P01).
DeadlockVictim(p) ==
  /\ \E S \in SUBSET Requests : p \in S /\ Knot(S)
  /\ Rollback(p)

\* The process or its connection dies: PostgreSQL rolls the transaction back.
ConnectionLost(p) ==
  /\ pc[p] \in InTx \cup {"update"}
  /\ Rollback(p)

\* updateStaff, updateResource: a single UPDATE, which waits for row locks.
SetCapacity(u, n) ==
  /\ "capacity" \in AdminOps
  /\ owner[u] = {}
  /\ capacity' = [capacity EXCEPT ![u] = n]
  /\ UNCHANGED <<tables, usable, linked, owner, pc, call, plan, wrote>>

\* (De)activating a staff member, resource or service, blacklisting a customer.
SetUsable(x) ==
  /\ "usable" \in AdminOps
  /\ owner[x] = {}
  /\ usable' = [usable EXCEPT ![x] = ~@]
  /\ UNCHANGED <<tables, capacity, linked, owner, pc, call, plan, wrote>>

\* setStaffServices, setServices: rows of the link tables come or go.  A new
\* link needs a key lock on the unit's row; removing one needs no lock at all.
SetLinked(u) ==
  /\ "links" \in AdminOps
  /\ \/ u \notin linked /\ owner[u] = {} /\ linked' = linked \cup {u}
     \/ linked' = linked \ {u}
  /\ UNCHANGED <<tables, capacity, usable, owner, pc, call, plan, wrote>>
-----------------------------------------------------------------------------
Call(p) == CheckCreate(p) \/ CheckReschedule(p) \/ CheckTransition(p)

Step(p) == \/ LockRow(p) \/ LockShared(p) \/ LockStaff(p) \/ LockResource(p)
           \/ CountAndWrite(p) \/ Commit(p) \/ TransitionStatus(p)

Administer == \/ \E u \in Units, n \in 1 .. MaxCapacity : SetCapacity(u, n)
              \/ \E x \in Guarded : SetUsable(x)
              \/ \E u \in Units : SetLinked(u)

\* Every call that was made has been answered.
Answered == /\ \A p \in Requests : pc[p] \in Ended \cup {"idle"}
            /\ UNCHANGED vars

Next == \/ \E p \in Requests : Call(p) \/ Step(p) \/ DeadlockVictim(p) \/ ConnectionLost(p)
        \/ Administer
        \/ Answered

Spec == Init /\ [][Next]_vars

\* The server runs every call it accepted; PostgreSQL breaks every deadlock.
FairSpec ==
  /\ Spec
  /\ \A p \in Requests : WF_vars(Step(p)) /\ WF_vars(DeadlockVictim(p))
=============================================================================
