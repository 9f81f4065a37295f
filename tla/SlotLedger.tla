----------------------------- MODULE SlotLedger -----------------------------
(***************************************************************************)
(* What the booking subsystem promises the rest of the product, with no    *)
(* requests, transactions or locks in it: a ledger of who holds which      *)
(* place.  Claiming, moving and giving back are atomic; a claim or a move  *)
(* never loads a unit beyond its capacity; what was given back is never    *)
(* claimed again.                                                          *)
(***************************************************************************)
EXTENDS Slots

VARIABLES held,       \* the place of each booking, NoPlace when it holds none
          spent,      \* bookings cancelled, completed or marked no-show
          capacity    \* capacity of each staff member and resource

vars == <<held, spent, capacity>>

Init ==
  /\ held \in [Bookings -> Place \cup {NoPlace}]
  /\ spent \in SUBSET {b \in Bookings : held[b] = NoPlace}
  /\ capacity \in [Units -> Nat]

\* One atomic change of any number of places: a create, a batch, a reschedule.
Claim ==
  /\ \A b \in Bookings :
       held'[b] # held[b] => held'[b] \in Place /\ b \notin spent
  /\ \A u \in Units, t \in Instants :
       Load(held', u, t) > Load(held, u, t) => Load(held', u, t) <= capacity[u]
  /\ UNCHANGED <<spent, capacity>>

GiveBack ==
  \E b \in Bookings :
    /\ held[b] # NoPlace
    /\ held' = [held EXCEPT ![b] = NoPlace]
    /\ spent' = spent \cup {b}
    /\ UNCHANGED capacity

\* An administrator sets a capacity; bookings already made are left alone.
SetCapacity ==
  \E u \in Units :
    /\ \A v \in Units \ {u} : capacity'[v] = capacity[v]
    /\ UNCHANGED <<held, spent>>

Next == Claim \/ GiveBack \/ SetCapacity

Spec == Init /\ [][Next]_vars
=============================================================================
