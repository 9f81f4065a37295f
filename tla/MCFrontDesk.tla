---------------------------- MODULE MCFrontDesk ----------------------------
(* Small instances of FrontDesk for TLC.                                   *)
EXTENDS FrontDesk, TLC

CONSTANTS v1, r1, c1, c2
Symmetry == Permutations({c1, c2})

\* Days of six units, the second of which begins at 1; two hairdressers, 1 and
\* 2, and a chair, 10.  The first rests in the second hour of every morning up
\* to that day, has a meeting in an imported calendar, and takes nobody who
\* comes the same day; the second comes in for that day only.
Cut == [active |-> TRUE, duration |-> 2, bufferBefore |-> 0, bufferAfter |-> 0,
        staff |-> {1, 2}, resources |-> {10}]
Plain ==
  [policy |-> [minimumLead |-> 1, bookingHorizonDays |-> 2, slotInterval |-> 2,
               sameDayCutoff |-> 0],
   services |-> [cut |-> Cut],
   capacity |-> [u \in {1, 2, 10} |-> 1],
   hours |-> {[staff |-> 1, weekday |-> d, from |-> 0, to |-> 6] : d \in 0 .. 6},
   overrides |-> {[staff |-> 2, date |-> 1, off |-> FALSE, from |-> 2, to |-> 5]},
   away |-> {}, blacklisted |-> FALSE,
   external |-> {[unit |-> 1, window |-> [from |-> 5, to |-> 6]]},
   blocks |-> {[scope |-> "STAFF", unit |-> 1, from |-> -3, to |-> -2, step |-> Day,
                until |-> 3]}]

\* The shop closes for the early morning, the second hairdresser leaves early,
\* and the visitor is blacklisted.
Stopped ==
  [Plain EXCEPT !.blocks = {[scope |-> "TENANT", unit |-> 0, from |-> 1, to |-> 2,
                             step |-> 0, until |-> Never]},
                !.away = {[staff |-> 2, window |-> [from |-> 4, to |-> 7]]},
                !.blacklisted = TRUE]

First_of_all == [service |-> "cut", start |-> 1, staff |-> 1, resource |-> Anyone]
InTheChair == [service |-> "cut", start |-> 3, staff |-> Anyone, resource |-> 10]
SomeEdits == {Plain, Stopped}
SomeLists == {<<First_of_all, InTheChair>>}
=============================================================================
