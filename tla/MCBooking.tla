----------------------------- MODULE MCBooking -----------------------------
(* Small instances of BookingTransactions for TLC.                         *)
EXTENDS BookingProperties, TLC

CONSTANTS b0, b1, b2, b3, p1, p2, p3, s1, s2, r1

\* Two effective windows that overlap without being equal.
early == [from |-> 0, to |-> 2]
mid == [from |-> 1, to |-> 3]

OneWindow == {early}
TwoWindows == {early, mid}

Moving == b0 :> [staff |-> s1, resource |-> NoResource, window |-> early]
MovingInRoom == b0 :> [staff |-> s1, resource |-> r1, window |-> early]

\* p1 may send a batch of two dates, p2 a single date, p3 moves or transitions.
BatchAndSingle == (p1 :> {b1, b2}) @@ (p2 :> {b3})
BatchSingleMove == BatchAndSingle @@ (p3 :> {})
TwoCalls == (p1 :> {b1}) @@ (p2 :> {b2})
=============================================================================
