----------------------------- MODULE MCPayments -----------------------------
(* Small instances of CustomerPayments for TLC.                            *)
EXTENDS CustomerPayments, TLC

CONSTANTS f, c1, c2, c3, c4, t1

\* One payment in full, large enough to be refunded in parts.
Prices == f :> 3

Symmetry == Permutations({c1, c2, c3, c4})
=============================================================================
