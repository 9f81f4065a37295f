----------------------------- MODULE MCBilling -----------------------------
(* Small instances of SaasBilling for TLC.                                 *)
EXTENDS SaasBilling, TLC

CONSTANTS r1, r2, h1, h2, p1, p2

\* Requests and handlers are interchangeable, no property names one.
Symmetry == Permutations({r1, r2}) \cup Permutations({h1, h2})
=============================================================================
