------------------------------ MODULE MCPages -------------------------------
(* Small instances of WorkspacePages for TLC.                              *)
EXTENDS WorkspacePages, TLC

CONSTANTS t1, t2, q1, q2, quietStartMinute, marketingEnabled

Symmetry == Permutations({t1, t2}) \cup Permutations({q1, q2})
            \cup Permutations({quietStartMinute, marketingEnabled})
=============================================================================
