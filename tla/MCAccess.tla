------------------------------ MODULE MCAccess ------------------------------
(* Small instances of TenantAccess for TLC.                                *)
EXTENDS TenantAccess, TLC

CONSTANTS f1, f2, f3, t1, t2, s1, s2, e1, e2, former, small

\* A person whose email moved to another Google account, and a user of
\* before Google sign-in who has an email of theirs.
People == {[subject |-> s1, email |-> e1], [subject |-> s2, email |-> e1],
           [subject |-> s2, email |-> e2]}
Before == {[id |-> former, subject |-> None, email |-> e2]}
Limits == (small :> 1)

Symmetry == Permutations({f1, f2, f3}) \cup Permutations({t1, t2})
=============================================================================
