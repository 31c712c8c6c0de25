---------------------------- MODULE MCAdmission ----------------------------
(* Small instance of Admission for TLC. *)
EXTENDS Admission, TLC

CONSTANTS r3, a, b

\* The third request is another tenant's.
LastIsB == [r \in Reqs |-> IF r = r3 THEN b ELSE a]

Symmetry == Permutations(Reqs \ {r3})
=============================================================================
