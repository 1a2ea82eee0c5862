---------------------------- MODULE MCUserFiles ----------------------------
(* Small instances of UserFiles. *)
EXTENDS UserFiles, TLC

CONSTANTS t1, t2, a, b

Symmetry == Permutations({t1, t2}) \cup Permutations({a, b})
=============================================================================
