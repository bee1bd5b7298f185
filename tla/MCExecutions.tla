---------------------------- MODULE MCExecutions ----------------------------
(* Three requests of any kind on up to three sessions. *)
EXTENDS Executions, TLC

CONSTANTS r1, r2, r3, k1, k2, k3

MCRequests == {r1, r2, r3}
MCKeys == {k1, k2, k3}
Symmetry == Permutations(MCRequests) \union Permutations(MCKeys)
=============================================================================
