----------------------------- MODULE MCGitSafety -----------------------------
(* Instances of GitSafety for TLC.                                         *)
EXTENDS GitSafety, TLC
CONSTANTS s1, s2
\* Sessions only differ by their name.
Symmetry == Permutations(Sessions)
=============================================================================
