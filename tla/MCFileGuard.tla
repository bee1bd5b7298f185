----------------------------- MODULE MCFileGuard ----------------------------
(* Three tasks, one of which may only read, and one other program.         *)
EXTENDS FileGuard, TLC

CONSTANTS a, b, c, x

MCTasks == {a, b, c}
MCConfined == {c}
MCOthers == {x}
Alike == Permutations({a, b})
=============================================================================
