------------------------------ MODULE MCDagRun ------------------------------
(* Instances of DagRun for TLC.                                            *)
EXTENDS DagRun, TLC
CONSTANTS a, b, c
\* Two roots and a task that needs both.
Join == [t \in Tasks |-> IF t = c THEN {a, b} ELSE {}]
\* A root, and two tasks that wait for each other: EndsComplete fails on it.
Cycle == [t \in Tasks |-> CASE t = a -> {} [] t = b -> {c} [] t = c -> {a, b}]
=============================================================================
