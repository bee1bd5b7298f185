------------------------------- MODULE MCSwarm ------------------------------
(* Two tasks that may be lent to one worker. *)
EXTENDS Swarm

CONSTANTS t1, t2, w1

MCTasks == {t1, t2}
MCWorkers == {w1}
=============================================================================
