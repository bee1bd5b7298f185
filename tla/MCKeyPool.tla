----------------------------- MODULE MCKeyPool ------------------------------
(* Instances of KeyPool for TLC.                                           *)
EXTENDS KeyPool
CONSTANTS t1, t2
=============================================================================
