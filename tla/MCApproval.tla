----------------------------- MODULE MCApproval -----------------------------
(* Instances of Approval for TLC.                                          *)
EXTENDS Approval, TLC

CONSTANTS r1, r2, r3, s1, s2, s3, e1, e2, e3

\* Requests of distinct sessions, each on its own engine.
DistinctSessions == [r \in Runs |-> CASE r = r1 -> s1 [] r = r2 -> s2 [] r = r3 -> s3]
OwnEngines == [r \in Runs |-> CASE r = r1 -> e1 [] r = r2 -> e2 [] r = r3 -> e3]
\* Two streams opened in the same second share "stream_<second>": ReplayedAsApproved fails.
SameSession == [r \in Runs |-> s1]
TwoShareASession == [r \in Runs |-> IF r = r3 THEN s2 ELSE s1]
TwoTasks == [r \in Runs |-> 2]

\* Bound: the branches of the two runs that share a session are always prepared.
TwinsPrepared == \A r \in {r1, r2} : run[r] # "idle" => branch[r] # "none"
=============================================================================
