--------------------------- MODULE ApprovalLedger ---------------------------
(***************************************************************************)
(* What the approval cycle promises of each plan: it waits for a human, is  *)
(* rejected or approved once, runs only after it was approved, runs once,  *)
(* and a rejection or an end is final.                                     *)
(***************************************************************************)
CONSTANT Plans
VARIABLE fate

Fates == {"unseen", "waiting", "approved", "rejected", "running", "settled"}

Init == fate = [p \in Plans |-> "unseen"]

Moves(p, from, to) == fate[p] = from /\ fate' = [fate EXCEPT ![p] = to]

Submit(p) == Moves(p, "unseen", "waiting")
Approve(p) == Moves(p, "waiting", "approved")
Reject(p) == Moves(p, "waiting", "rejected")
Replay(p) == Moves(p, "approved", "running")
Settle(p) == Moves(p, "running", "settled")
GiveUp(p) == Moves(p, "approved", "settled")

Next ==
  \E p \in Plans :
    Submit(p) \/ Approve(p) \/ Reject(p) \/ Replay(p) \/ Settle(p) \/ GiveUp(p)

Spec == Init /\ [][Next]_fate
=============================================================================
