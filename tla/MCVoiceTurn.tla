----------------------------- MODULE MCVoiceTurn ----------------------------
(* Two utterances in one house: one to Home, one in discussion or typed. *)
EXTENDS VoiceTurn, TLC

CONSTANTS u1, u2

MCTurns == {u1, u2}
MCSources == (u1 :> {"ha"}) @@ (u2 :> {"chat", "other"})
MCSpoken == (u1 :> {"shutter", "salon"}) @@ (u2 :> {"comfort"})
=============================================================================
