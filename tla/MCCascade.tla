----------------------------- MODULE MCCascade ------------------------------
(* Instances of Cascade for TLC.                                           *)
EXTENDS Cascade
CONSTANTS gemini, groq, c1, c2
Two == <<gemini, groq>>
=============================================================================
