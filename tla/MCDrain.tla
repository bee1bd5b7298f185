------------------------------- MODULE MCDrain ------------------------------
(* Two slots and two providers; the history of the first task excludes one of  *)
(* them.  The other is an AJEAN, or a provider of last resort.                 *)
EXTENDS Drain

CONSTANTS c, p, q

OneCycle == {c}
MCProviders == {p, q}
OnlyQ == {q}
None == {}
MCUnfit == {<<1, p>>}
MCJoint == {1}
=============================================================================
