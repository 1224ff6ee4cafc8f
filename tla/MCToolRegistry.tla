--------------------------- MODULE MCToolRegistry ---------------------------
(* Three calls of one tool, which may be replaced once, from one session.   *)
EXTENDS ToolRegistry, TLC

CONSTANTS c1, c2, c3, n1, s1

MCCalls == {c1, c2, c3}
MCNames == {n1}
MCSessions == {s1}
MCSymmetry == Permutations(MCCalls)
=============================================================================
