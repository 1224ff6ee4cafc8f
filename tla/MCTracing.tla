------------------------------ MODULE MCTracing -----------------------------
(* Two tasks beside each other, or one spawned by the other.                *)
EXTENDS Tracing, TLC

CONSTANTS t1, t2

MCTasks == {t1, t2}
MCSymmetry == Permutations(MCTasks)
=============================================================================
