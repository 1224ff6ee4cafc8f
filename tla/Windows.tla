------------------------------ MODULE Windows -------------------------------
(***************************************************************************)
(* Sliding windows: what the limiters of agent/auth.py, tools_registry.py  *)
(* and tools/__init__.py keep of a caller, the times of its calls in the   *)
(* order in which they came.  A time counts for less than span seconds.    *)
(***************************************************************************)
EXTENDS Naturals, Sequences, FiniteSets

Counts(at, span, t) == at + span > t
FreshAt(w, span, t) == {i \in DOMAIN w : Counts(w[i], span, t)}
StaleAt(w, span, t) == {i \in DOMAIN w : ~Counts(w[i], span, t)}

\* The times are in order, and those that have left the window come first.
Pruned(w, span, t) == SubSeq(w, Cardinality(StaleAt(w, span, t)) + 1, Len(w))
=============================================================================
