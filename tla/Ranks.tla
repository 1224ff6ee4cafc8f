-------------------------------- MODULE Ranks -------------------------------
(* Entries of a sequence that are kept or sorted.                          *)
EXTENDS Naturals, Sequences, FiniteSets

\* The entries of s at the places in K, one behind all those before it.
Ranked(s, K, before) ==
  LET place(i) == Cardinality({j \in K : <<j, i>> \in before}) + 1
  IN [p \in 1..Cardinality(K) |-> s[CHOOSE i \in K : place(i) = p]]

Earlier(s) == {q \in (DOMAIN s) \X (DOMAIN s) : q[1] < q[2]}

\* [x for x in s if ...]
Kept(s, K) == Ranked(s, K, Earlier(s))

\* What comes first of the places in K.
Foremost(K) == CHOOSE i \in K : \A j \in K : i <= j
=============================================================================
