------------------------------ MODULE MCHooks -------------------------------
(* A wildcard hook, a one-shot hook and a third one of the same name as    *)
(* the one-shot hook, as closures of one function have.                    *)
EXTENDS Hooks, TLC

CONSTANTS wild, shot, twin

MCHooks3 == {wild, shot, twin}
MCName == wild :> "audit" @@ shot :> "handler" @@ twin :> "handler"
MCPriority == wild :> 5 @@ shot :> 5 @@ twin :> 1
MCWildcard == {wild}
MCOnce == {shot}

\* Emissions are interchangeable.
Interchangeable == Permutations(Emissions)
=============================================================================
