--------------------------- MODULE MCModelFallback --------------------------
(* Three models, the default one being the last resort of the first, and   *)
(* one session whose pin changes.                                          *)
EXTENDS ModelFallback, TLC

CONSTANTS big, small, coder

MCModels == {big, small, coder}
MCRankings == {<<coder, big>>}
MCChain == big :> <<small>> @@ small :> <<>> @@ coder :> <<big, small>>
Interchangeable == Permutations(Calls)
=============================================================================
