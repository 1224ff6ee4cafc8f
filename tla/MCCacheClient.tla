---------------------------- MODULE MCCacheClient ----------------------------
(* A limit of two per window of two, and two callers who update a session. *)
EXTENDS CacheClient, TLC

MCLimit == 2
MCWindow == 2
Interchangeable == Permutations(Callers)
=============================================================================
