---------------------------- MODULE MCCacheStore ----------------------------
(* CacheStore for two keys, with values that incr() can count on from. *)
EXTENDS CacheStore

MCValues == {1, 3}
MCTtls == {1, 2}
=============================================================================
