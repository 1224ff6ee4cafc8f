--------------------------- MODULE ExpiringStore ----------------------------
(***************************************************************************)
(* What agent/cache.py expects of its store, and gets from Redis: a map    *)
(* whose keys vanish when their time to live is over.  Storing a value     *)
(* starts its life anew, counting or prolonging does not revive the dead.  *)
(***************************************************************************)
EXTENDS Naturals

CONSTANTS
  Keys,
  Values,    \* what set() may store; incr() makes numbers of its own
  Ttls,      \* the times to live that callers ask for
  Nil,       \* what get() of a key that is not there returns
  MaxTime,   \* bound on the clock
  MaxCount   \* bound on a counter

VARIABLES
  now,
  value,  \* what each live key holds
  until,  \* when it dies; no entry, never
  got     \* the last call and what it returned

vars == <<now, value, until, got>>

Nothing == [k \in {} |-> Nil]

With(f, k, v) == [j \in DOMAIN f \cup {k} |-> IF j = k THEN v ELSE f[j]]
Only(f, S) == [j \in DOMAIN f \cap S |-> f[j]]
Without(f, S) == [j \in DOMAIN f \ S |-> f[j]]

Init == now = 0 /\ value = Nothing /\ until = Nothing /\ got = <<>>

Tick ==
  LET dead == {k \in DOMAIN until : now + 1 > until[k]}
  IN /\ now < MaxTime
     /\ now' = now + 1
     /\ value' = Without(value, dead)
     /\ until' = Without(until, dead)
     /\ UNCHANGED got

SetEx(k, v, ttl) ==
  /\ value' = With(value, k, v)
  /\ until' = With(until, k, now + ttl)
  /\ got' = <<"set">>
  /\ UNCHANGED now

Set(k, v) ==
  /\ value' = With(value, k, v)
  /\ until' = Without(until, {k})
  /\ got' = <<"set">>
  /\ UNCHANGED now

Get(k) ==
  /\ got' = <<"get", IF k \in DOMAIN value THEN value[k] ELSE Nil>>
  /\ UNCHANGED <<now, value, until>>

List ==
  /\ got' = <<"keys", DOMAIN value>>
  /\ UNCHANGED <<now, value, until>>

Delete(k) ==
  /\ value' = Without(value, {k})
  /\ until' = Without(until, {k})
  /\ got' = <<"delete", k \in DOMAIN value>>
  /\ UNCHANGED now

Expire(k, ttl) ==
  /\ until' = IF k \in DOMAIN value THEN With(until, k, now + ttl) ELSE until
  /\ got' = <<"expire">>
  /\ UNCHANGED <<now, value>>

Incr(k) ==
  LET n == IF k \in DOMAIN value THEN value[k] + 1 ELSE 1
  IN /\ n <= MaxCount
     /\ value' = With(value, k, n)
     /\ got' = <<"incr", n>>
     /\ UNCHANGED <<now, until>>

Flush ==
  /\ value' = Nothing
  /\ until' = Nothing
  /\ got' = <<"flush">>
  /\ UNCHANGED now

Next ==
  \/ Tick
  \/ Flush
  \/ List
  \/ \E k \in Keys :
       \/ \E v \in Values : Set(k, v) \/ \E ttl \in Ttls : SetEx(k, v, ttl)
       \/ \E ttl \in Ttls : Expire(k, ttl)
       \/ Get(k) \/ Delete(k) \/ Incr(k)

Spec == Init /\ [][Next]_vars
=============================================================================
