----------------------------- MODULE CacheStore -----------------------------
(***************************************************************************)
(* _MemoryStore of agent/cache.py, the store that CacheClient uses when    *)
(* there is no Redis.  A dead entry stays in the dictionaries until a call *)
(* looks at it; some calls do not look, and others stumble over it.        *)
(***************************************************************************)
EXTENDS Naturals

CONSTANTS Keys, Values, Ttls, Nil, MaxTime, MaxCount  \* as in ExpiringStore

ASSUME StoreAssumption ==
  /\ Values \subseteq Nat /\ Ttls \subseteq Nat \ {0}
  /\ MaxTime \in Nat /\ MaxCount \in Nat

VARIABLES
  now,     \* time.time()
  data,    \* _data
  expiry,  \* _expiry
  got      \* the last call and what it returned

vars == <<now, data, expiry, got>>

Expired(k) == k \in DOMAIN expiry /\ now > expiry[k]
Live == {k \in DOMAIN data : ~Expired(k)}

\* What a reader of the store would see.
Shown == [k \in Live |-> data[k]]
Until == [k \in DOMAIN expiry \cap Live |-> expiry[k]]

Redis == INSTANCE ExpiringStore WITH value <- Shown, until <- Until

Raised == <<"raised">>

\* _is_alive(): an entry found dead is forgotten.
PurgeEarly(k) ==
  LET due == {j \in {k} \cap DOMAIN expiry : now >= expiry[j]}
  IN data' = Redis!Without(data, due) /\ expiry' = Redis!Without(expiry, due)
Purge(k) ==
  LET dead == {j \in {k} : Expired(j)}
  IN data' = Redis!Without(data, dead) /\ expiry' = Redis!Without(expiry, dead)
-----------------------------------------------------------------------------
Init == now = 0 /\ data = Redis!Nothing /\ expiry = Redis!Nothing /\ got = <<>>

Tick == now < MaxTime /\ now' = now + 1 /\ UNCHANGED <<data, expiry, got>>

\* set() with a time to live.
SetEx(k, v, ttl) ==
  /\ data' = Redis!With(data, k, v)
  /\ expiry' = Redis!With(expiry, k, now + ttl)
  /\ got' = <<"set">>
  /\ UNCHANGED now

\* set() without one leaves the entry's expiry as it was.
Set(k, v) ==
  /\ data' = Redis!With(data, k, v)
  /\ got' = <<"set">>
  /\ UNCHANGED <<now, expiry>>

\* get(), and exists(), which tells only whether there is something to get.
GetUnchecked(k) ==
  /\ got' = <<"get", IF k \in DOMAIN data THEN data[k] ELSE Nil>>
  /\ UNCHANGED <<now, data, expiry>>
Get(k) ==
  /\ got' = <<"get", IF k \in Live THEN data[k] ELSE Nil>>
  /\ Purge(k)
  /\ UNCHANGED now

\* keys() and size() ask _is_alive() about every entry of the dictionary that they
\* iterate over: the first dead one, whichever it is, is forgotten, and the iteration
\* raises because the dictionary has changed.
Sweep ==
  /\ \/ /\ Live = DOMAIN data
        /\ got' = <<"keys", Live>>
        /\ UNCHANGED <<data, expiry>>
     \/ \E k \in DOMAIN data \ Live : Purge(k) /\ got' = Raised
  /\ UNCHANGED now

\* delete() does not ask either: a dead entry counts as removed.
Delete(k) ==
  /\ data' = Redis!Without(data, {k})
  /\ expiry' = Redis!Without(expiry, {k})
  /\ got' = <<"delete", k \in DOMAIN data>>
  /\ UNCHANGED now

\* expire() and incr() do not ask whether the entry is alive.
Expire(k, ttl) ==
  /\ expiry' = IF k \in DOMAIN data THEN Redis!With(expiry, k, now + ttl) ELSE expiry
  /\ got' = <<"expire">>
  /\ UNCHANGED <<now, data>>

Incr(k) ==
  LET n == IF k \in DOMAIN data THEN data[k] + 1 ELSE 1
  IN /\ n <= MaxCount
     /\ data' = Redis!With(data, k, n)
     /\ got' = <<"incr", n>>
     /\ UNCHANGED <<now, expiry>>

Flush ==
  /\ data' = Redis!Nothing
  /\ expiry' = Redis!Nothing
  /\ got' = <<"flush">>
  /\ UNCHANGED now

Next ==
  \/ Tick
  \/ Flush
  \/ Sweep
  \/ \E k \in Keys :
       \/ \E v \in Values : Set(k, v) \/ \E ttl \in Ttls : SetEx(k, v, ttl)
       \/ \E ttl \in Ttls : Expire(k, ttl)
       \/ Get(k) \/ Delete(k) \/ Incr(k)

Spec == Init /\ [][Next]_vars
-----------------------------------------------------------------------------
\* No time to live outlasts its value, so a value stored anew starts without the
\* expiry of a predecessor; every value is one that was stored or counted.
TypeOK ==
  /\ now \in 0..MaxTime
  /\ DOMAIN data \subseteq Keys
  /\ DOMAIN expiry \subseteq DOMAIN data
  /\ \A k \in DOMAIN data : data[k] \in Values \cup 1..MaxCount
  /\ \A k \in DOMAIN expiry : expiry[k] \in Nat
  /\ \/ got \in {<<>>, <<"set">>, <<"expire">>, <<"flush">>, Raised}
     \/ got[1] = "get" /\ got[2] \in Values \cup 1..MaxCount \cup {Nil}
     \/ got[1] = "incr" /\ got[2] \in 1..MaxCount
     \/ got[1] = "delete" /\ got[2] \in BOOLEAN
     \/ got[1] = "keys" /\ got[2] \subseteq Keys

\* A live entry is lost by delete(), by flush(), or as its time runs out.  No call
\* on another key, no sweep and no read takes it away.
LiveEntriesStay == [][\A k \in Live : k \in Live' \/ Tick \/ Flush \/ Delete(k)]_vars

\* The calls after which the stores hold different things: storing without a time
\* to live over an entry that has one, counting or prolonging a dead entry.
Careless ==
  \E k \in DOMAIN expiry :
    \/ \E v \in Values : Set(k, v)
    \/ Expired(k) /\ (Incr(k) \/ \E ttl \in Ttls : Expire(k, ttl))

\* The calls that tell the stores apart and change nothing that they hold: with a
\* dead entry about, keys() and size() raise, and delete() reports it removed.
Misreported ==
  /\ \E k \in DOMAIN expiry :
       /\ Expired(k)
       /\ \/ Sweep /\ got' = Raised
          \/ Delete(k) /\ got' = <<"delete", TRUE>>
  /\ UNCHANGED <<now, Shown, Until>>

\* "Connects to Redis if available; transparently falls back to _MemoryStore":
\* whatever came before, every call but the careless ones leaves what it would
\* leave in a store whose dead keys vanish at once, and returns what it would return
\* there, unless a dead entry makes it raise or report a removal.
TransparentFallback ==
  Redis!Init /\ [][Redis!Next \/ Careless \/ Misreported]_(Redis!vars)
=============================================================================
