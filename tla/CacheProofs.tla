----------------------------- MODULE CacheProofs ----------------------------
(***************************************************************************)
(* The memory store keeps no expiry without its value, and every call on   *)
(* it but the careless ones is a step of ExpiringStore.  CacheClient keeps *)
(* its limit and its sessions on either store.                             *)
(***************************************************************************)
EXTENDS CacheStore, CacheClient, FiniteSetTheorems, TLAPS

\* The inductive invariant.
Paired ==
  /\ now \in Nat
  /\ DOMAIN expiry \subseteq DOMAIN data
  /\ \A k \in DOMAIN expiry : expiry[k] \in Nat
-----------------------------------------------------------------------------
\* No entry has an expiry without a value, whatever the callers use.
LEMMA PairedInit == Init => Paired
  BY DEF Init, Paired, Redis!Nothing

LEMMA PairedStep ==
  ASSUME Paired, [Next]_vars
  PROVE  Paired'
<1> USE DEF Paired
<1>1. CASE Tick
  BY <1>1 DEF Tick
<1>2. CASE Flush
  BY <1>2 DEF Flush, Redis!Nothing
<1>3. CASE Sweep
  BY <1>3 DEF Sweep, Purge, Redis!Without
<1>4. ASSUME NEW k \in Keys, NEW v \in Values, Set(k, v) PROVE Paired'
  BY <1>4 DEF Set, Redis!With
<1>5. ASSUME NEW k \in Keys, NEW v \in Values, NEW ttl \in Ttls, SetEx(k, v, ttl)
      PROVE  Paired'
  <2>1. now + ttl \in Nat
    BY StoreAssumption
  <2>2. QED
    BY <1>5, <2>1 DEF SetEx, Redis!With
<1>6. ASSUME NEW k \in Keys, NEW ttl \in Ttls, Expire(k, ttl) PROVE Paired'
  <2>1. now + ttl \in Nat
    BY StoreAssumption
  <2>2. QED
    BY <1>6, <2>1 DEF Expire, Redis!With
<1>7. ASSUME NEW k \in Keys, Get(k) PROVE Paired'
  BY <1>7 DEF Get, Purge, Redis!Without
<1>8. ASSUME NEW k \in Keys, Delete(k) PROVE Paired'
  BY <1>8 DEF Delete, Redis!Without
<1>9. ASSUME NEW k \in Keys, Incr(k) PROVE Paired'
  BY <1>9 DEF Incr, Redis!With
<1>10. CASE UNCHANGED vars
  BY <1>10 DEF vars
<1>11. QED
  BY <1>1, <1>2, <1>3, <1>4, <1>5, <1>6, <1>7, <1>8, <1>9, <1>10 DEF Next

\* Every reachable state of the dictionaries is paired.
THEOREM StorePaired == Spec => []Paired
<1>1. Init => Paired
  BY PairedInit
<1>2. Paired /\ [Next]_vars => Paired'
  BY PairedStep
<1>3. QED
  BY <1>1, <1>2, PTL DEF Spec
-----------------------------------------------------------------------------
\* An expiry is always that of a value that is there, and a value one that was
\* stored or counted, whatever the callers use.
THEOREM TypeCorrect == Spec => []TypeOK
<1>1. Init => TypeOK
  BY StoreAssumption DEF Init, TypeOK, Redis!Nothing
<1>2. TypeOK /\ Paired /\ [Next]_vars => TypeOK'
  <2> SUFFICES ASSUME TypeOK, Paired, [Next]_vars PROVE TypeOK'
    OBVIOUS
  <2> USE DEF TypeOK
  <2>0. Paired'
    BY PairedStep
  <2>1. CASE Tick
    BY <2>1, StoreAssumption DEF Tick
  <2>2. CASE Flush
    BY <2>2 DEF Flush, Redis!Nothing
  <2>3. CASE Sweep
    <3>1. CASE got' = <<"keys", Live>> /\ UNCHANGED <<data, expiry, now>>
      <4>1. Live \subseteq Keys
        BY DEF Live
      <4>2. got'[1] = "keys" /\ got'[2] = Live
        BY <3>1
      <4> QED
        BY <3>1, <4>1, <4>2
    <3>2. ASSUME NEW k \in DOMAIN data, Purge(k), got' = Raised, UNCHANGED now
          PROVE  TypeOK'
      BY <3>2 DEF Purge, Redis!Without
    <3> QED
      BY <2>3, <3>1, <3>2 DEF Sweep
  <2>4. ASSUME NEW k \in Keys, NEW v \in Values, Set(k, v) PROVE TypeOK'
    BY <2>4 DEF Set, Redis!With
  <2>5. ASSUME NEW k \in Keys, NEW v \in Values, NEW ttl \in Ttls, SetEx(k, v, ttl)
        PROVE  TypeOK'
    BY <2>5, <2>0 DEF SetEx, Redis!With, Paired
  <2>6. ASSUME NEW k \in Keys, NEW ttl \in Ttls, Expire(k, ttl) PROVE TypeOK'
    BY <2>6, <2>0 DEF Expire, Redis!With, Paired
  <2>7. ASSUME NEW k \in Keys, Get(k) PROVE TypeOK'
    BY <2>7 DEF Get, Purge, Live, Redis!Without
  <2>8. ASSUME NEW k \in Keys, Delete(k) PROVE TypeOK'
    BY <2>8 DEF Delete, Redis!Without
  <2>9. ASSUME NEW k \in Keys, Incr(k) PROVE TypeOK'
    <3> DEFINE n == IF k \in DOMAIN data THEN data[k] + 1 ELSE 1
    <3>1. n \in 1..MaxCount
      <4>1. \A v \in Values \cup 1..MaxCount : v + 1 \in Nat \ {0}
        BY StoreAssumption
      <4>2. k \in DOMAIN data => data[k] \in Values \cup 1..MaxCount
        OBVIOUS
      <4>3. n \in Nat \ {0}
        <5> HIDE DEF TypeOK
        <5>1. CASE k \in DOMAIN data
          BY <4>1, <4>2, <5>1
        <5>2. CASE k \notin DOMAIN data
          BY <5>2
        <5>3. QED
          BY <5>1, <5>2
      <4>4. n <= MaxCount
        BY <2>9 DEF Incr
      <4>5. QED
        BY <4>3, <4>4, StoreAssumption
    <3>2. data' = Redis!With(data, k, n) /\ got' = <<"incr", n>> /\ UNCHANGED <<now, expiry>>
      BY <2>9 DEF Incr
    <3>3. QED
      BY <3>1, <3>2 DEF Redis!With
  <2>10. CASE UNCHANGED vars
    BY <2>10 DEF vars
  <2>11. QED
    BY <2>1, <2>2, <2>3, <2>4, <2>5, <2>6, <2>7, <2>8, <2>9, <2>10 DEF Next
<1>3. QED
  BY <1>1, <1>2, StorePaired, PTL DEF Spec

\* No read, sweep or call on another key takes a live entry away: _is_alive()
\* forgets exactly the entries whose time is over.
THEOREM OnlyDeadForgotten == Spec => LiveEntriesStay
<1>1. Paired /\ [Next]_vars =>
        [\A k \in Live : k \in Live' \/ Tick \/ Flush \/ Delete(k)]_vars
  <2> SUFFICES ASSUME Paired, Next, NEW k \in Live,
                      ~ Tick, ~ Flush, ~ Delete(k)
               PROVE  k \in Live'
    OBVIOUS
  <2> USE DEF Live, Expired
  <2>1. CASE Sweep
    BY <2>1 DEF Sweep, Purge, Redis!Without
  <2>2. ASSUME NEW j \in Keys, NEW v \in Values, Set(j, v) PROVE k \in Live'
    BY <2>2 DEF Set, Redis!With
  <2>3. ASSUME NEW j \in Keys, NEW v \in Values, NEW ttl \in Ttls, SetEx(j, v, ttl)
        PROVE  k \in Live'
    BY <2>3, StoreAssumption DEF SetEx, Redis!With, Paired
  <2>4. ASSUME NEW j \in Keys, NEW ttl \in Ttls, Expire(j, ttl) PROVE k \in Live'
    BY <2>4, StoreAssumption DEF Expire, Redis!With, Paired
  <2>5. ASSUME NEW j \in Keys, Get(j) PROVE k \in Live'
    BY <2>5 DEF Get, Purge, Redis!Without
  <2>6. ASSUME NEW j \in Keys, Delete(j) PROVE k \in Live'
    BY <2>6 DEF Delete, Redis!Without
  <2>7. ASSUME NEW j \in Keys, Incr(j) PROVE k \in Live'
    BY <2>7 DEF Incr, Redis!With
  <2>8. QED
    BY <2>1, <2>2, <2>3, <2>4, <2>5, <2>6, <2>7 DEF Next
<1>2. QED
  BY <1>1, StorePaired, PTL DEF Spec, LiveEntriesStay
-----------------------------------------------------------------------------
\* Purging hides nothing that was shown.
LEMMA PurgeShowsTheSame ==
  ASSUME Paired, NEW k, Purge(k), UNCHANGED now
  PROVE  Shown' = Shown /\ Until' = Until
<1>1. Live' = Live
  BY DEF Purge, Live, Expired, Paired, Redis!Without
<1>2. \A j \in Live : data'[j] = data[j]
  BY DEF Purge, Live, Redis!Without
<1>3. DOMAIN expiry' \cap Live' = DOMAIN expiry \cap Live
  BY <1>1 DEF Purge, Live, Expired, Redis!Without
<1>4. \A j \in DOMAIN expiry \cap Live : expiry'[j] = expiry[j]
  BY DEF Purge, Live, Redis!Without
<1>5. Shown' = Shown
  BY <1>1, <1>2 DEF Shown
<1>6. QED
  BY <1>1, <1>3, <1>4, <1>5 DEF Until

LEMMA TickMaps ==
  ASSUME Paired, Tick
  PROVE  Redis!Tick
<1> DEFINE dead == {k \in DOMAIN Until : now + 1 > Until[k]}
<1>1. now' = now + 1 /\ data' = data /\ expiry' = expiry /\ got' = got
  BY DEF Tick
<1>2. \A k \in DOMAIN Until : Until[k] = expiry[k]
  BY DEF Until
<1>3. \A k \in DOMAIN expiry : now > expiry[k] => now + 1 > expiry[k]
  BY DEF Paired
<1>4. Live' = Live \ dead
  BY <1>1, <1>2, <1>3 DEF Live, Expired, Until
<1>5. Shown' = Redis!Without(Shown, dead)
  BY <1>1, <1>4 DEF Shown, Redis!Without
<1>6. Until' = Redis!Without(Until, dead)
  <2>1. DOMAIN expiry' \cap Live' = DOMAIN Until \ dead
    BY <1>1, <1>4 DEF Until
  <2>2. QED
    BY <1>1, <1>2, <2>1 DEF Until, Redis!Without
<1>7. QED
  BY <1>1, <1>5, <1>6 DEF Tick, Redis!Tick, Shown, Until

LEMMA SetExMaps ==
  ASSUME Paired, NEW k \in Keys, NEW v \in Values, NEW ttl \in Ttls, SetEx(k, v, ttl)
  PROVE  Redis!SetEx(k, v, ttl)
<1>1. /\ now' = now
      /\ DOMAIN data' = DOMAIN data \cup {k}
      /\ DOMAIN expiry' = DOMAIN expiry \cup {k}
      /\ data'[k] = v /\ expiry'[k] = now + ttl
      /\ \A j \in DOMAIN data \ {k} : data'[j] = data[j]
      /\ \A j \in DOMAIN expiry \ {k} : expiry'[j] = expiry[j]
  BY DEF SetEx, Redis!With
<1>2. ~ now > now + ttl
  BY StoreAssumption DEF Paired
<1>3. Live' = Live \cup {k}
  BY <1>1, <1>2 DEF Live, Expired
<1>4. Shown' = Redis!With(Shown, k, v)
  <2>1. \A j \in Live' : data'[j] = IF j = k THEN v ELSE data[j]
    BY <1>1, <1>3 DEF Live
  <2>2. QED
    BY <1>3, <2>1 DEF Shown, Redis!With
<1>5. Until' = Redis!With(Until, k, now + ttl)
  <2>1. DOMAIN expiry' \cap Live' = (DOMAIN expiry \cap Live) \cup {k}
    BY <1>1, <1>3
  <2>2. \A j \in DOMAIN expiry' \cap Live' :
          expiry'[j] = IF j = k THEN now + ttl ELSE expiry[j]
    BY <1>1, <2>1
  <2>3. QED
    BY <2>1, <2>2 DEF Until, Redis!With
<1>6. QED
  BY <1>4, <1>5 DEF SetEx, Redis!SetEx, Shown, Until

LEMMA DeleteMaps ==
  ASSUME Paired, NEW k \in Keys, Delete(k)
  PROVE  IF Expired(k) THEN Misreported ELSE Redis!Delete(k)
<1>1. /\ now' = now
      /\ DOMAIN data' = DOMAIN data \ {k}
      /\ DOMAIN expiry' = DOMAIN expiry \ {k}
      /\ \A j \in DOMAIN data \ {k} : data'[j] = data[j]
      /\ \A j \in DOMAIN expiry \ {k} : expiry'[j] = expiry[j]
  BY DEF Delete, Redis!Without
<1>2. Live' = Live \ {k}
  BY <1>1 DEF Live, Expired
<1>3. Shown' = Redis!Without(Shown, {k})
  <2>1. \A j \in Live' : data'[j] = data[j]
    BY <1>1, <1>2 DEF Live
  <2>2. QED
    BY <1>2, <2>1 DEF Shown, Redis!Without
<1>4. Until' = Redis!Without(Until, {k})
  <2>1. DOMAIN expiry' \cap Live' = (DOMAIN expiry \cap Live) \ {k}
    BY <1>1, <1>2
  <2>2. \A j \in DOMAIN expiry' \cap Live' : expiry'[j] = expiry[j]
    BY <1>1, <2>1
  <2>3. QED
    BY <2>1, <2>2 DEF Until, Redis!Without
<1>5. CASE Expired(k)
  <2>1. k \notin Live /\ k \in DOMAIN data /\ k \in DOMAIN expiry
    BY <1>5 DEF Live, Expired, Paired
  <2>2. Shown' = Shown /\ Until' = Until
    <3>1. Live' = Live /\ \A j \in Live : data'[j] = data[j]
      BY <1>1, <1>2, <2>1 DEF Live
    <3>2. DOMAIN expiry' \cap Live' = DOMAIN expiry \cap Live
      BY <1>1, <2>1, <3>1
    <3>3. \A j \in DOMAIN expiry \cap Live : expiry'[j] = expiry[j]
      BY <1>1, <2>1
    <3>4. QED
      BY <3>1, <3>2, <3>3 DEF Shown, Until
  <2>3. got' = <<"delete", TRUE>>
    BY <2>1 DEF Delete
  <2>4. QED
    BY <1>1, <1>5, <2>1, <2>2, <2>3 DEF Misreported
<1>6. CASE ~ Expired(k)
  <2>1. k \in DOMAIN data <=> k \in DOMAIN Shown
    BY <1>6 DEF Live, Shown
  <2>2. got' = <<"delete", k \in DOMAIN data>>
    BY DEF Delete
  <2>3. <<"delete", k \in DOMAIN data>> = <<"delete", k \in DOMAIN Shown>>
    <3>1. CASE k \in DOMAIN data
      BY <2>1, <3>1
    <3>2. CASE k \notin DOMAIN data
      BY <2>1, <3>2
    <3>3. QED
      BY <3>1, <3>2
  <2>4. got' = <<"delete", k \in DOMAIN Shown>>
    BY <2>2, <2>3, Zenon
  <2>5. QED
    BY <1>1, <1>3, <1>4, <1>6, <2>4, Zenon DEF Redis!Delete
<1>7. QED
  BY <1>5, <1>6

\* A sweep lists what is there, or raises and shows the same.
LEMMA SweepMaps ==
  ASSUME Paired, Sweep
  PROVE  Redis!List \/ Misreported
<1>1. CASE Live = DOMAIN data /\ got' = <<"keys", Live>> /\ UNCHANGED <<data, expiry>>
  <2>1. now' = now
    BY DEF Sweep
  <2>2. Live' = Live
    BY <1>1, <2>1 DEF Live, Expired
  <2>3. Shown' = Shown /\ Until' = Until
    BY <1>1, <2>2 DEF Shown, Until
  <2>4. DOMAIN Shown = Live
    BY DEF Shown
  <2>5. QED
    BY <1>1, <2>1, <2>3, <2>4 DEF Redis!List
<1>2. ASSUME NEW k \in DOMAIN data \ Live, Purge(k), got' = Raised
      PROVE  Misreported
  <2>1. Expired(k) /\ k \in DOMAIN expiry
    BY DEF Live, Expired
  <2>2. now' = now
    BY DEF Sweep
  <2>3. Shown' = Shown /\ Until' = Until
    BY <1>2, <2>2, PurgeShowsTheSame
  <2>4. QED
    BY <1>2, <2>1, <2>2, <2>3 DEF Misreported
<1>3. QED
  BY <1>1, <1>2 DEF Sweep

LEMMA FlushMaps ==
  ASSUME Flush
  PROVE  Redis!Flush
<1>1. Shown' = Redis!Nothing /\ Until' = Redis!Nothing
  BY DEF Flush, Shown, Until, Live, Redis!Nothing
<1>2. QED
  BY <1>1 DEF Flush, Redis!Flush, Shown, Until

LEMMA GetMaps ==
  ASSUME Paired, NEW k \in Keys, Get(k)
  PROVE  Redis!Get(k)
<1>1. Shown' = Shown /\ Until' = Until
  BY PurgeShowsTheSame DEF Get
<1>2. got' = <<"get", IF k \in DOMAIN Shown THEN Shown[k] ELSE Nil>>
  BY DEF Get, Shown
<1>3. QED
  BY <1>1, <1>2 DEF Get, Redis!Get, Shown, Until

LEMMA SetMaps ==
  ASSUME NEW k \in Keys, NEW v \in Values, Set(k, v), k \notin DOMAIN expiry
  PROVE  Redis!Set(k, v)
<1>1. /\ now' = now /\ expiry' = expiry
      /\ DOMAIN data' = DOMAIN data \cup {k}
      /\ data'[k] = v
      /\ \A j \in DOMAIN data \ {k} : data'[j] = data[j]
  BY DEF Set, Redis!With
<1>2. Live' = Live \cup {k}
  BY <1>1 DEF Live, Expired
<1>3. Shown' = Redis!With(Shown, k, v)
  <2>1. \A j \in Live' : data'[j] = IF j = k THEN v ELSE data[j]
    BY <1>1, <1>2 DEF Live
  <2>2. QED
    BY <1>2, <2>1 DEF Shown, Redis!With
<1>4. Until' = Redis!Without(Until, {k})
  <2>1. DOMAIN expiry' \cap Live' = (DOMAIN expiry \cap Live) \ {k}
    BY <1>1, <1>2
  <2>2. QED
    BY <1>1, <2>1 DEF Until, Redis!Without
<1>5. QED
  BY <1>3, <1>4 DEF Set, Redis!Set, Shown, Until

LEMMA ExpireMaps ==
  ASSUME Paired, NEW k \in Keys, NEW ttl \in Ttls, Expire(k, ttl), ~ Expired(k)
  PROVE  Redis!Expire(k, ttl)
<1>1. now' = now /\ data' = data
  BY DEF Expire
<1>2. ~ now > now + ttl
  BY StoreAssumption DEF Paired
<1>3. CASE k \in DOMAIN data
  <2>1. /\ DOMAIN expiry' = DOMAIN expiry \cup {k}
        /\ expiry'[k] = now + ttl
        /\ \A j \in DOMAIN expiry \ {k} : expiry'[j] = expiry[j]
    BY <1>3 DEF Expire, Redis!With
  <2>2. k \in Live /\ Live' = Live
    BY <1>1, <1>2, <1>3, <2>1 DEF Live, Expired
  <2>3. Shown' = Shown
    BY <1>1, <2>2 DEF Shown
  <2>4. DOMAIN expiry' \cap Live' = (DOMAIN expiry \cap Live) \cup {k}
    BY <2>1, <2>2
  <2>5. \A j \in DOMAIN expiry' \cap Live' :
          expiry'[j] = IF j = k THEN now + ttl ELSE expiry[j]
    BY <2>1, <2>4
  <2>6. Until' = Redis!With(Until, k, now + ttl)
    BY <2>4, <2>5 DEF Until, Redis!With
  <2>7. k \in DOMAIN Shown
    BY <2>2 DEF Shown
  <2>8. QED
    BY <2>3, <2>6, <2>7 DEF Expire, Redis!Expire, Shown, Until
<1>4. CASE k \notin DOMAIN data
  <2>1. expiry' = expiry
    BY <1>4 DEF Expire
  <2>2. Live' = Live
    BY <1>1, <2>1 DEF Live, Expired
  <2>3. Shown' = Shown /\ Until' = Until
    BY <1>1, <2>1, <2>2 DEF Shown, Until
  <2>4. k \notin DOMAIN Shown
    BY <1>4 DEF Shown, Live
  <2>5. QED
    BY <2>3, <2>4 DEF Expire, Redis!Expire, Shown, Until
<1>5. QED
  BY <1>3, <1>4

LEMMA IncrMaps ==
  ASSUME Paired, NEW k \in Keys, Incr(k), ~ Expired(k)
  PROVE  Redis!Incr(k)
<1> DEFINE n == IF k \in DOMAIN data THEN data[k] + 1 ELSE 1
<1>1. /\ now' = now /\ expiry' = expiry /\ got' = <<"incr", n>> /\ n <= MaxCount
      /\ data' = Redis!With(data, k, n)
  BY DEF Incr
<1>2. n = IF k \in DOMAIN Shown THEN Shown[k] + 1 ELSE 1
  BY DEF Shown, Live
<1> HIDE DEF n
<1>3. /\ DOMAIN data' = DOMAIN data \cup {k}
      /\ data'[k] = n
      /\ \A j \in DOMAIN data \ {k} : data'[j] = data[j]
  BY <1>1 DEF Redis!With
<1>4. Live' = Live \cup {k}
  BY <1>1, <1>3 DEF Live, Expired
<1>5. Shown' = Redis!With(Shown, k, n)
  <2>1. \A j \in Live' : data'[j] = IF j = k THEN n ELSE data[j]
    BY <1>3, <1>4 DEF Live
  <2>2. QED
    BY <1>4, <2>1 DEF Shown, Redis!With
<1>6. Until' = Until
  <2>1. DOMAIN expiry' \cap Live' = DOMAIN expiry \cap Live
    BY <1>1, <1>4 DEF Paired, Live
  <2>2. QED
    BY <1>1, <2>1 DEF Until
<1>7. QED
  BY <1>1, <1>2, <1>5, <1>6 DEF Redis!Incr, Shown, Until

\* "Connects to Redis if available; transparently falls back to _MemoryStore"
\* (agent/cache.py): whatever was called before, every call but the careless ones
\* does to what the store shows what it would do to Redis, and returns what Redis
\* would return, unless a dead entry makes it raise or report a removal.
THEOREM FallsBackTransparently == Spec => TransparentFallback
<1>1. Init => Redis!Init
  <2>1. ASSUME Init PROVE Shown = Redis!Nothing /\ Until = Redis!Nothing
    BY <2>1 DEF Init, Shown, Until, Live, Redis!Nothing
  <2>2. QED
    BY <2>1 DEF Init, Redis!Init, Shown, Until
<1>2. Paired /\ [Next]_vars => [Redis!Next \/ Careless \/ Misreported]_(Redis!vars)
  <2> SUFFICES ASSUME Paired, [Next]_vars
               PROVE  [Redis!Next \/ Careless \/ Misreported]_(Redis!vars)
    OBVIOUS
  <2>1. CASE Tick
    BY <2>1, TickMaps DEF Redis!Next
  <2>2. CASE Flush
    BY <2>2, FlushMaps DEF Redis!Next
  <2>3. CASE Sweep
    BY <2>3, SweepMaps DEF Redis!Next
  <2>4. ASSUME NEW k \in Keys, NEW v \in Values, NEW ttl \in Ttls, SetEx(k, v, ttl)
        PROVE  Redis!Next
    BY <2>4, SetExMaps DEF Redis!Next
  <2>5. ASSUME NEW k \in Keys, Get(k) PROVE Redis!Next
    BY <2>5, GetMaps DEF Redis!Next
  <2>6. ASSUME NEW k \in Keys, Delete(k) PROVE Redis!Next \/ Misreported
    BY <2>6, DeleteMaps DEF Redis!Next
  <2>7. ASSUME NEW k \in Keys, NEW v \in Values, Set(k, v)
        PROVE  Redis!Next \/ Careless
    BY <2>7, SetMaps DEF Redis!Next, Careless
  <2>8. ASSUME NEW k \in Keys, NEW ttl \in Ttls, Expire(k, ttl)
        PROVE  Redis!Next \/ Careless
    BY <2>8, ExpireMaps DEF Redis!Next, Careless, Expired
  <2>9. ASSUME NEW k \in Keys, Incr(k) PROVE Redis!Next \/ Careless
    BY <2>9, IncrMaps DEF Redis!Next, Careless, Expired
  <2>10. CASE UNCHANGED vars
    <3>1. Shown' = Shown /\ Until' = Until
      BY <2>10 DEF vars, Shown, Until, Live, Expired
    <3>2. QED
      BY <2>10, <3>1 DEF vars, Redis!vars, Shown, Until
  <2>11. QED
    BY <2>1, <2>2, <2>3, <2>4, <2>5, <2>6, <2>7, <2>8, <2>9, <2>10 DEF Next
<1>3. QED
  BY <1>1, <1>2, StorePaired, PTL DEF Spec, TransparentFallback
-----------------------------------------------------------------------------
\* The last check before the present life of the counter.
Start == Len(checks) - count

\* What a counter is worth: it counts the checks since Start, and that one is
\* a window before every one of them.
RateInv ==
  /\ clock \in Nat /\ count \in Nat /\ until \in Int
  /\ checks \in Seq([at : Nat, allowed : BOOLEAN])
  /\ count <= Len(checks)
  /\ \A i \in 1..Len(checks) :
       checks[i].at <= clock /\ \A j \in i..Len(checks) : checks[i].at <= checks[j].at
  /\ \A i \in 1..Len(checks) : i > Start => (checks[i].allowed <=> i - Start <= Limit)
  /\ Start > 0 =>
       /\ checks[Start].at + Window <= clock
       /\ \A i \in 1..Len(checks) : i > Start => checks[Start].at + Window <= checks[i].at
  /\ Len(checks) > 0 => until = checks[Len(checks)].at + Window
  /\ backend = "redis" /\ count > 0 => clock < until

LEMMA ChecksFit ==
  ASSUME NEW c, c \in Seq([at : Nat, allowed : BOOLEAN])
  PROVE  \A i \in 1..Len(c) : c[i].at \in Nat /\ c[i].allowed \in BOOLEAN
<1>1. ASSUME NEW T, c \in Seq(T)
      PROVE  \A i \in 1..Len(c) : c[i] \in T
  BY <1>1
<1>2. \A i \in 1..Len(c) : c[i] \in [at : Nat, allowed : BOOLEAN]
  BY <1>1
<1> QED
  BY <1>2

\* Either the counter goes on, and only the clock moves, or it is forgotten when
\* the window after the last check is over.
LEMMA ClockMoves ==
  ASSUME RateInv, UNCHANGED <<backend, until, checks>>,
         clock' \in Nat, clock' >= clock,
         count' = count \/ (count' = 0 /\ (count > 0 => clock' >= until)),
         backend = "redis" /\ count' > 0 => clock' < until
  PROVE  RateInv'
<1>1. PICK n \in Nat : n = Len(checks) /\ Len(checks') = n
  BY DEF RateInv
<1>2. \A i \in 1..n : checks[i].at \in Nat /\ checks'[i] = checks[i]
  <2>1. checks' = checks
    OBVIOUS
  <2> QED
    BY <1>1, <2>1, ChecksFit DEF RateInv
<1>3. Window \in Nat /\ Limit \in Nat /\ Window > 0
  BY RateAssumption
<1>4. CASE count' = count
  <2>1. Start' = Start /\ Start \in Nat /\ Start <= n
    BY <1>1, <1>4 DEF Start, RateInv
  <2>2. Start > 0 => checks[Start].at \in Nat
    BY <1>2, <2>1
  <2> QED
    BY <1>1, <1>2, <1>3, <1>4, <2>1, <2>2 DEF RateInv
<1>5. CASE count' = 0 /\ count > 0 /\ clock' >= until
  <2>1. Start' = n /\ n > 0 /\ until = checks[n].at + Window
    BY <1>1, <1>5 DEF Start, RateInv
  <2>2. checks' = checks /\ checks[n].at + Window <= clock' /\ clock <= clock'
    BY <1>5, <2>1
  <2>3. \A i \in 1..n : /\ checks[i].at <= clock
                       /\ \A j \in i..n : checks[i].at <= checks[j].at
    BY <1>1 DEF RateInv
  <2>4. \A i \in 1..n : checks[i].at <= clock'
    <3>1. clock \in Nat /\ clock' \in Nat
      BY DEF RateInv
    <3> QED
      BY ONLY <1>2, <2>2, <2>3, <3>1
  <2>5. \A i \in 1..n : ~(i > n)
    OBVIOUS
  <2>6. /\ count' <= Len(checks') /\ count' \in Nat /\ ~(count' > 0)
        /\ until' = until /\ backend' = backend
    BY <1>1, <1>5
  <2> QED
    BY <1>1, <2>1, <2>2, <2>3, <2>4, <2>5, <2>6 DEF RateInv
<1> QED
  BY <1>4, <1>5 DEF RateInv

\* A check is the next of the present life of the counter.
LEMMA CheckCounts ==
  ASSUME RateInv, Check
  PROVE  RateInv'
<1>1. PICK n \in Nat : n = Len(checks)
  BY DEF RateInv
<1> DEFINE new == [at |-> clock, allowed |-> count + 1 <= Limit]
<1>2. /\ clock' = clock /\ backend' = backend /\ count' = count + 1 /\ until' = clock + Window
      /\ checks' = Append(checks, new)
  BY DEF Check, Renewed
<1>3. Window \in Nat /\ Limit \in Nat /\ Window > 0 /\ clock \in Nat /\ count \in Nat /\ count <= n
  BY <1>1, RateAssumption DEF RateInv
<1>4. new \in [at : Nat, allowed : BOOLEAN] /\ new.at = clock /\ (new.allowed <=> count + 1 <= Limit)
  <2>1. PICK a \in BOOLEAN : a = (count + 1 <= Limit)
    <3>1. (count + 1 <= Limit) \in BOOLEAN
      OBVIOUS
    <3> QED
      BY <3>1
  <2>2. new = [at |-> clock, allowed |-> a]
    BY <2>1
  <2> HIDE DEF new
  <2> QED
    BY <1>3, <2>1, <2>2
<1> HIDE DEF new
<1>5. /\ checks' \in Seq([at : Nat, allowed : BOOLEAN]) /\ Len(checks') = n + 1
      /\ checks'[n + 1] = new /\ \A i \in 1..n : checks'[i] = checks[i]
  BY <1>1, <1>2, <1>4 DEF RateInv
<1>6. Start' = Start /\ Start = n - count /\ Start \in Nat /\ Start <= n
  BY <1>1, <1>2, <1>3, <1>5 DEF Start
<1>7. \A i \in 1..n : checks[i].at \in Nat /\ checks[i].at <= clock
  <2>1. \A i \in 1..n : checks[i].at <= clock
    BY <1>1 DEF RateInv
  <2> QED
    BY <1>1, <2>1, ChecksFit DEF RateInv
<1>8. ASSUME NEW i \in 1..(n + 1)
      PROVE  /\ checks'[i].at <= clock
             /\ \A j \in i..(n + 1) : checks'[i].at <= checks'[j].at
             /\ i > Start => (checks'[i].allowed <=> i - Start <= Limit)
             /\ Start > 0 /\ i > Start => checks[Start].at + Window <= checks'[i].at
  <2>1. CASE i = n + 1
    <3>1. Start > 0 => checks[Start].at + Window <= clock
      BY <1>1 DEF RateInv
    <3> QED
      BY <1>3, <1>4, <1>5, <1>6, <2>1, <3>1
  <2>2. CASE i \in 1..n
    <3>1. /\ checks'[i] = checks[i] /\ checks[i].at <= clock
          /\ \A j \in i..n : checks[i].at <= checks[j].at
          /\ i > Start => (checks[i].allowed <=> i - Start <= Limit)
          /\ Start > 0 /\ i > Start => checks[Start].at + Window <= checks[i].at
      BY <1>1, <1>5, <2>2 DEF RateInv
    <3>2. ASSUME NEW j \in i..(n + 1)
          PROVE  checks'[i].at <= checks'[j].at
      <4>1. CASE j = n + 1
        BY <1>4, <1>5, <3>1, <4>1
      <4>2. CASE j \in i..n
        BY <1>5, <2>2, <3>1, <4>2
      <4> QED
        BY <4>1, <4>2
    <3> QED
      BY <3>1, <3>2
  <2> QED
    BY <2>1, <2>2
<1>9. Start' > 0 => checks'[Start'] = checks[Start] /\ checks[Start].at + Window <= clock
  <2> SUFFICES ASSUME Start > 0
               PROVE  checks'[Start] = checks[Start] /\ checks[Start].at + Window <= clock
    BY <1>6
  <2>1. Start \in 1..n
    BY <1>6
  <2> QED
    BY <1>5, <2>1 DEF RateInv
<1>10. until' = checks'[Len(checks')].at + Window /\ until' \in Int /\ clock < until'
  BY <1>2, <1>3, <1>4, <1>5
<1>11. Start' > 0 => \A i \in 1..(n + 1) : i > Start' => checks'[Start'].at + Window <= checks'[i].at
  BY <1>6, <1>8, <1>9
<1>12. \A i \in 1..Len(checks') :
        /\ checks'[i].at <= clock' /\ \A j \in i..Len(checks') : checks'[i].at <= checks'[j].at
        /\ i > Start' => (checks'[i].allowed <=> i - Start' <= Limit)
  BY <1>2, <1>5, <1>6, <1>8
<1>13. count' \in Nat /\ count' <= Len(checks')
  BY <1>2, <1>3, <1>5
<1>14. Start' > 0 =>
        /\ checks'[Start'].at + Window <= clock'
        /\ \A i \in 1..Len(checks') : i > Start' => checks'[Start'].at + Window <= checks'[i].at
  BY <1>2, <1>5, <1>9, <1>11
<1> QED
  BY <1>2, <1>3, <1>5, <1>10, <1>12, <1>13, <1>14 DEF RateInv

LEMMA RateStep ==
  ASSUME RateInv, [ClientNext]_(clientVars)
  PROVE  RateInv'
<1>1. CASE Check
  BY <1>1, CheckCounts
<1>2. CASE ClockTick
  BY <1>2, ClockMoves DEF ClockTick, RateInv
<1>3. CASE SweepCounter
  BY <1>3, ClockMoves DEF SweepCounter, Dead, RateInv
<1>4. CASE UNCHANGED rateVars
  BY <1>4, ClockMoves DEF rateVars, RateInv
<1> QED
  BY <1>1, <1>2, <1>3, <1>4 DEF ClientNext, Counts, DeleteSession, Update,
     Read, Write, SetSession, clientVars

\* The counter of every reachable state is worth what RateInv says.
THEOREM RateInvariant == ClientSpec => []RateInv
<1>1. ClientInit => RateInv
  BY DEF ClientInit, RateInit, RateInv, Start
<1>2. RateInv /\ [ClientNext]_(clientVars) => RateInv'
  BY RateStep
<1> QED
  BY <1>1, <1>2, PTL DEF ClientSpec

\* The window that ends with the check that is made holds only checks of the
\* present life of the counter, and Limit of these are allowed.
LEMMA LatestWindow ==
  ASSUME RateInv, Check
  PROVE  LET n == Len(checks) + 1
         IN  Cardinality({j \in {k \in 1..n : checks'[k].at > checks'[n].at - Window} :
                            checks'[j].allowed}) <= Limit
<1>1. PICK n \in Nat : n = Len(checks)
  BY DEF RateInv
<1> DEFINE A == {j \in {k \in 1..(n + 1) : checks'[k].at > checks'[n + 1].at - Window} :
                   checks'[j].allowed}
<1>2. /\ RateInv' /\ Len(checks') = n + 1 /\ Start' = Start /\ clock' = clock
      /\ checks'[n + 1].at = clock
  <2>1. RateInv'
    BY CheckCounts
  <2>2. /\ clock' = clock /\ count' = count + 1
        /\ checks' = Append(checks, [at |-> clock, allowed |-> count + 1 <= Limit])
    BY DEF Check
  <2>3. Len(checks') = n + 1 /\ checks'[n + 1] = [at |-> clock, allowed |-> count + 1 <= Limit]
    BY <1>1, <2>2 DEF RateInv
  <2>4. count \in Nat /\ count' = count + 1 /\ Len(checks') = n + 1 /\ Len(checks) = n
    BY <1>1, <2>2, <2>3 DEF RateInv
  <2>5. Start' = Start
    BY <2>4 DEF Start
  <2>6. checks'[n + 1].at = clock
    BY <2>3
  <2> QED
    BY <2>1, <2>2, <2>3, <2>5, <2>6
<1>3. PICK s \in Int : s = Start /\ s >= 0 /\ s <= n /\ Limit \in Nat /\ Window \in Nat /\ Limit > 0
  BY <1>1, RateAssumption DEF RateInv, Start
<1>4. \A i \in 1..(n + 1) : checks'[i].at \in Nat
  BY <1>2, ChecksFit DEF RateInv
<1>5. ASSUME NEW j \in A
      PROVE  j \in (s + 1)..(s + Limit)
  <2>1. j \in 1..(n + 1) /\ checks'[j].at > clock - Window /\ checks'[j].allowed
    BY <1>2, <1>5
  <2>2. CASE j <= s
    <3>1. s \in 1..(n + 1) /\ s \in j..Len(checks') /\ s > 0
      BY <1>2, <1>3, <2>1, <2>2
    <3>2. \A i \in 1..(n + 1) : \A k \in i..Len(checks') : checks'[i].at <= checks'[k].at
      BY <1>2 DEF RateInv
    <3>3. checks'[j].at <= checks'[s].at
      BY <2>1, <3>1, <3>2
    <3>4. checks'[s].at + Window <= clock
      BY <1>2, <1>3, <3>1 DEF RateInv
    <3>5. checks'[j].at \in Nat /\ checks'[s].at \in Nat /\ clock \in Nat /\ Window \in Nat
      BY <1>3, <1>4, <2>1, <3>1 DEF RateInv
    <3>6. checks'[j].at > clock - Window
      BY <2>1
    <3> QED
      BY ONLY <3>3, <3>4, <3>5, <3>6
  <2>3. CASE j > s
    <3>1. j - s <= Limit
      BY <1>2, <1>3, <2>1, <2>3 DEF RateInv
    <3> QED
      BY <1>3, <2>1, <2>3, <3>1
  <2> QED
    BY <1>3, <2>1, <2>2, <2>3
<1>6. IsFiniteSet((s + 1)..(s + Limit)) /\ Cardinality((s + 1)..(s + Limit)) = Limit
  <2>1. s + 1 \in Int /\ s + Limit \in Int /\ s + 1 <= s + Limit /\ (s + Limit) - (s + 1) + 1 = Limit
    BY <1>3
  <2>2. Cardinality((s + 1)..(s + Limit)) = IF s + 1 > s + Limit THEN 0 ELSE (s + Limit) - (s + 1) + 1
    BY <2>1, FS_Interval
  <2> QED
    BY <2>1, <2>2, FS_Interval
<1>7. A \in SUBSET ((s + 1)..(s + Limit))
  BY <1>5
<1>8. Cardinality(A) <= Limit
  <2> HIDE DEF A
  <2> QED
    BY <1>6, <1>7, FS_Subset
<1> QED
  BY <1>1, <1>8

\* No window sees more than Limit allowed checks, wherever it begins.
THEOREM LimitHolds == ClientSpec => []NeverOverLimit
<1> DEFINE Seen(c, i) == {j \in {k \in 1..i : c[k].at > c[i].at - Window} : c[j].allowed}
<1>0. NeverOverLimit <=> \A i \in 1..Len(checks) : Cardinality(Seen(checks, i)) <= Limit
  BY DEF NeverOverLimit, InWindow
<1>1. ClientInit => NeverOverLimit
  BY DEF ClientInit, RateInit, NeverOverLimit
<1>2. ASSUME RateInv, NeverOverLimit,
             [ClientNext]_(clientVars)
      PROVE  NeverOverLimit'
  <2>1. CASE Check
    <3>1. PICK n \in Nat : n = Len(checks)
      BY <1>2 DEF RateInv
    <3>2. Len(checks') = n + 1 /\ \A i \in 1..n : checks'[i] = checks[i]
      BY <1>2, <2>1, <3>1 DEF Check, RateInv
    <3>3. Cardinality(Seen(checks', n + 1)) <= Limit
      BY <1>2, <2>1, <3>1, LatestWindow
    <3>4. ASSUME NEW i \in 1..n
          PROVE  Cardinality(Seen(checks', i)) <= Limit
      <4>1. Seen(checks', i) = Seen(checks, i)
        BY <3>2
      <4>2. Cardinality(Seen(checks, i)) <= Limit
        BY <1>0, <1>2, <3>1
      <4> QED
        BY <4>1, <4>2
    <3>5. \A i \in 1..Len(checks') : Cardinality(Seen(checks', i)) <= Limit
      <4> HIDE DEF Seen
      <4> QED
        BY <3>2, <3>3, <3>4
    <3> QED
      BY <3>5 DEF NeverOverLimit, InWindow
  <2>2. CASE UNCHANGED checks
    BY <1>2, <2>2 DEF NeverOverLimit, InWindow
  <2> QED
    BY <1>2, <2>1, <2>2 DEF ClientNext, Counts, DeleteSession, Update,
       Read, Write, SetSession, clientVars, rateVars, ClockTick,
       SweepCounter
<1> QED
  BY <1>1, <1>2, RateInvariant, PTL DEF ClientSpec

\* On Redis a caller who waits longer than it was told is let in, unless somebody
\* else checked in the meantime: by then the counter is forgotten.
THEOREM WaitersLetIn == ClientSpec => []RetryHonoured
<1>1. ClientInit => RetryHonoured
  BY DEF ClientInit, RateInit, RetryHonoured
<1>2. ASSUME RateInv, RetryHonoured,
             [ClientNext]_(clientVars)
      PROVE  RetryHonoured'
  <2>1. CASE Check
    <3>1. PICK n \in Nat : n = Len(checks)
      BY <1>2 DEF RateInv
    <3>2. /\ Len(checks') = n + 1 /\ \A i \in 1..n : checks'[i] = checks[i]
          /\ checks'[n + 1] = [at |-> clock, allowed |-> count + 1 <= Limit]
          /\ backend' = backend
      BY <1>2, <2>1, <3>1 DEF Check, RateInv
    <3> SUFFICES ASSUME backend = "redis", NEW i \in 2..(n + 1),
                        checks'[i].at - checks'[i - 1].at > Window
                 PROVE  checks'[i].allowed
      BY <3>2 DEF RetryHonoured, WaitedOut
    <3>3. CASE i \in 2..n
      <4>1. checks'[i] = checks[i] /\ checks'[i - 1] = checks[i - 1]
        BY <3>2, <3>3
      <4> QED
        BY <1>2, <3>1, <3>3, <4>1 DEF RetryHonoured, WaitedOut
    <3>4. CASE i = n + 1
      <4>1. n > 0 /\ n \in 1..n /\ i - 1 = n
        BY <3>4
      <4>2. checks'[i - 1] = checks[n] /\ until = checks[n].at + Window /\ checks[n].at \in Nat
        BY <1>2, <3>1, <3>2, <4>1, ChecksFit DEF RateInv
      <4>3. clock - checks[n].at > Window
        BY <3>2, <3>4, <4>2
      <4>4. count = 0
        <5>1. count \in Nat /\ clock \in Nat /\ (count > 0 => clock < until)
          BY <1>2 DEF RateInv
        <5>2. ~(clock < until)
          BY <4>2, <4>3, <5>1, RateAssumption
        <5> QED
          BY <5>1, <5>2
      <4> QED
        <5>1. count + 1 <= Limit
          BY <4>4, RateAssumption
        <5>2. PICK a : a = (count + 1 <= Limit) /\ a
          BY <5>1
        <5>3. checks'[i].allowed = a
          <6>1. checks'[i] = [at |-> clock, allowed |-> a]
            BY <3>2, <3>4, <5>2
          <6> QED
            BY <6>1
        <5> QED
          BY <5>2, <5>3
    <3> QED
      BY <3>3, <3>4
  <2>2. CASE UNCHANGED <<backend, checks>>
    BY <1>2, <2>2 DEF RetryHonoured, WaitedOut
  <2> QED
    BY <1>2, <2>1, <2>2 DEF ClientNext, Counts, DeleteSession, Update,
       Read, Write, SetSession, clientVars, rateVars, ClockTick,
       SweepCounter
<1> QED
  BY <1>1, <1>2, RateInvariant, PTL DEF ClientSpec
-----------------------------------------------------------------------------
\* What a caller has read holds what the session is owed, but for the fields set
\* since; nobody has read anything of the memory store without writing it.
SessionInv ==
  /\ clock \in Nat /\ ends \in Nat /\ backend \in {"redis", "memory"}
  /\ copy \in [Callers -> (SUBSET Callers) \cup {Nothing}]
  /\ after \in [Callers -> SUBSET Callers]
  /\ owed \subseteq fields /\ fields \subseteq Callers
  /\ \A c \in Callers : copy[c] # Nothing => Owed \ after[c] \subseteq copy[c]
  /\ backend = "memory" =>
       owed = fields /\ \A c \in Callers : copy[c] = Nothing /\ after[c] = {}

\* A session is alive right after it is written, and stays dead unless it is.
LEMMA AliveFacts ==
  ASSUME SessionInv, backend' = backend
  PROVE  /\ clock' = clock /\ ends' = clock + Ttl => Alive' /\ ends' \in Nat
         /\ clock' \in Nat /\ clock' >= clock /\ ends' = ends => (Alive' => Alive)
<1>1. Ttl \in Nat /\ Ttl > 0 /\ clock \in Nat /\ ends \in Nat
  <2>1. Ttl \in Nat \ {0}
    BY SessionAssumption
  <2>2. clock \in Nat /\ ends \in Nat
    BY DEF SessionInv
  <2> QED
    BY ONLY <2>1, <2>2
<1>2. CASE backend = "redis"
  <2>1. backend' = "redis"
    BY <1>2
  <2> QED
    BY ONLY <1>1, <1>2, <2>1 DEF Alive
<1>3. CASE backend # "redis"
  <2>1. backend' # "redis"
    BY <1>3
  <2> QED
    BY ONLY <1>1, <1>3, <2>1 DEF Alive
<1> QED
  BY <1>2, <1>3

LEMMA NothingRead ==
  Nothing \notin SUBSET Callers
BY SessionAssumption DEF Nothing

\* A session that is written with what is owed in it.
LEMMA WriteKeeps ==
  ASSUME SessionInv, NEW c \in Callers, NEW read \in SUBSET Callers,
         Writes(c, read), Owed \ after[c] \subseteq read,
         UNCHANGED <<backend, clock>>,
         copy' = [copy EXCEPT ![c] = Nothing],
         backend = "memory" => Owed = read
  PROVE  SessionInv'
<1>1. /\ fields' = read \cup {c} /\ ends' = clock + Ttl
      /\ owed' = (Owed \ after[c]) \cup {c}
      /\ after' = [d \in Callers |-> IF d = c \/ copy[d] = Nothing THEN {} ELSE after[d] \cup {c}]
  BY DEF Writes, Noted
<1>2. Owed' = owed' /\ ends' \in Nat
  BY <1>1, AliveFacts DEF Owed
<1>3. /\ after' \in [Callers -> SUBSET Callers]
      /\ copy' \in [Callers -> (SUBSET Callers) \cup {Nothing}]
      /\ \A d \in Callers : copy'[d] = IF d = c THEN Nothing ELSE copy[d]
  BY <1>1 DEF SessionInv
<1>4. owed' \subseteq fields' /\ fields' \subseteq Callers
  BY <1>1
<1>5. ASSUME NEW d \in Callers, copy'[d] # Nothing
      PROVE  Owed' \ after'[d] \subseteq copy'[d]
  <2>1. d # c /\ copy'[d] = copy[d] /\ after'[d] = after[d] \cup {c}
    BY <1>1, <1>3, <1>5
  <2>2. Owed \ after[d] \subseteq copy[d]
    BY <1>5, <2>1 DEF SessionInv
  <2> QED
    BY <1>1, <1>2, <2>1, <2>2
<1>6. backend = "memory" =>
        owed' = fields' /\ \A d \in Callers : copy'[d] = Nothing /\ after'[d] = {}
  <2>1. backend = "memory" => \A d \in Callers : copy[d] = Nothing /\ after[d] = {}
    BY DEF SessionInv
  <2> QED
    BY <1>1, <1>3, <2>1
<1> QED
  BY <1>2, <1>3, <1>4, <1>5, <1>6 DEF SessionInv

LEMMA SessionStep ==
  ASSUME SessionInv, [ClientNext]_(clientVars)
  PROVE  SessionInv'
<1>1. ASSUME UNCHANGED session, UNCHANGED backend, clock' \in Nat, clock' >= clock
      PROVE  SessionInv'
  <2>1. UNCHANGED <<fields, ends, copy, after, owed>>
    BY <1>1 DEF session
  <2>2. Owed' \subseteq Owed
    BY <1>1, <2>1, AliveFacts DEF Owed
  <2> QED
    BY <1>1, <2>1, <2>2 DEF SessionInv
<1>2. CASE Counts \/ UNCHANGED clientVars
  <2>1. UNCHANGED session /\ UNCHANGED backend /\ (clock' = clock \/ clock' = clock + 1)
    BY <1>2 DEF Counts, Check, SweepCounter, ClockTick, clientVars, rateVars
  <2>2. clock' \in Nat /\ clock' >= clock
    BY ONLY <2>1, SessionInv DEF SessionInv
  <2> QED
    BY <1>1, <2>1, <2>2
<1>3. CASE DeleteSession
  <2>1. /\ fields' = {} /\ owed' = {} /\ UNCHANGED <<backend, clock, ends, copy, after>>
        /\ Owed' = {}
    BY <1>3 DEF DeleteSession, rateVars, Owed
  <2> QED
    BY <2>1 DEF SessionInv
<1>4. ASSUME NEW c \in Callers, Update(c)
      PROVE  SessionInv'
  <2>1. /\ UNCHANGED <<backend, clock, copy>> /\ backend = "memory" /\ Stored \in SUBSET Callers
        /\ Writes(c, Stored) /\ Owed = Stored
    BY <1>4 DEF Update, rateVars, SessionInv, Stored, Owed
  <2>2. copy' = [copy EXCEPT ![c] = Nothing]
    BY <2>1 DEF SessionInv
  <2> QED
    BY <2>1, <2>2, WriteKeeps
<1>5. ASSUME NEW c \in Callers, Read(c)
      PROVE  SessionInv'
  <2>1. /\ backend = "redis" /\ UNCHANGED <<backend, clock, fields, ends, owed>>
        /\ copy' = [copy EXCEPT ![c] = Stored] /\ after' = [after EXCEPT ![c] = {}]
    BY <1>5 DEF Read, rateVars
  <2>2. Owed' = Owed /\ Owed \subseteq Stored /\ Stored \in SUBSET Callers
    BY <2>1 DEF Owed, Alive, Stored, SessionInv
  <2> QED
    BY <2>1, <2>2 DEF SessionInv
<1>6. ASSUME NEW c \in Callers, Write(c)
      PROVE  SessionInv'
  <2>1. /\ UNCHANGED <<backend, clock>> /\ copy[c] # Nothing /\ backend # "memory"
        /\ Writes(c, copy[c]) /\ copy' = [copy EXCEPT ![c] = Nothing]
        /\ copy[c] \in SUBSET Callers /\ Owed \ after[c] \subseteq copy[c]
    BY <1>6 DEF Write, rateVars, SessionInv
  <2> QED
    BY <2>1, WriteKeeps
<1>7. ASSUME NEW c \in Callers, SetSession(c)
      PROVE  SessionInv'
  <2>1. /\ UNCHANGED <<backend, clock, copy>> /\ fields' = {c} /\ owed' = {c} /\ ends' = clock + Ttl
        /\ after' = [d \in Callers |-> IF copy[d] = Nothing THEN {} ELSE after[d] \cup {c}]
    BY <1>7 DEF SetSession, rateVars
  <2>2. Owed' = {c} /\ ends' \in Nat
    BY <2>1, AliveFacts DEF Owed
  <2> QED
    BY <2>1, <2>2 DEF SessionInv
<1> QED
  BY <1>2, <1>3, <1>4, <1>5, <1>6, <1>7 DEF ClientNext

\* An update is kept until the session is set anew, deleted or dead, unless one that
\* began before it was written ends after it; the memory store keeps nothing else.
THEOREM UpdatesStay == ClientSpec => []UpdatesKept
<1>1. ClientInit => SessionInv
  <2> SUFFICES ASSUME ClientInit
               PROVE  SessionInv
    OBVIOUS
  <2>1. /\ backend \in {"redis", "memory"} /\ clock = 0 /\ ends = 0 /\ owed = {} /\ fields = {}
        /\ copy = [c \in Callers |-> Nothing] /\ after = [c \in Callers |-> {}]
        /\ Owed = {}
    BY DEF ClientInit, RateInit, Owed
  <2> QED
    BY <2>1 DEF SessionInv
<1>2. SessionInv /\ [ClientNext]_(clientVars) => SessionInv'
  BY SessionStep
<1>3. SessionInv => UpdatesKept
  BY DEF SessionInv, UpdatesKept, Owed, Stored
<1> QED
  BY <1>1, <1>2, <1>3, PTL DEF ClientSpec
=============================================================================
