----------------------------- MODULE AuthProofs -----------------------------
(***************************************************************************)
(* Proofs about Auth, for any users, roles, limits and bounds.             *)
(* BootstrapOnce does not tell which keys may share a secret, nor          *)
(* LostStaysOut what happens to the keys of a secret that is lost:         *)
(* KeysFit adds both.                                                      *)
(***************************************************************************)
EXTENDS Auth, SequenceLemmas

Key == [user : Users, role : Roles, raw : Nat \cup {Chosen}, expires : Nat \cup {Never},
        revoked : BOOLEAN, boot : BOOLEAN]

\* Only the operator chooses a secret, for a key of the bootstrap.
OwnSecret(i) == keys[i].raw = i \/ (keys[i].raw = Chosen /\ keys[i].boot)

\* Of two keys of the bootstrap one at least is revoked.
OneBoots(i, j) == i # j /\ keys[i].boot /\ keys[j].boot => keys[i].revoked \/ keys[j].revoked

KeysFit ==
  /\ keys \in Seq(Key)
  /\ \A i \in DOMAIN keys : OwnSecret(i)
  /\ \A i, j \in DOMAIN keys : OneBoots(i, j)
  /\ \A i \in DOMAIN keys : <<keys[i].raw>> \in lost => keys[i].revoked

\* What is lost is on the blacklist, as it was spelled, or the secret of a key.
TokensFit == \A t \in lost : t \in blacklist \/ Len(t) = 1

AuthInv == now \in Nat /\ KeysFit /\ TokensFit

\* The ways in which the keys change.
Adds(k) ==
  /\ k \in Key /\ ~k.revoked
  /\ k.raw = Len(keys) + 1 \/ (k.raw = Chosen /\ k.boot)
  /\ k.boot => \A i \in DOMAIN keys : keys[i].revoked
  /\ keys' = Append(keys, k)
  /\ lost' = lost \ {<<k.raw>>}

Revokes(i) ==
  /\ i \in DOMAIN keys /\ ~keys[i].revoked
  /\ keys' = [keys EXCEPT ![i].revoked = TRUE]
  /\ lost' = lost \cup {<<keys[i].raw>>}

LosesTokens ==
  /\ keys' = keys
  /\ \A t \in lost' : t \in lost \/ Len(t) = 2

\* Two keys that are honoured have different secrets.
LEMMA SecretsDiffer ==
  ASSUME KeysFit, NEW i \in DOMAIN keys, NEW j \in DOMAIN keys, i # j,
         ~keys[i].revoked, ~keys[j].revoked
  PROVE  keys[i].raw # keys[j].raw
<1>1. OwnSecret(i) /\ OwnSecret(j) /\ OneBoots(i, j)
  BY DEF KeysFit
<1>2. i \in Nat /\ j \in Nat /\ Chosen \notin Nat
  BY AuthAssumption DEF KeysFit
<1> QED
  BY <1>1, <1>2 DEF OwnSecret, OneBoots

LEMMA AddsFits ==
  ASSUME KeysFit, NEW k, Adds(k)
  PROVE  KeysFit'
<1> DEFINE n == Len(keys) + 1
<1>1. /\ keys' \in Seq(Key) /\ DOMAIN keys' = DOMAIN keys \cup {n} /\ n \notin DOMAIN keys
      /\ keys'[n] = k /\ \A i \in DOMAIN keys : keys'[i] = keys[i]
  BY DEF KeysFit, Adds
<1> HIDE DEF n
<1>2. \A i \in DOMAIN keys' : OwnSecret(i)'
  BY <1>1 DEF KeysFit, Adds, OwnSecret, n
<1>3. \A i, j \in DOMAIN keys' : OneBoots(i, j)'
  BY <1>1 DEF KeysFit, Adds, OneBoots
<1>4. \A i \in DOMAIN keys' : <<keys'[i].raw>> \in lost' => keys'[i].revoked
  BY <1>1 DEF KeysFit, Adds
<1> QED
  BY <1>1, <1>2, <1>3, <1>4 DEF KeysFit

LEMMA RevokesFits ==
  ASSUME KeysFit, NEW i, Revokes(i)
  PROVE  KeysFit'
<1>1. /\ keys' \in Seq(Key) /\ DOMAIN keys' = DOMAIN keys
      /\ \A j \in DOMAIN keys : j # i => keys'[j] = keys[j]
      /\ keys'[i].revoked = TRUE /\ keys'[i].raw = keys[i].raw /\ keys'[i].boot = keys[i].boot
  <2> DEFINE k == [keys[i] EXCEPT !.revoked = TRUE]
  <2>1. keys[i] \in Key /\ i \in 1..Len(keys) /\ keys \in Seq(Key)
    BY DEF KeysFit, Revokes
  <2>2. k \in Key /\ k.revoked = TRUE /\ k.raw = keys[i].raw /\ k.boot = keys[i].boot
    BY <2>1 DEF Key
  <2>3. keys' = [keys EXCEPT ![i] = k]
    BY DEF Revokes
  <2> HIDE DEF k
  <2>4. /\ keys' \in Seq(Key) /\ Len(keys') = Len(keys)
        /\ \A j \in 1..Len(keys) : keys'[j] = IF j = i THEN k ELSE keys[j]
    BY <2>1, <2>2, <2>3, ExceptSeq
  <2> QED
    BY <2>1, <2>2, <2>4
<1>2. \A j \in DOMAIN keys' : OwnSecret(j)'
  BY <1>1 DEF KeysFit, OwnSecret
<1>3. \A j, m \in DOMAIN keys' : OneBoots(j, m)'
  BY <1>1 DEF KeysFit, OneBoots
<1>4. ASSUME NEW j \in DOMAIN keys', <<keys'[j].raw>> \in lost', ~keys'[j].revoked
      PROVE  FALSE
  <2>1. j # i /\ keys'[j] = keys[j] /\ j \in DOMAIN keys /\ ~keys[j].revoked
    BY <1>1, <1>4
  <2>2. keys[j].raw # keys[i].raw
    BY <2>1, SecretsDiffer DEF Revokes
  <2>3. <<keys[j].raw>> \in lost
    BY <1>4, <2>1, <2>2 DEF Revokes
  <2> QED
    BY <2>1, <2>3 DEF KeysFit
<1> QED
  BY <1>1, <1>2, <1>3, <1>4 DEF KeysFit

LEMMA LosesFits ==
  ASSUME KeysFit, LosesTokens
  PROVE  KeysFit'
<1>1. ASSUME NEW i \in DOMAIN keys', <<keys'[i].raw>> \in lost'
      PROVE  keys'[i].revoked
  <2>1. Len(<<keys'[i].raw>>) = 1
    OBVIOUS
  <2>2. <<keys[i].raw>> \in lost /\ keys' = keys
    BY <1>1, <2>1 DEF LosesTokens
  <2> QED
    BY <1>1, <2>2 DEF KeysFit
<1> QED
  BY <1>1 DEF KeysFit, LosesTokens, OwnSecret, OneBoots

\* A new key takes nothing to the lost.
LEMMA TokensStay ==
  ASSUME TokensFit, NEW k, blacklist' = blacklist, lost' = lost \ {k}
  PROVE  TokensFit'
  BY DEF TokensFit

-----------------------------------------------------------------------------
LEMMA InitFits ==
  ASSUME Init
  PROVE  AuthInv
  BY DEF Init, AuthInv, KeysFit, TokensFit, OwnSecret, OneBoots

\* Every way of adding a key: of a handler, of the bootstrap, of the command line.
LEMMA AddKeyAdds ==
  ASSUME KeysFit, now \in Nat, NEW user \in Users, NEW role \in Roles, NEW raw, NEW life \in Nat,
         NEW boot \in BOOLEAN,
         AddKey(user, role, raw, life, boot),
         raw = Len(keys) + 1 \/ (raw = Chosen /\ boot),
         boot => ~Bootstrapped
  PROVE  \E k : Adds(k) /\ lost' = lost \ {<<k.raw>>}
<1> DEFINE k == [user |-> user, role |-> role, raw |-> raw, revoked |-> FALSE,
                 expires |-> IF life = 0 THEN Never ELSE now + life, boot |-> boot]
<1>1. Len(keys) \in Nat
  BY DEF KeysFit
<1>2. k \in Key
  BY <1>1 DEF Key
<1>3. boot => \A i \in DOMAIN keys : keys[i].revoked
  BY DEF Bootstrapped, ToSet
<1>4. keys' = Append(keys, k) /\ lost' = lost \ {<<raw>>}
  BY DEF AddKey
<1>5. Adds(k)
  BY <1>2, <1>3, <1>4 DEF Adds
<1> QED
  BY <1>5 DEF Adds

LEMMA CreateKeyFits ==
  ASSUME AuthInv, NEW r \in Clients, CreateKey(r)
  PROVE  AuthInv'
<1>1. PICK u \in Users, role \in Roles, life \in KeyLives : AddKey(u, role, Generated, life, FALSE)
  BY DEF CreateKey
<1>2. life \in Nat /\ now' = now /\ blacklist' = blacklist
  BY AuthAssumption DEF CreateKey, GoesOn
<1>3. PICK k : Adds(k) /\ lost' = lost \ {<<k.raw>>}
  BY <1>1, <1>2, AddKeyAdds DEF AuthInv, Generated
<1> QED
  BY <1>2, <1>3, AddsFits, TokensStay DEF AuthInv

LEMMA BootstrapFits ==
  ASSUME AuthInv, NEW r \in Clients, Bootstrap(r)
  PROVE  AuthInv'
<1>1. PICK u \in Users : AddKey(u, "admin", Generated, 0, TRUE)
  BY DEF Bootstrap
<1>2. /\ ~Bootstrapped /\ "admin" \in Roles
      /\ now' = now /\ blacklist' = blacklist
  BY AuthAssumption DEF Bootstrap, GoesOn
<1>3. PICK k : Adds(k) /\ lost' = lost \ {<<k.raw>>}
  BY <1>1, <1>2, AddKeyAdds DEF AuthInv, Generated
<1> QED
  BY <1>2, <1>3, AddsFits, TokensStay DEF AuthInv

LEMMA CommandLineFits ==
  ASSUME AuthInv, CommandLine
  PROVE  AuthInv'
<1>1. PICK u \in Users, life \in TokenLives \ {0} :
        AddKey(u, "admin", Chosen, 0, TRUE) /\ AddToken(u, "admin", life)
  BY DEF CommandLine
<1>2. ~Bootstrapped /\ "admin" \in Roles /\ now' = now /\ blacklist' = blacklist
  BY AuthAssumption DEF CommandLine
<1>3. PICK k : Adds(k) /\ lost' = lost \ {<<k.raw>>}
  BY <1>1, <1>2, AddKeyAdds DEF AuthInv
<1> QED
  BY <1>2, <1>3, AddsFits, TokensStay DEF AuthInv

LEMMA CreateTokenFits ==
  ASSUME AuthInv, NEW r \in Clients, CreateToken(r)
  PROVE  AuthInv'
<1>1. keys' = keys /\ blacklist' = blacklist /\ lost' = lost /\ now' = now
  BY DEF CreateToken, GoesOn
<1>2. LosesTokens
  BY <1>1 DEF LosesTokens
<1> QED
  BY <1>1, <1>2, LosesFits DEF AuthInv, TokensFit

LEMMA RevokeTokenFits ==
  ASSUME AuthInv, NEW r \in Clients, RevokeToken(r)
  PROVE  AuthInv'
<1>1. PICK p \in tokens \X Spellings : blacklist' = blacklist \cup {p} /\ lost' = lost \cup {p}
  BY DEF RevokeToken
<1>2. keys' = keys /\ now' = now /\ Len(p) = 2
  BY DEF RevokeToken, GoesOn
<1>3. LosesTokens
  BY <1>1, <1>2 DEF LosesTokens
<1>4. TokensFit'
  BY <1>1, <1>2 DEF AuthInv, TokensFit
<1> QED
  BY <1>2, <1>3, <1>4, LosesFits DEF AuthInv

LEMMA RevokeKeyFits ==
  ASSUME AuthInv, NEW c, RevokeKey(c)
  PROVE  AuthInv'
<1>1. PICK i \in DOMAIN keys : Revokes(i)
  BY DEF RevokeKey, Revokes
<1>2. blacklist' = blacklist /\ now' = now
  BY DEF RevokeKey
<1>3. Len(<<keys[i].raw>>) = 1
  OBVIOUS
<1>4. TokensFit'
  BY <1>1, <1>2, <1>3 DEF AuthInv, TokensFit, Revokes
<1> QED
  BY <1>1, <1>2, <1>4, RevokesFits DEF AuthInv

\* A step that leaves the credentials alone.
LEMMA StoredFits ==
  ASSUME AuthInv, UNCHANGED stored, now' \in Nat
  PROVE  AuthInv'
  BY DEF AuthInv, KeysFit, TokensFit, OwnSecret, OneBoots, stored

-----------------------------------------------------------------------------
\* The inductive invariant: whose secrets the keys are, and what is lost.
THEOREM CredentialsFit == Spec => []AuthInv
<1>1. ASSUME AuthInv, [Next]_vars
      PROVE  AuthInv'
  <2> USE <1>1
  <2>1. ASSUME NEW c \in Contexts, RevokeKey(c)
        PROVE  AuthInv'
    BY <2>1, RevokeKeyFits
  <2>2. ASSUME NEW c \in Contexts, TooMany(c) \/ Passes(c) \/ \E r \in Clients : Begins(r, c)
        PROVE  AuthInv'
    BY <2>2, StoredFits DEF AuthInv, TooMany, Passes, Begins
  <2>3. ASSUME NEW r \in Clients, CreateKey(r) \/ CreateToken(r) \/ RevokeToken(r) \/ Bootstrap(r)
        PROVE  AuthInv'
    BY <2>3, CreateKeyFits, CreateTokenFits, RevokeTokenFits, BootstrapFits
  <2>4. ASSUME NEW r \in Clients, Chat(r) \/ Abandon(r) \/ AsksToBootstrap(r)
        PROVE  AuthInv'
    BY <2>4, StoredFits DEF AuthInv, Chat, Abandon, AsksToBootstrap, GoesOn
  <2>5. CASE CommandLine
    BY <2>5, CommandLineFits
  <2>6. CASE Start \/ Stop
    BY <2>6, StoredFits DEF AuthInv, Start, Stop
  <2>7. CASE Tick
    BY <2>7, StoredFits DEF AuthInv, Tick
  <2>8. CASE UNCHANGED vars
    BY <2>8, StoredFits DEF AuthInv, vars
  <2> QED
    BY <2>1, <2>2, <2>3, <2>4, <2>5, <2>6, <2>7, <2>8 DEF Next
<1> QED
  BY <1>1, InitFits, PTL DEF Spec

\* Whatever handlers of the server bootstrap, and the command line while it is down, one
\* key at most of those not revoked comes from the bootstrap, and no secret has two.
THEOREM OneBootstrap == Spec => []BootstrapOnce
<1>1. AuthInv => BootstrapOnce
  BY SecretsDiffer DEF AuthInv, KeysFit, OneBoots, BootstrapOnce
<1> QED
  BY <1>1, CredentialsFit, PTL

\* No key that was revoked and not issued again is honoured, and no token as it was spelled
\* when it was revoked, whatever requests are under way and however often the server restarts.
THEOREM RevokedForGood == Spec => []LostStaysOut
<1>1. ASSUME AuthInv
      PROVE  LostStaysOut
  <2>1. ASSUME NEW k \in ToSet(keys), KeyHonoured(k)
        PROVE  <<k.raw>> \notin lost
    BY <1>1, <2>1 DEF AuthInv, KeysFit, ToSet, KeyHonoured
  <2>2. ASSUME NEW p \in tokens \X Spellings, TokenHonoured(p[1], p[2])
        PROVE  p \notin lost
    <3>1. p = <<p[1], p[2]>> /\ Len(p) = 2
      OBVIOUS
    <3> QED
      BY <1>1, <2>2, <3>1 DEF AuthInv, TokensFit, TokenHonoured
  <2> QED
    BY <2>1, <2>2 DEF LostStaysOut, Honoured
<1> QED
  BY <1>1, CredentialsFit, PTL

-----------------------------------------------------------------------------
(***************************************************************************)
(* The windows.  WithinRoleLimit tells how many requests a window holds    *)
(* now, and not how many it will when some have left it: WindowFits does,  *)
(* of every time to come.                                                  *)
(***************************************************************************)
WindowFits(u) ==
  /\ Ordered(windows[u], now)
  /\ \A t \in Nat : t >= now =>
       Cardinality(FreshAt(windows[u], Hour + 1, t)) = Before(u, t, Len(served))

Admissible ==
  \A n \in DOMAIN served : Before(served[n][1], served[n][3], n - 1) < Limit[served[n][2]]

RequestsFit ==
  /\ \A t \in tokens : t[1] \in Users /\ t[2] \in Roles
  /\ windows \in [Users -> Seq(Nat)]
  /\ served \in Seq(Users \X Roles \X Nat)
  /\ \A u \in Users : WindowFits(u)
  /\ Admissible

LEMMA RequestsBegin == Init => RequestsFit
<1> SUFFICES ASSUME Init
             PROVE  RequestsFit
  OBVIOUS
<1>1. windows \in [Users -> Seq(Nat)] /\ served = <<>> /\ served \in Seq(Users \X Roles \X Nat)
  BY DEF Init
<1>2. ASSUME NEW u \in Users
      PROVE  WindowFits(u)
  <2>1. windows[u] = <<>> /\ Ordered(windows[u], now)
    BY DEF Init, Ordered
  <2>2. ASSUME NEW t \in Nat
        PROVE  Cardinality(FreshAt(windows[u], Hour + 1, t)) = Before(u, t, Len(served))
    <3>1. FreshAt(windows[u], Hour + 1, t) = {}
      BY <2>1 DEF FreshAt
    <3>2. Before(u, t, Len(served)) = Cardinality({})
      BY <1>1 DEF Before
    <3> QED
      BY <3>1, <3>2
  <2> QED
    BY <2>1, <2>2 DEF WindowFits
<1>3. Admissible
  BY <1>1 DEF Admissible
<1> QED
  BY <1>1, <1>2, <1>3 DEF RequestsFit, Init

\* What check_rate_limit() keeps of a window is what it counts.
LEMMA RecentFits ==
  ASSUME now \in Nat, NEW u, WindowFits(u)
  PROVE  /\ Ordered(Recent(u), now)
         /\ Len(Recent(u)) = Before(u, now, Len(served))
         /\ \A t \in Nat : t >= now =>
              Cardinality(FreshAt(Recent(u), Hour + 1, t)) = Before(u, t, Len(served))
<1>1. Hour + 1 \in Nat
  BY AuthAssumption
<1>2. /\ Ordered(Recent(u), now)
      /\ Len(Recent(u)) = Cardinality(FreshAt(windows[u], Hour + 1, now))
      /\ \A t \in Nat : t >= now => Cardinality(FreshAt(Recent(u), Hour + 1, t)) =
                                    Cardinality(FreshAt(windows[u], Hour + 1, t))
  BY <1>1, PrunedFits DEF WindowFits, Recent
<1> QED
  BY <1>2 DEF WindowFits

\* One request more is one more for its own user, until its hour is over.
LEMMA OneMoreCounted ==
  ASSUME now \in Nat, served \in Seq(Users \X Roles \X Nat),
         NEW v \in Users, NEW role \in Roles, served' = Append(served, <<v, role, now>>)
  PROVE  /\ served' \in Seq(Users \X Roles \X Nat)
         /\ DOMAIN served' = DOMAIN served \cup {Len(served) + 1}
         /\ served'[Len(served) + 1] = <<v, role, now>>
         /\ \A n \in DOMAIN served : served'[n] = served[n]
         /\ \A u, t : \A n \in 0..Len(served) : Before(u, t, n)' = Before(u, t, n)
         /\ \A u : \A t \in Nat : Before(u, t, Len(served))' =
              Before(u, t, Len(served)) + (IF u = v /\ now + Hour >= t THEN 1 ELSE 0)
<1> DEFINE e == <<v, role, now>>
<1>1. PICK m \in Nat : m = Len(served) /\ DOMAIN served = 1..m
  OBVIOUS
<1>2. e \in Users \X Roles \X Nat /\ e[1] = v /\ e[2] = role /\ e[3] = now
  OBVIOUS
<1> HIDE DEF e
<1>3. /\ served' \in Seq(Users \X Roles \X Nat) /\ Len(served') = m + 1
      /\ DOMAIN served' = 1..(m + 1)
      /\ served'[m + 1] = e /\ \A n \in 1..m : served'[n] = served[n]
  BY <1>1, <1>2 DEF e
<1>4. ASSUME NEW u, NEW t, NEW n \in 0..m
      PROVE  Before(u, t, n)' = Before(u, t, n)
  <2>1. \A i \in 1..n : i \in 1..m
    BY <1>1
  <2> QED
    BY <1>3, <2>1 DEF Before
<1>5. ASSUME NEW u, NEW t \in Nat
      PROVE  Before(u, t, m + 1)' = Before(u, t, m) + (IF u = v /\ now + Hour >= t THEN 1 ELSE 0)
  <2> DEFINE old == {i \in 1..m : served[i][1] = u /\ served[i][3] + Hour >= t}
             new == {i \in 1..(m + 1) : served'[i][1] = u /\ served'[i][3] + Hour >= t}
  <2>1. IsFiniteSet(old) /\ Cardinality(old) \in Nat
    <3>1. IsFiniteSet(1..m)
      BY FS_Interval
    <3> QED
      BY <3>1, FS_Subset, FS_CardinalityType
  <2>2. m + 1 \notin old
    BY <1>1
  <2>3. \A i \in 1..(m + 1) : i \in 1..m \/ i = m + 1
    BY <1>1
  <2>4. CASE u = v /\ now + Hour >= t
    <3>1. new = old \cup {m + 1}
      BY <1>1, <1>2, <1>3, <2>3, <2>4
    <3> HIDE DEF old, new
    <3>2. Cardinality(new) = Cardinality(old) + 1
      BY <2>1, <2>2, <3>1, FS_AddElement
    <3> QED
      BY <2>4, <3>2 DEF Before, old, new
  <2>5. CASE ~(u = v /\ now + Hour >= t)
    <3>1. new = old
      BY <1>1, <1>2, <1>3, <2>3, <2>5
    <3> HIDE DEF old, new
    <3>2. Cardinality(new) = Cardinality(old) + 0
      BY <2>1, <3>1
    <3> QED
      BY <2>5, <3>2 DEF Before, old, new
  <2> QED
    BY <2>4, <2>5
<1> QED
  BY <1>1, <1>2, <1>3, <1>4, <1>5 DEF e

\* The middleware counts a request that is within the limit, or nothing.
LEMMA CountedFits ==
  ASSUME now \in Nat, RequestsFit, NEW u \in Users, NEW role \in Roles,
         Len(Recent(u)) < Limit[role],
         windows' = [windows EXCEPT ![u] = Append(Recent(u), now)],
         served' = Append(served, <<u, role, now>>), now' = now, tokens' = tokens
  PROVE  RequestsFit'
<1>1. PICK m \in Nat : m = Len(served) /\ DOMAIN served = 1..m
  BY DEF RequestsFit
<1>2. /\ served' \in Seq(Users \X Roles \X Nat) /\ Len(served') = m + 1
      /\ DOMAIN served' = 1..m \cup {m + 1}
      /\ served'[m + 1] = <<u, role, now>>
      /\ \A n \in 1..m : served'[n] = served[n]
      /\ \A v, t : \A n \in 0..m : Before(v, t, n)' = Before(v, t, n)
      /\ \A v : \A t \in Nat : Before(v, t, m + 1)' =
           Before(v, t, m) + (IF v = u /\ now + Hour >= t THEN 1 ELSE 0)
  BY <1>1, OneMoreCounted DEF RequestsFit
<1>3. /\ Ordered(Recent(u), now) /\ Len(Recent(u)) = Before(u, now, m)
      /\ \A t \in Nat : t >= now =>
           Cardinality(FreshAt(Recent(u), Hour + 1, t)) = Before(u, t, m)
  BY <1>1, RecentFits DEF RequestsFit
<1>4. Hour \in Nat /\ Hour + 1 \in Nat /\ now + (Hour + 1) \in Nat
  BY AuthAssumption
<1>5. /\ Ordered(Append(Recent(u), now), now)
      /\ \A t \in Nat : Counts(now, Hour + 1, t) =>
           Cardinality(FreshAt(Append(Recent(u), now), Hour + 1, t)) =
             Cardinality(FreshAt(Recent(u), Hour + 1, t)) + 1
      /\ \A t \in Nat : ~Counts(now, Hour + 1, t) =>
           Cardinality(FreshAt(Append(Recent(u), now), Hour + 1, t)) =
             Cardinality(FreshAt(Recent(u), Hour + 1, t))
  BY <1>3, <1>4, LongerFits
<1>6. windows' \in [Users -> Seq(Nat)] /\ windows'[u] = Append(Recent(u), now)
      /\ \A v \in Users : v # u => windows'[v] = windows[v]
  BY <1>5 DEF RequestsFit, Ordered
<1>7. ASSUME NEW v \in Users
      PROVE  WindowFits(v)'
  <2>0. \A t : Before(v, t, m) \in Nat
    <3>1. IsFiniteSet(1..m)
      BY FS_Interval
    <3> QED
      BY <3>1, FS_Subset, FS_CardinalityType DEF Before
  <2>1. ASSUME NEW t \in Nat, t >= now
        PROVE  Cardinality(FreshAt(windows'[v], Hour + 1, t)) = Before(v, t, m + 1)'
    <3>1. CASE v = u
      <4>1. Counts(now, Hour + 1, t) <=> now + Hour >= t
        BY <1>4 DEF Counts
      <4>2. Cardinality(FreshAt(Recent(u), Hour + 1, t)) = Before(u, t, m)
        BY <1>3, <2>1
      <4>3. CASE now + Hour >= t
        <5>1. Before(u, t, m + 1)' = Before(u, t, m) + 1
          BY <1>2, <4>3
        <5>2. Cardinality(FreshAt(Append(Recent(u), now), Hour + 1, t)) = Before(u, t, m) + 1
          BY <1>5, <4>1, <4>2, <4>3
        <5> QED
          BY <1>6, <3>1, <5>1, <5>2
      <4>4. CASE ~(now + Hour >= t)
        <5>1. Before(u, t, m + 1)' = Before(u, t, m) + 0
          BY <1>2, <4>4
        <5>2. Cardinality(FreshAt(Append(Recent(u), now), Hour + 1, t)) = Before(u, t, m)
          BY <1>5, <4>1, <4>2, <4>4
        <5> QED
          BY <1>6, <2>0, <3>1, <5>1, <5>2
      <4> QED
        BY <4>3, <4>4
    <3>2. CASE v # u
      <4>1. Cardinality(FreshAt(windows[v], Hour + 1, t)) = Before(v, t, m)
        BY <1>1, <2>1 DEF RequestsFit, WindowFits
      <4> QED
        BY <1>2, <1>6, <2>0, <3>2, <4>1
    <3> QED
      BY <3>1, <3>2
  <2>2. Ordered(windows'[v], now)
    BY <1>5, <1>6 DEF RequestsFit, WindowFits
  <2> QED
    BY <1>2, <2>1, <2>2 DEF WindowFits
<1>8. ASSUME NEW n \in DOMAIN served'
      PROVE  (Before(served[n][1], served[n][3], n - 1) < Limit[served[n][2]])'
  <2>1. CASE n \in 1..m
    <3>1. n - 1 \in 0..m /\ n \in DOMAIN served
      BY <1>1, <2>1
    <3>2. Before(served[n][1], served[n][3], n - 1) < Limit[served[n][2]]
      BY <3>1 DEF RequestsFit, Admissible
    <3> QED
      BY <1>2, <2>1, <3>1, <3>2
  <2>2. CASE n = m + 1
    <3>1. n - 1 = m /\ m \in 0..m
      BY <1>1, <2>2
    <3> QED
      BY <1>2, <1>3, <2>2, <3>1
  <2> QED
    BY <1>2, <2>1, <2>2
<1> QED
  BY <1>2, <1>6, <1>7, <1>8 DEF RequestsFit, Admissible

\* Who may be in the credentials.
LEMMA ContextTyped ==
  ASSUME AuthInv, RequestsFit, NEW c \in Contexts
  PROVE  c.user \in Users /\ c.role \in Roles
<1>1. \A k \in ToSet(keys) : k.user \in Users /\ k.role \in Roles
  <2>1. \A i \in DOMAIN keys : keys[i] \in Key
    BY DEF AuthInv, KeysFit
  <2>2. \A k \in Key : k.user \in Users /\ k.role \in Roles
    BY DEF Key
  <2> QED
    BY <2>1, <2>2 DEF ToSet
<1> QED
  BY <1>1 DEF Contexts, Honoured, RequestsFit

\* What leaves the windows alone.
LEMMA WindowsStay ==
  ASSUME now \in Nat, RequestsFit, UNCHANGED <<windows, served>>, now' \in Nat, now' >= now,
         \A t \in tokens' : t[1] \in Users /\ t[2] \in Roles
  PROVE  RequestsFit'
<1>1. ASSUME NEW u \in Users
      PROVE  WindowFits(u)'
  <2>1. Ordered(windows[u], now')
    BY DEF RequestsFit, WindowFits, Ordered
  <2>2. \A t \in Nat : t >= now' => t >= now
    OBVIOUS
  <2> QED
    BY <2>1, <2>2 DEF RequestsFit, WindowFits, Before
<1> QED
  BY <1>1 DEF RequestsFit, Admissible, Before

LEMMA AdmittedFits ==
  ASSUME AuthInv, RequestsFit, NEW c \in Contexts, Admitted(c), now' = now, tokens' = tokens
  PROVE  RequestsFit'
<1>1. CASE UNCHANGED <<windows, served>>
  BY <1>1, WindowsStay DEF AuthInv, RequestsFit
<1>2. CASE /\ Len(Recent(c.user)) < Limit[c.role]
           /\ windows' = [windows EXCEPT ![c.user] = Append(Recent(c.user), now)]
           /\ served' = Append(served, <<c.user, c.role, now>>)
  BY <1>2, ContextTyped, CountedFits DEF AuthInv
<1> QED
  BY <1>1, <1>2 DEF Admitted

LEMMA TooManyFits ==
  ASSUME AuthInv, RequestsFit, NEW c \in Contexts, TooMany(c)
  PROVE  RequestsFit'
<1>1. c.user \in Users
  BY ContextTyped
<1>2. /\ windows' = [windows EXCEPT ![c.user] = Recent(c.user)]
      /\ served' = served /\ now' = now /\ tokens' = tokens
  BY DEF TooMany, stored
<1>3. /\ Ordered(Recent(c.user), now)
      /\ \A t \in Nat : t >= now =>
           Cardinality(FreshAt(Recent(c.user), Hour + 1, t)) = Before(c.user, t, Len(served))
  BY <1>1, RecentFits DEF AuthInv, RequestsFit
<1>4. /\ windows' \in [Users -> Seq(Nat)] /\ windows'[c.user] = Recent(c.user)
      /\ \A v \in Users : v # c.user => windows'[v] = windows[v]
  BY <1>1, <1>2, <1>3 DEF RequestsFit, Ordered
<1>5. ASSUME NEW v \in Users
      PROVE  WindowFits(v)'
  <2>1. CASE v = c.user
    BY <1>2, <1>3, <1>4, <2>1 DEF WindowFits, Before
  <2>2. CASE v # c.user
    <3>1. WindowFits(v) /\ windows'[v] = windows[v]
      BY <1>4, <2>2 DEF RequestsFit
    <3> QED
      BY <1>2, <3>1 DEF WindowFits, Before
  <2> QED
    BY <2>1, <2>2
<1> QED
  BY <1>2, <1>4, <1>5 DEF RequestsFit, Admissible, Before

LEMMA NewTokenTyped ==
  ASSUME RequestsFit, NEW u \in Users, NEW role \in Roles, NEW life, AddToken(u, role, life)
  PROVE  \A t \in tokens' : t[1] \in Users /\ t[2] \in Roles
<1>1. <<u, role, now, now + life>>[1] = u /\ <<u, role, now, now + life>>[2] = role
  OBVIOUS
<1> QED
  BY <1>1 DEF RequestsFit, AddToken

\* The windows and the requests die together.
LEMMA StopFits ==
  ASSUME RequestsFit, Stop
  PROVE  RequestsFit'
<1>1. /\ windows' = [u \in Users |-> <<>>] /\ served' = <<>> /\ tokens' = tokens
      /\ served' \in Seq(Users \X Roles \X Nat)
  BY DEF Stop, stored
<1>2. ASSUME NEW u \in Users
      PROVE  WindowFits(u)'
  <2>1. windows'[u] = <<>> /\ Ordered(windows'[u], now')
    BY <1>1 DEF Ordered
  <2>2. ASSUME NEW t \in Nat
        PROVE  (Cardinality(FreshAt(windows[u], Hour + 1, t)) = Before(u, t, Len(served)))'
    <3>1. FreshAt(windows'[u], Hour + 1, t) = {}
      BY <2>1 DEF FreshAt
    <3>2. Before(u, t, Len(served))' = Cardinality({})
      BY <1>1 DEF Before
    <3> QED
      BY <3>1, <3>2
  <2> QED
    BY <2>1, <2>2 DEF WindowFits
<1> QED
  BY <1>1, <1>2 DEF RequestsFit, Admissible

\* The inductive invariant of the windows.
THEOREM WindowsFit == Spec => []RequestsFit
<1>1. ASSUME AuthInv, RequestsFit, [Next]_vars
      PROVE  RequestsFit'
  <2> USE <1>1
  <2>0. now \in Nat /\ \A t \in tokens : t[1] \in Users /\ t[2] \in Roles
    BY DEF AuthInv, RequestsFit
  <2>1. ASSUME NEW c \in Contexts, TooMany(c)
        PROVE  RequestsFit'
    BY <2>1, TooManyFits
  <2>2. ASSUME NEW c \in Contexts, Passes(c) \/ RevokeKey(c) \/ \E r \in Clients : Begins(r, c)
        PROVE  RequestsFit'
    <3>1. Admitted(c) /\ now' = now /\ tokens' = tokens
      BY <2>2 DEF Passes, RevokeKey, Begins, stored
    <3> QED
      BY <3>1, AdmittedFits
  <2>3. ASSUME NEW r \in Clients, CreateToken(r)
        PROVE  RequestsFit'
    <3>1. UNCHANGED <<windows, served, now>>
      BY <2>3 DEF CreateToken, GoesOn
    <3>2. \A t \in tokens' : t[1] \in Users /\ t[2] \in Roles
      BY <2>3, NewTokenTyped DEF CreateToken
    <3> QED
      BY <2>0, <3>1, <3>2, WindowsStay
  <2>4. CASE CommandLine
    <3>1. UNCHANGED <<windows, served, now>>
      BY <2>4 DEF CommandLine
    <3>2. \A t \in tokens' : t[1] \in Users /\ t[2] \in Roles
      BY <2>4, AuthAssumption, NewTokenTyped DEF CommandLine
    <3> QED
      BY <2>0, <3>1, <3>2, WindowsStay
  <2>5. ASSUME NEW r \in Clients,
               CreateKey(r) \/ RevokeToken(r) \/ Chat(r) \/ Abandon(r) \/ AsksToBootstrap(r) \/ Bootstrap(r)
        PROVE  RequestsFit'
    <3>1. UNCHANGED <<windows, served, now, tokens>>
      BY <2>5 DEF CreateKey, RevokeToken, Chat, Abandon, AsksToBootstrap, Bootstrap, GoesOn, stored
    <3> QED
      BY <2>0, <3>1, WindowsStay
  <2>6. CASE Stop
    BY <2>6, StopFits
  <2>7. CASE Start \/ UNCHANGED vars
    <3>1. UNCHANGED <<windows, served, now, tokens>>
      BY <2>7 DEF Start, vars, stored
    <3> QED
      BY <2>0, <3>1, WindowsStay
  <2>8. CASE Tick
    <3>1. UNCHANGED <<windows, served, tokens>> /\ now' = now + 1
      BY <2>8 DEF Tick, stored
    <3> QED
      BY <2>0, <3>1, WindowsStay
  <2> QED
    BY <2>1, <2>2, <2>3, <2>4, <2>5, <2>6, <2>7, <2>8 DEF Next
<1> QED
  BY <1>1, RequestsBegin, CredentialsFit, PTL DEF Spec

\* No user is served more than the limit of the role allows in any hour, whatever roles
\* the user's keys and tokens have, and the window neither forgets a request of the last
\* hour nor holds an older one against anyone.
THEOREM WithinHour == Spec => []WithinRoleLimit
<1>1. AuthInv /\ RequestsFit => WithinRoleLimit
  BY RecentFits DEF AuthInv, RequestsFit, Admissible, WithinRoleLimit
<1> QED
  BY <1>1, CredentialsFit, WindowsFit, PTL

-----------------------------------------------------------------------------
\* The ids that begin with the owner, and go on; and what a user chatted in is among them.
Within(u, s) == s \in Seq(Parts) /\ IsPrefix(OwnedBy(u), s) /\ Len(s) > Len(OwnedBy(u))
Owned ==
  /\ chats \subseteq Seq(Parts)
  /\ \A o \in opened : o[1] \in UserIds /\ o[2] \in chats /\ Within(o[1], o[2])

LEMMA IdsAreSequences ==
  /\ \A s \in UserIds \cup Asked : s \in Seq(Parts) /\ Len(s) \in Nat /\ Len(s) # 0
  /\ \A u \in UserIds : Len(u) = 1 => u = <<u[1]>>
<1>1. \A s \in UserIds \cup Asked : s \in Seq(Parts) /\ s # <<>>
  BY IdAssumption
<1>2. \A s \in Seq(Parts) : (s # <<>> => Len(s) # 0) /\ (Len(s) = 1 => s = <<s[1]>>)
  OBVIOUS
<1> QED
  BY <1>1, <1>2

\* What an id with an owner begins with.
LEMMA OwnerFirst ==
  ASSUME NEW u \in Seq(Parts)
  PROVE  /\ OwnedBy(u) \in Seq(Parts) /\ Len(OwnedBy(u)) = Len(u) + 1
         /\ OwnedBy(u)[1] = "owned" /\ \A i \in 1..Len(u) : OwnedBy(u)[i + 1] = u[i]
<1>1. "owned" \in Parts
  BY IdAssumption
<1>2. \A p \in Parts : /\ <<p>> \o u \in Seq(Parts) /\ Len(<<p>> \o u) = Len(u) + 1
                      /\ (<<p>> \o u)[1] = p /\ \A i \in 1..Len(u) : (<<p>> \o u)[i + 1] = u[i]
  OBVIOUS
<1> QED
  BY <1>1, <1>2 DEF OwnedBy

LEMMA PrefixIs ==
  ASSUME NEW s \in Seq(Parts), NEW t \in Seq(Parts)
  PROVE  IsPrefix(s, t) <=> Len(s) <= Len(t) /\ \A i \in 1..Len(s) : s[i] = t[i]
  BY DEF IsPrefix

\* Two whose ids an id begins with are kin.
LEMMA WithinBoth ==
  ASSUME NEW u \in Seq(Parts), NEW v \in Seq(Parts), NEW s, Within(u, s), Within(v, s)
  PROVE  Kin(u, v)
<1>0. ASSUME NEW w \in {u, v}
      PROVE  \A i \in 1..Len(w) : w[i] = s[i + 1]
  <2>1. /\ OwnedBy(w) \in Seq(Parts) /\ Len(OwnedBy(w)) = Len(w) + 1
        /\ \A i \in 1..Len(w) : OwnedBy(w)[i + 1] = w[i]
    BY OwnerFirst
  <2>2. \A i \in 1..Len(OwnedBy(w)) : OwnedBy(w)[i] = s[i]
    BY <2>1, PrefixIs DEF Within
  <2>3. Len(w) \in Nat
    OBVIOUS
  <2> QED
    BY <2>1, <2>2, <2>3
<1>1. (\A i \in 1..Len(u) : u[i] = s[i + 1]) /\ \A i \in 1..Len(v) : v[i] = s[i + 1]
  BY <1>0
<1>2. CASE Len(u) <= Len(v)
  BY <1>1, <1>2, PrefixIs DEF Kin
<1>3. CASE Len(v) <= Len(u)
  BY <1>1, <1>3, PrefixIs DEF Kin
<1> QED
  BY <1>2, <1>3

LEMMA OwnerOfOne ==
  ASSUME NEW u \in Seq(Parts), Len(u) = 1
  PROVE  /\ OwnedBy(u) \in Seq(Parts) /\ Len(OwnedBy(u)) = 2
         /\ OwnedBy(u)[1] = "owned" /\ OwnedBy(u)[2] = u[1]
<1>1. /\ OwnedBy(u) \in Seq(Parts) /\ Len(OwnedBy(u)) = Len(u) + 1
      /\ OwnedBy(u)[1] = "owned" /\ \A i \in 1..Len(u) : OwnedBy(u)[i + 1] = u[i]
  BY OwnerFirst
<1>2. 1 \in 1..Len(u) /\ 1 + 1 = 2
  OBVIOUS
<1> QED
  BY <1>1, <1>2

\* What scoped_session_id() gives a user is the user's own.
LEMMA ScopedWithin ==
  ASSUME NEW u \in UserIds, NEW s \in Asked
  PROVE  Within(u, Scoped(u, s))
<1>1. u \in Seq(Parts) /\ s \in Seq(Parts) /\ Len(s) \in Nat /\ Len(s) # 0
  BY IdsAreSequences
<1>0. u # <<"">>
  BY IdAssumption
<1>2. CASE SessionOwner(s) = u
  <2>1. Len(s) > 2 /\ s[1] = "owned" /\ u = <<s[2]>>
    BY <1>0, <1>2 DEF SessionOwner
  <2>2. Len(u) = 1 /\ u[1] = s[2]
    BY <2>1
  <2>3. /\ OwnedBy(u) \in Seq(Parts) /\ Len(OwnedBy(u)) = 2
        /\ OwnedBy(u)[1] = s[1] /\ OwnedBy(u)[2] = s[2]
    BY <1>1, <2>1, <2>2, OwnerOfOne
  <2>4. \A i \in 1..2 : i = 1 \/ i = 2
    OBVIOUS
  <2> QED
    BY <1>1, <1>2, <2>1, <2>3, <2>4, PrefixIs DEF Within, Scoped
<1>3. CASE SessionOwner(s) # u
  <2>1. Scoped(u, s) = OwnedBy(u) \o s /\ OwnedBy(u) \in Seq(Parts)
    BY <1>1, <1>3, OwnerFirst DEF Scoped
  <2>2. /\ Scoped(u, s) \in Seq(Parts) /\ Len(Scoped(u, s)) = Len(OwnedBy(u)) + Len(s)
        /\ \A i \in 1..Len(OwnedBy(u)) : Scoped(u, s)[i] = OwnedBy(u)[i]
    BY <1>1, <2>1
  <2>3. Len(OwnedBy(u)) < Len(Scoped(u, s))
    BY <1>1, <2>1, <2>2
  <2>4. IsPrefix(OwnedBy(u), Scoped(u, s))
    <3> DEFINE p == OwnedBy(u)
               t == Scoped(u, s)
    <3>1. /\ p \in Seq(Parts) /\ t \in Seq(Parts) /\ Len(p) < Len(t)
          /\ \A i \in 1..Len(p) : t[i] = p[i]
      BY <2>1, <2>2, <2>3
    <3> HIDE DEF p, t
    <3> QED
      BY <3>1, PrefixIs DEF p, t
  <2> QED
    BY <2>2, <2>3, <2>4 DEF Within
<1> QED
  BY <1>2, <1>3

\* A user without a colon is the owner of whatever it sees.
LEMMA OwnerReadBack ==
  ASSUME NEW u \in UserIds, Len(u) = 1, NEW s, Within(u, s)
  PROVE  SessionOwner(s) = u
<1>1. u \in Seq(Parts) /\ u = <<u[1]>>
  BY IdsAreSequences
<1>2. /\ OwnedBy(u) \in Seq(Parts) /\ Len(OwnedBy(u)) = 2
      /\ OwnedBy(u)[1] = "owned" /\ OwnedBy(u)[2] = u[1]
  BY <1>1, OwnerOfOne
<1>3. s \in Seq(Parts) /\ Len(s) > 2 /\ \A i \in 1..2 : OwnedBy(u)[i] = s[i]
  BY <1>2, PrefixIs DEF Within
<1>4. s[1] = "owned" /\ s[2] = u[1]
  BY <1>2, <1>3
<1> QED
  BY <1>1, <1>3, <1>4 DEF SessionOwner

\* What a handler goes on with, and whose chat it is.
Doing == {Idle, Op("manage", <<>>), Op("bootstrap", <<>>)} \cup {Op("chat", u) : u \in UserIds}

SessionsFit == Owned /\ doing \in [Clients -> Doing]

LEMMA ChatFits ==
  ASSUME SessionsFit, NEW r \in Clients, Chat(r)
  PROVE  SessionsFit'
<1> DEFINE u == doing[r].user
<1>1. doing[r] \in Doing /\ doing[r].op = "chat" /\ doing' = [doing EXCEPT ![r] = Idle]
  BY DEF SessionsFit, Chat, GoesOn
<1>2. u \in UserIds
  BY <1>1 DEF Doing, Op, Idle
<1>3. PICK s \in Asked : chats' = chats \cup {Scoped(u, s)} /\ opened' = opened \cup {<<u, Scoped(u, s)>>}
  BY DEF Chat
<1>4. Within(u, Scoped(u, s))
  BY <1>2, ScopedWithin
<1> HIDE DEF u
<1>5. Owned'
  BY <1>2, <1>3, <1>4 DEF SessionsFit, Owned, Within
<1>6. doing' \in [Clients -> Doing]
  BY <1>1 DEF SessionsFit, Doing
<1> QED
  BY <1>5, <1>6 DEF SessionsFit

LEMMA OwnedIsKin ==
  ASSUME Owned
  PROVE  SessionsOwned
<1> SUFFICES ASSUME NEW u \in UserIds
             PROVE  /\ \A o \in opened : o[2] \in Visible(u) => Kin(u, o[1])
                    /\ \A o \in opened : o[1] = u => o[2] \in Visible(u)
                    /\ Len(u) = 1 => \A s \in Visible(u) : MayName(u, s) /\ Scoped(u, s) = s
  BY DEF SessionsOwned
<1>1. ASSUME NEW o \in opened, o[2] \in Visible(u)
      PROVE  Kin(u, o[1])
  <2>1. Within(u, o[2]) /\ Within(o[1], o[2]) /\ o[1] \in Seq(Parts) /\ u \in Seq(Parts)
    BY <1>1, IdsAreSequences DEF Owned, Visible, Within
  <2> QED
    BY <2>1, WithinBoth
<1>2. ASSUME NEW o \in opened, o[1] = u
      PROVE  o[2] \in Visible(u)
  BY <1>2 DEF Owned, Visible, Within
<1>3. ASSUME Len(u) = 1, NEW s \in Visible(u)
      PROVE  MayName(u, s) /\ Scoped(u, s) = s
  <2>1. Within(u, s)
    BY DEF Owned, Visible, Within
  <2>2. SessionOwner(s) = u
    BY <1>3, <2>1, OwnerReadBack
  <2> QED
    BY <2>2 DEF MayName, Scoped
<1> QED
  BY <1>1, <1>2, <1>3

\* Who chats in a session sees it, and of the others only those whose id goes on after that
\* user's and a colon, or the other way round; a user without a colon can name it again.
THEOREM SessionsStay == Spec => []SessionsOwned
<1>1. Init => SessionsFit
  BY DEF Init, SessionsFit, Owned, Doing
<1>2. ASSUME AuthInv, RequestsFit, SessionsFit, [Next]_vars
      PROVE  SessionsFit'
  <2> USE <1>2
  <2>1. ASSUME NEW r \in Clients, Chat(r)
        PROVE  SessionsFit'
    BY <2>1, ChatFits
  <2>2. ASSUME NEW c \in Contexts, NEW r \in Clients, Begins(r, c)
        PROVE  SessionsFit'
    <3>1. c.user \in UserIds
      BY ContextTyped, AuthAssumption
    <3>2. PICK d \in Doing : doing' = [doing EXCEPT ![r] = d]
      BY <2>2, <3>1 DEF Begins, Doing
    <3>3. UNCHANGED sessions
      BY <2>2 DEF Begins
    <3> QED
      BY <3>2, <3>3 DEF SessionsFit, Owned, sessions
  <2>3. ASSUME NEW r \in Clients, NEW d \in Doing, doing' = [doing EXCEPT ![r] = d], UNCHANGED sessions
        PROVE  SessionsFit'
    BY <2>3 DEF SessionsFit, Owned, sessions
  <2>4. ASSUME NEW r \in Clients,
               CreateKey(r) \/ CreateToken(r) \/ RevokeToken(r) \/ Abandon(r) \/ AsksToBootstrap(r) \/ Bootstrap(r)
        PROVE  SessionsFit'
    <3>1. PICK d \in Doing : doing' = [doing EXCEPT ![r] = d]
      BY <2>4 DEF CreateKey, CreateToken, RevokeToken, Abandon, AsksToBootstrap, Bootstrap, GoesOn, Doing
    <3>2. UNCHANGED sessions
      BY <2>4 DEF CreateKey, CreateToken, RevokeToken, Abandon, AsksToBootstrap, Bootstrap
    <3> QED
      BY <2>3, <3>1, <3>2
  <2>5. CASE Stop
    BY <2>5 DEF Stop, SessionsFit, Owned, sessions, Doing
  <2>6. CASE UNCHANGED <<doing, sessions>>
    BY <2>6 DEF SessionsFit, Owned, sessions
  <2> QED
    BY <2>1, <2>2, <2>4, <2>5, <2>6
    DEF Next, vars, TooMany, Passes, RevokeKey, CommandLine, Start, Tick
<1>3. SessionsFit => SessionsOwned
  BY OwnedIsKin DEF SessionsFit
<1> QED
  BY <1>1, <1>2, <1>3, CredentialsFit, WindowsFit, PTL DEF Spec
=============================================================================
