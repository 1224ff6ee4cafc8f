---------------------------- MODULE SequenceLemmas --------------------------
(***************************************************************************)
(* What pruning and lengthening a window does to the number of its times   *)
(* that are fresh, now and at any time to come; and what is left of a      *)
(* sequence that is filtered or sorted.                                    *)
(***************************************************************************)
EXTENDS Windows, Ranks, SequencesExt, SequenceTheorems, FiniteSetTheorems, FunctionTheorems, TLAPS

\* The times of a window, none of them to come.
Ordered(w, now) ==
  /\ w \in Seq(Nat)
  /\ \A i, j \in DOMAIN w : i <= j => w[i] <= w[j]
  /\ \A i \in DOMAIN w : w[i] <= now

-----------------------------------------------------------------------------
\* A set of positions that holds all below any of its own is an initial segment.
LEMMA InitialSegment ==
  ASSUME NEW n \in Nat, NEW S \in SUBSET (1..n), \A i \in S : \A j \in 1..i : j \in S
  PROVE  /\ IsFiniteSet(S) /\ Cardinality(S) \in 0..n
         /\ S = 1..Cardinality(S)
<1>1. IsFiniteSet(1..n) /\ Cardinality(1..n) = n
  BY FS_Interval
<1>2. IsFiniteSet(S) /\ Cardinality(S) \in 0..n
  <2>1. IsFiniteSet(S) /\ Cardinality(S) <= n
    <3>1. S \in SUBSET (1..n)
      OBVIOUS
    <3> QED
      BY ONLY <1>1, <3>1, FS_Subset
  <2>2. Cardinality(S) \in Nat
    BY <2>1, FS_CardinalityType
  <2> QED
    BY <2>1, <2>2
<1> DEFINE k == Cardinality(S)
<1>3. k \in Nat /\ IsFiniteSet(1..k) /\ Cardinality(1..k) = k
  BY <1>2, FS_Interval
<1>4. ASSUME NEW i \in S
      PROVE  i \in 1..k
  <2>1. 1..i \in SUBSET S /\ i \in Nat
    BY <1>4
  <2>2. Cardinality(1..i) = i
    BY <2>1, FS_Interval
  <2>3. Cardinality(1..i) <= k
    BY <1>2, <2>1, FS_Subset
  <2> QED
    BY <2>1, <2>2, <2>3
<1>5. S \in SUBSET (1..k)
  BY <1>4
<1>6. S = 1..k
  BY <1>3, <1>5, FS_Subset
<1> QED
  BY <1>2, <1>6

LEMMA EndInterval ==
  ASSUME NEW n \in Nat, NEW a \in 0..n
  PROVE  IsFiniteSet((a + 1)..n) /\ Cardinality((a + 1)..n) = n - a
<1>1. a + 1 \in Int /\ n \in Int
  OBVIOUS
<1>2. IsFiniteSet((a + 1)..n) /\ Cardinality((a + 1)..n) = IF a + 1 > n THEN 0 ELSE n - (a + 1) + 1
  BY <1>1, FS_Interval
<1> QED
  BY <1>2

LEMMA EndPlaces ==
  ASSUME NEW n \in Nat, NEW k \in 0..n
  PROVE  /\ k + 1 \in Int /\ n \in Int
         /\ (IF k + 1 <= n THEN n - (k + 1) + 1 ELSE 0) = n - k
         /\ n - (k + 1) + 1 = n - k
         /\ \A i \in 1..(n - k) : k + i \in 1..n /\ k + 1 + i - 1 = k + i
  OBVIOUS

\* What is left of a sequence without its first k elements.
LEMMA EndOfSeq ==
  ASSUME NEW X, NEW w \in Seq(X), NEW k \in 0..Len(w), NEW r, r = SubSeq(w, k + 1, Len(w))
  PROVE  /\ r \in Seq(X) /\ Len(r) = Len(w) - k
         /\ \A i \in 1..Len(r) : r[i] = w[k + i] /\ k + i \in 1..Len(w)
<1>1. Len(w) \in Nat /\ \A i \in 1..Len(w) : w[i] \in X
  OBVIOUS
<1>2. PICK n \in Nat : n = Len(w)
  BY <1>1
<1>3. /\ k + 1 \in Int /\ n \in Int
      /\ (IF k + 1 <= n THEN n - (k + 1) + 1 ELSE 0) = n - k
      /\ n - (k + 1) + 1 = n - k
      /\ \A i \in 1..(n - k) : k + i \in 1..n /\ k + 1 + i - 1 = k + i
  BY <1>2, EndPlaces
<1>4. \A i \in (k + 1)..n : w[i] \in X
  BY <1>1, <1>2
<1>5. /\ r \in Seq(X)
      /\ Len(r) = IF k + 1 <= n THEN n - (k + 1) + 1 ELSE 0
      /\ \A i \in 1..(n - (k + 1) + 1) : r[i] = w[k + 1 + i - 1]
  BY <1>2, <1>3, <1>4, SubSeqProperties
<1>6. Len(r) = n - k
  BY <1>3, <1>5
<1>7. \A i \in 1..(n - k) : r[i] = w[k + i]
  BY <1>3, <1>5
<1> QED
  BY <1>2, <1>3, <1>5, <1>6, <1>7

-----------------------------------------------------------------------------
\* In an ordered window, what is fresh at a time is an end of it.
LEMMA FreshIsEnd ==
  ASSUME NEW w, NEW now, Ordered(w, now), NEW span \in Nat, NEW t \in Nat
  PROVE  \E a \in 0..Len(w) :
           /\ StaleAt(w, span, t) = 1..a
           /\ Cardinality(StaleAt(w, span, t)) = a
           /\ IsFiniteSet(FreshAt(w, span, t))
           /\ Cardinality(FreshAt(w, span, t)) = Len(w) - a
<1> DEFINE S == StaleAt(w, span, t)
<1>1. Len(w) \in Nat /\ DOMAIN w = 1..Len(w) /\ S \in SUBSET (1..Len(w))
  BY DEF Ordered, StaleAt
<1>2. \A i \in DOMAIN w : w[i] \in Nat
  BY DEF Ordered
<1>3. ASSUME NEW i \in S, NEW j \in 1..i
      PROVE  j \in S
  <2>1. i \in DOMAIN w /\ j \in DOMAIN w /\ j <= i /\ ~Counts(w[i], span, t)
    BY <1>1 DEF StaleAt
  <2>2. w[j] <= w[i]
    BY <2>1 DEF Ordered
  <2>3. ~Counts(w[j], span, t)
    BY <1>2, <2>1, <2>2 DEF Counts
  <2> QED
    BY <2>1, <2>3 DEF StaleAt
<1>4. Cardinality(S) \in 0..Len(w) /\ S = 1..Cardinality(S)
  BY <1>1, <1>3, InitialSegment
<1> DEFINE a == Cardinality(S)
<1>5. FreshAt(w, span, t) = (a + 1)..Len(w)
  <2>1. FreshAt(w, span, t) = DOMAIN w \ S
    BY <1>2 DEF FreshAt, StaleAt
  <2> HIDE DEF S
  <2> QED
    BY <1>1, <1>4, <2>1
<1>6. IsFiniteSet((a + 1)..Len(w)) /\ Cardinality((a + 1)..Len(w)) = Len(w) - a
  <2>1. a \in 0..Len(w)
    BY <1>4
  <2> HIDE DEF a
  <2> QED
    BY <1>1, <2>1, EndInterval
<1> QED
  BY <1>4, <1>5, <1>6

\* Two ends of one window are as long as each other when they begin at the same place.
LEMMA SameEnd ==
  ASSUME NEW n \in Nat, NEW k \in 0..n, NEW a \in 0..n, NEW b \in 0..(n - k), k <= a,
         \A i \in 1..(n - k) : i <= b <=> k + i <= a
  PROVE  b = a - k
<1>1. CASE b < a - k
  <2>1. b + 1 \in 1..(n - k) /\ k + (b + 1) <= a
    BY <1>1
  <2> QED
    BY <2>1
<1>2. CASE b > a - k
  <2>1. b \in 1..(n - k) /\ ~(k + b <= a)
    BY <1>2
  <2> QED
    BY <2>1
<1> QED
  BY <1>1, <1>2

\* Forgetting what is stale leaves a window with as many fresh times, now and later.
LEMMA PrunedFits ==
  ASSUME NEW w, NEW now \in Nat, Ordered(w, now), NEW span \in Nat, NEW r, r = Pruned(w, span, now)
  PROVE  /\ Ordered(r, now)
         /\ Len(r) = Cardinality(FreshAt(w, span, now))
         /\ \A t \in Nat : t >= now =>
              Cardinality(FreshAt(r, span, t)) = Cardinality(FreshAt(w, span, t))
<1>1. w \in Seq(Nat) /\ Len(w) \in Nat
  BY DEF Ordered
<1>2. PICK n \in Nat : n = Len(w) /\ DOMAIN w = 1..n
  BY <1>1
<1>3. \A i \in 1..n : w[i] \in Nat /\ w[i] <= now
  BY <1>2 DEF Ordered
<1>4. PICK k \in 0..n :
        /\ StaleAt(w, span, now) = 1..k
        /\ Cardinality(StaleAt(w, span, now)) = k
        /\ Cardinality(FreshAt(w, span, now)) = n - k
  BY <1>2, FreshIsEnd
<1>5. r \in Seq(Nat) /\ Len(r) = n - k /\ \A i \in 1..(n - k) : r[i] = w[k + i] /\ k + i \in 1..n
  <2>1. r = SubSeq(w, k + 1, Len(w))
    BY <1>4 DEF Pruned
  <2> QED
    BY <1>1, <1>2, <2>1, EndOfSeq
<1>6. DOMAIN r = 1..(n - k)
  BY <1>5
<1>7. Ordered(r, now)
  <2>1. ASSUME NEW i \in 1..(n - k), NEW j \in 1..(n - k), i <= j
        PROVE  r[i] <= r[j] /\ r[i] <= now
    <3>1. k + i <= k + j
      BY <2>1
    <3>2. w[k + i] <= w[k + j] /\ w[k + i] <= now
      BY <1>2, <1>3, <1>5, <3>1 DEF Ordered
    <3> QED
      BY <1>5, <3>2
  <2> QED
    BY <1>5, <1>6, <2>1 DEF Ordered
<1>8. ASSUME NEW t \in Nat, t >= now
      PROVE  Cardinality(FreshAt(r, span, t)) = Cardinality(FreshAt(w, span, t))
  <2>1. PICK a \in 0..n :
          StaleAt(w, span, t) = 1..a /\ Cardinality(FreshAt(w, span, t)) = n - a
    <3>1. \E a \in 0..Len(w) :
            StaleAt(w, span, t) = 1..a /\ Cardinality(FreshAt(w, span, t)) = Len(w) - a
      BY FreshIsEnd
    <3> QED
      BY ONLY <1>2, <3>1
  <2>2. \E b \in 0..(n - k) :
          StaleAt(r, span, t) = 1..b /\ Cardinality(FreshAt(r, span, t)) = (n - k) - b
    <3>1. \E b \in 0..Len(r) :
            StaleAt(r, span, t) = 1..b /\ Cardinality(FreshAt(r, span, t)) = Len(r) - b
      BY <1>7, FreshIsEnd
    <3>2. Len(r) = n - k
      BY <1>5
    <3> QED
      BY ONLY <3>1, <3>2
  <2>3. k <= a
    <3>1. \A i \in 1..n : ~Counts(w[i], span, now) => ~Counts(w[i], span, t)
      BY <1>3, <1>8 DEF Counts
    <3>2. 1..k \in SUBSET (1..a)
      BY <1>2, <1>4, <2>1, <3>1 DEF StaleAt
    <3> QED
      BY <3>2
  <2>4. PICK b \in 0..(n - k) :
          StaleAt(r, span, t) = 1..b /\ Cardinality(FreshAt(r, span, t)) = (n - k) - b
    BY <2>2
  <2>5. ASSUME NEW i \in 1..(n - k)
        PROVE  i <= b <=> k + i <= a
    <3>1. i <= b <=> ~Counts(r[i], span, t)
      BY <1>6, <2>4 DEF StaleAt
    <3>2. k + i \in 1..n
      BY <1>5
    <3>3. k + i <= a <=> ~Counts(w[k + i], span, t)
      BY <1>2, <2>1, <3>2 DEF StaleAt
    <3> QED
      BY <1>5, <3>1, <3>3
  <2>6. b = a - k
    BY <2>3, <2>5, SameEnd
  <2> QED
    BY <2>1, <2>4, <2>6
<1> QED
  BY <1>4, <1>5, <1>7, <1>8

\* One more time counts until its own span is over.
LEMMA LongerFits ==
  ASSUME NEW w, NEW now \in Nat, Ordered(w, now), NEW span \in Nat
  PROVE  /\ Ordered(Append(w, now), now)
         /\ \A t \in Nat : Counts(now, span, t) =>
              Cardinality(FreshAt(Append(w, now), span, t)) = Cardinality(FreshAt(w, span, t)) + 1
         /\ \A t \in Nat : ~Counts(now, span, t) =>
              Cardinality(FreshAt(Append(w, now), span, t)) = Cardinality(FreshAt(w, span, t))
<1>0. PICK r : r = Append(w, now)
  OBVIOUS
<1>1. w \in Seq(Nat) /\ Len(w) \in Nat
  BY DEF Ordered
<1>2. PICK n \in Nat : n = Len(w) /\ DOMAIN w = 1..n
  BY <1>1
<1>3. /\ r \in Seq(Nat) /\ DOMAIN r = 1..(n + 1)
      /\ r[n + 1] = now /\ \A i \in 1..n : r[i] = w[i]
  BY <1>0, <1>1, <1>2
<1>4. Ordered(r, now)
  <2>0. \A i \in 1..n : w[i] <= now
    BY <1>2 DEF Ordered
  <2>1. ASSUME NEW i \in 1..(n + 1), NEW j \in 1..(n + 1), i <= j
        PROVE  r[i] <= r[j] /\ r[i] <= now
    <3>1. CASE j = n + 1
      BY <1>2, <1>3, <3>1 DEF Ordered
    <3>2. CASE j # n + 1
      <4>1. i \in 1..n /\ j \in 1..n
        BY <2>1, <3>2
      <4> QED
        BY <1>2, <1>3, <2>1, <4>1 DEF Ordered
    <3> QED
      BY <3>1, <3>2
  <2> QED
    BY <1>3, <2>1, SMTT(20) DEF Ordered
<1>5. ASSUME NEW t \in Nat
      PROVE  /\ Counts(now, span, t) =>
                  Cardinality(FreshAt(r, span, t)) = Cardinality(FreshAt(w, span, t)) + 1
             /\ ~Counts(now, span, t) =>
                  Cardinality(FreshAt(r, span, t)) = Cardinality(FreshAt(w, span, t))
  <2>1. IsFiniteSet(FreshAt(w, span, t)) /\ Cardinality(FreshAt(w, span, t)) \in Nat
    BY FreshIsEnd, FS_CardinalityType
  <2>2. n + 1 \notin FreshAt(w, span, t)
    BY <1>2 DEF FreshAt
  <2>3. CASE Counts(now, span, t)
    <3>1. FreshAt(r, span, t) = FreshAt(w, span, t) \cup {n + 1}
      BY <1>2, <1>3, <2>3 DEF FreshAt
    <3> QED
      BY <2>1, <2>2, <2>3, <3>1, FS_AddElement
  <2>4. CASE ~Counts(now, span, t)
    <3>1. FreshAt(r, span, t) = FreshAt(w, span, t)
      BY <1>2, <1>3, <2>4 DEF FreshAt
    <3> QED
      BY <2>1, <2>4, <3>1
  <2> QED
    BY <2>3, <2>4
<1> QED
  BY <1>0, <1>4, <1>5
-----------------------------------------------------------------------------
\* The places in K one behind all those before it, when before ranks them.
Orders(K, before) ==
  /\ \A i \in K : <<i, i>> \notin before
  /\ \A i, j \in K : i # j => <<i, j>> \in before \/ <<j, i>> \in before
  /\ \A i, j, k \in K : <<i, j>> \in before /\ <<j, k>> \in before => <<i, k>> \in before

Place(K, before, i) == Cardinality({j \in K : <<j, i>> \in before}) + 1

\* Of two places in K the one before has fewer before it, and every number of
\* places before is that of one place.
LEMMA PlaceFacts ==
  ASSUME NEW K, IsFiniteSet(K), NEW before, Orders(K, before)
  PROVE  /\ \A i \in K : Place(K, before, i) \in 1..Cardinality(K)
         /\ \A i, k \in K : <<i, k>> \in before => Place(K, before, i) < Place(K, before, k)
         /\ \A p \in 1..Cardinality(K) : \E i \in K : Place(K, before, i) = p
<1> DEFINE B(i) == {j \in K : <<j, i>> \in before}
<1> DEFINE place(i) == Cardinality(B(i)) + 1
<1>1. PICK n \in Nat : n = Cardinality(K)
  BY FS_CardinalityType
<1>2. ASSUME NEW i \in K
      PROVE  IsFiniteSet(B(i)) /\ Cardinality(B(i)) \in Nat /\ place(i) \in 1..n
  <2>1. IsFiniteSet(K \ {i}) /\ Cardinality(K \ {i}) = n - 1
    BY <1>1, FS_RemoveElement
  <2>2. B(i) \in SUBSET (K \ {i})
    BY DEF Orders
  <2>3. IsFiniteSet(B(i)) /\ Cardinality(B(i)) <= n - 1
    <3> HIDE DEF B
    <3> QED
      BY <2>1, <2>2, FS_Subset
  <2>4. Cardinality(B(i)) \in Nat
    <3> HIDE DEF B
    <3> QED
      BY <2>3, FS_CardinalityType
  <2> HIDE DEF B
  <2> QED
    BY <1>1, <2>3, <2>4
<1>3. ASSUME NEW i \in K, NEW k \in K, <<i, k>> \in before
      PROVE  place(i) < place(k)
  <2>1. B(i) \in SUBSET B(k) /\ i \in B(k) /\ i \notin B(i)
    BY <1>3 DEF Orders
  <2> HIDE DEF B
  <2>2. Cardinality(B(i)) <= Cardinality(B(k)) /\ Cardinality(B(i)) # Cardinality(B(k))
    BY <1>2, <2>1, FS_Subset
  <2> QED
    BY <1>2, <2>2
<1> HIDE DEF B
<1>4. \A i, k \in K : place(i) = place(k) => i = k
  <2>1. SUFFICES ASSUME NEW i \in K, NEW k \in K, i # k
                 PROVE  place(i) # place(k)
    OBVIOUS
  <2>2. place(i) < place(k) \/ place(k) < place(i)
    BY <1>3, <2>1 DEF Orders
  <2> QED
    BY <1>2, <2>2
<1>5. ASSUME NEW p \in 1..n
      PROVE  \E i \in K : place(i) = p
  <2> DEFINE g == [i \in K |-> place(i)]
  <2>1. IsFiniteSet(1..n) /\ Cardinality(1..n) = n
    BY FS_Interval
  <2>2. g \in Injection(K, 1..n)
    <3>1. g \in [K -> 1..n]
      BY <1>2
    <3>2. \A i, k \in K : g[i] = g[k] => i = k
      BY <1>4
    <3> HIDE DEF g
    <3> QED
      BY <3>1, <3>2, Fun_IsInj
  <2>3. g \in Surjection(K, 1..n)
    <3> HIDE DEF g
    <3> QED
      BY <1>1, <2>1, <2>2, FS_Injection
  <2>4. \E i \in K : g[i] = p
    <3> HIDE DEF g
    <3> QED
      BY <2>3 DEF Surjection
  <2> QED
    BY <2>4
<1> QED
  BY <1>1, <1>2, <1>3, <1>5 DEF B, Place

\* f tells the places in K that the entries of r come from.
Picks(f, r, s, K) ==
  /\ f \in [DOMAIN r -> K]
  /\ \A p \in DOMAIN r : r[p] = s[f[p]]
  /\ \A i \in K : \E p \in DOMAIN r : f[p] = i

RisesBy(f, before) == \A p, q \in DOMAIN f : p < q => <<f[p], f[q]>> \in before

\* What is kept of a sequence are its entries at the places of K, each once and
\* in the order of before.
LEMMA RankedFits ==
  ASSUME NEW X, NEW s \in Seq(X), NEW K \in SUBSET DOMAIN s, NEW before, Orders(K, before)
  PROVE  /\ Ranked(s, K, before) \in Seq(X)
         /\ \E f : Picks(f, Ranked(s, K, before), s, K) /\ RisesBy(f, before)
<1> DEFINE place(i) == Place(K, before, i)
<1>1. IsFiniteSet(K)
  <2>1. DOMAIN s = 1..Len(s) /\ Len(s) \in Nat
    OBVIOUS
  <2>2. IsFiniteSet(1..Len(s))
    BY <2>1, FS_Interval
  <2> QED
    BY <2>1, <2>2, FS_Subset
<1>2. PICK n \in Nat : n = Cardinality(K)
  BY <1>1, FS_CardinalityType
<1>3. /\ \A i \in K : place(i) \in 1..n
      /\ \A i, k \in K : <<i, k>> \in before => place(i) < place(k)
      /\ \A p \in 1..n : \E i \in K : place(i) = p
  BY <1>1, <1>2, PlaceFacts
<1> DEFINE f == [p \in 1..n |-> CHOOSE i \in K : place(i) = p]
<1>4. Ranked(s, K, before) = [p \in 1..n |-> s[f[p]]]
  BY <1>2 DEF Ranked, Place
<1> HIDE DEF place
<1>5. \A p \in 1..n : f[p] \in K /\ place(f[p]) = p
  BY <1>3
<1>6. f \in [1..n -> K]
  BY <1>5
<1> HIDE DEF f
<1>7. \A p, q \in 1..n : p < q => <<f[p], f[q]>> \in before
  <2> SUFFICES ASSUME NEW p \in 1..n, NEW q \in 1..n, p < q
               PROVE  <<f[p], f[q]>> \in before
    OBVIOUS
  <2>1. f[p] \in K /\ f[q] \in K /\ f[p] # f[q]
    BY <1>5
  <2>2. CASE <<f[q], f[p]>> \in before
    BY <1>3, <1>5, <2>1, <2>2
  <2> QED
    BY <2>1, <2>2 DEF Orders
<1>8. ASSUME NEW i \in K
      PROVE  \E p \in 1..n : f[p] = i
  <2>1. place(i) \in 1..n /\ f[place(i)] \in K /\ place(f[place(i)]) = place(i)
    BY <1>3, <1>5
  <2>2. f[place(i)] = i
    <3>1. f[place(i)] # i => place(f[place(i)]) # place(i)
      <4> SUFFICES ASSUME f[place(i)] # i
                   PROVE  place(f[place(i)]) # place(i)
        OBVIOUS
      <4>1. PICK k \in K : k = f[place(i)]
        BY <2>1
      <4>2. <<i, k>> \in before \/ <<k, i>> \in before
        BY <4>1 DEF Orders
      <4>3. place(i) < place(k) \/ place(k) < place(i)
        BY <1>3, <4>2
      <4> QED
        BY <1>3, <4>1, <4>3
    <3> QED
      BY <2>1, <3>1
  <2> QED
    BY <2>1, <2>2
<1>9. \A i \in K : s[i] \in X
  OBVIOUS
<1>10. [p \in 1..n |-> s[f[p]]] \in Seq(X)
  BY <1>5, <1>9
<1> QED
  BY <1>4, <1>6, <1>7, <1>8, <1>10 DEF Picks, RisesBy

LEMMA EarlierOrders ==
  ASSUME NEW X, NEW s \in Seq(X), NEW K \in SUBSET DOMAIN s
  PROVE  Orders(K, Earlier(s))
BY DEF Orders, Earlier

\* What is kept are the entries at the places in K, in their order.
LEMMA KeptFits ==
  ASSUME NEW X, NEW s \in Seq(X), NEW K \in SUBSET DOMAIN s
  PROVE  /\ Kept(s, K) \in Seq(X)
         /\ \E f : Picks(f, Kept(s, K), s, K) /\ \A p, q \in DOMAIN f : p < q => f[p] < f[q]
<1>1. Orders(K, Earlier(s))
  BY EarlierOrders
<1>2. Kept(s, K) \in Seq(X) /\ \E f : Picks(f, Kept(s, K), s, K) /\ RisesBy(f, Earlier(s))
  BY <1>1, RankedFits DEF Kept
<1>3. \A f : RisesBy(f, Earlier(s)) => \A p, q \in DOMAIN f : p < q => f[p] < f[q]
  BY DEF Earlier, RisesBy
<1> QED
  BY <1>2, <1>3

\* A set of places that is not empty has a first one.
LEMMA ForemostFits ==
  ASSUME NEW X, NEW s \in Seq(X), NEW K \in SUBSET DOMAIN s, K # {}
  PROVE  Foremost(K) \in K /\ \A j \in K : Foremost(K) <= j
<1>1. PICK r \in Seq(X) : r = Kept(s, K)
  BY KeptFits
<1>2. PICK f : Picks(f, r, s, K) /\ \A p, q \in DOMAIN f : p < q => f[p] < f[q]
  BY <1>1, KeptFits
<1>3. /\ f \in [DOMAIN r -> K] /\ \A p, q \in DOMAIN r : p < q => f[p] < f[q]
      /\ \A i \in K : \E p \in DOMAIN r : f[p] = i
  BY <1>2 DEF Picks
<1>4. 1 \in DOMAIN r
  BY <1>3
<1>5. ASSUME NEW j \in K
      PROVE  f[1] <= j
  <2>1. PICK p \in DOMAIN r : f[p] = j
    BY <1>3
  <2>2. p = 1 \/ 1 < p
    OBVIOUS
  <2>3. j \in Nat
    OBVIOUS
  <2> QED
    BY <1>3, <1>4, <2>1, <2>2, <2>3
<1>6. f[1] \in K
  BY <1>3, <1>4
<1> QED
  BY <1>5, <1>6 DEF Foremost
-----------------------------------------------------------------------------
Different(s) == \A i, j \in DOMAIN s : i < j => s[i] # s[j]

LEMMA ToSetFacts ==
  /\ \A X : \A s \in Seq(X) : ToSet(s) \subseteq X
  /\ \A X, Y : \A s \in Seq(X) : ToSet(s) \subseteq Y => s \in Seq(Y)
  /\ \A X, Y : \A s \in Seq(X) : X \subseteq Y => s \in Seq(Y)
  /\ ToSet(<<>>) = {}
BY DEF ToSet

\* A list of different values, and one more that is none of them.
LEMMA AppendDifferent ==
  ASSUME NEW X, NEW s \in Seq(X), Different(s), NEW h \in X, h \notin ToSet(s)
  PROVE  /\ Append(s, h) \in Seq(X) /\ Different(Append(s, h))
         /\ ToSet(Append(s, h)) = ToSet(s) \cup {h}
<1>1. PICK n \in Nat : n = Len(s) /\ DOMAIN s = 1..n
  OBVIOUS
<1>2. PICK r \in Seq(X) : r = Append(s, h)
  BY AppendProperties
<1>3. DOMAIN r = 1..(n + 1) /\ r[n + 1] = h /\ \A i \in 1..n : r[i] = s[i]
  BY <1>1, <1>2
<1>4. \A i \in 1..n : s[i] # h
  BY <1>1 DEF ToSet
<1>5. Different(r)
  BY <1>1, <1>3, <1>4 DEF Different
<1>6. ToSet(r) = ToSet(s) \cup {h}
  <2>1. DOMAIN r = (DOMAIN s) \cup {n + 1}
    BY <1>1, <1>3
  <2> QED
    BY <1>1, <1>3, <2>1 DEF ToSet
<1> QED
  BY <1>2, <1>5, <1>6

\* Two lists of different values that have none in common.
LEMMA ConcatDifferent ==
  ASSUME NEW X, NEW a \in Seq(X), NEW b \in Seq(X), Different(a), Different(b),
         ToSet(a) \cap ToSet(b) = {}
  PROVE  /\ a \o b \in Seq(X) /\ Different(a \o b)
         /\ ToSet(a \o b) = ToSet(a) \cup ToSet(b)
<1>1. PICK n \in Nat : n = Len(a) /\ DOMAIN a = 1..n
  OBVIOUS
<1>2. PICK m \in Nat : m = Len(b) /\ DOMAIN b = 1..m
  OBVIOUS
<1>3. PICK r \in Seq(X) : r = a \o b
  BY ConcatProperties
<1>4. /\ DOMAIN r = 1..(n + m)
      /\ \A i \in 1..n : r[i] = a[i]
      /\ \A i \in 1..(n + m) : i > n => r[i] = b[i - n]
  BY <1>1, <1>2, <1>3
<1>5. \A i \in 1..n, j \in 1..m : a[i] # b[j]
  BY <1>1, <1>2 DEF ToSet
<1>6. ASSUME NEW i \in 1..(n + m), NEW j \in 1..(n + m), i < j
      PROVE  r[i] # r[j]
  <2>1. CASE j <= n
    <3>1. i \in 1..n /\ j \in 1..n
      BY <1>6, <2>1
    <3>2. a[i] # a[j]
      BY <1>1, <1>6, <3>1 DEF Different
    <3> QED
      BY <1>4, <3>1, <3>2
  <2>2. CASE i <= n /\ j > n
    <3>1. j - n \in 1..m /\ i \in 1..n
      BY <2>2
    <3> QED
      BY <1>4, <1>5, <2>2, <3>1
  <2>3. CASE i > n
    <3>1. j - n \in 1..m /\ i - n \in 1..m /\ i - n < j - n /\ j > n
      BY <1>6, <2>3
    <3>2. b[i - n] # b[j - n]
      BY <1>2, <3>1 DEF Different
    <3> QED
      BY <1>4, <2>3, <3>1, <3>2
  <2> QED
    BY <2>1, <2>2, <2>3
<1>7. ASSUME NEW h
      PROVE  h \in ToSet(r) <=> h \in ToSet(a) \/ h \in ToSet(b)
  <2>1. ASSUME NEW i \in 1..m
        PROVE  n + i \in 1..(n + m) /\ r[n + i] = b[i]
    <3>1. n + i \in 1..(n + m) /\ n + i > n /\ (n + i) - n = i
      OBVIOUS
    <3> QED
      BY <1>4, <3>1
  <2>2. ASSUME NEW i \in 1..(n + m), i > n
        PROVE  i - n \in 1..m /\ r[i] = b[i - n]
    BY <1>4, <2>2
  <2>3. h \in ToSet(r) <=> \E i \in 1..(n + m) : r[i] = h
    BY <1>4 DEF ToSet
  <2>4. h \in ToSet(a) <=> \E i \in 1..n : a[i] = h
    BY <1>1 DEF ToSet
  <2>5. h \in ToSet(b) <=> \E i \in 1..m : b[i] = h
    BY <1>2 DEF ToSet
  <2>6. \A i \in 1..n : i \in 1..(n + m)
    OBVIOUS
  <2>7. \A i \in 1..(n + m) : i \in 1..n \/ i > n
    OBVIOUS
  <2> QED
    BY <1>4, <2>1, <2>2, <2>3, <2>4, <2>5, <2>6, <2>7
<1>8. Different(r)
  BY <1>4, <1>6 DEF Different
<1> QED
  BY <1>3, <1>7, <1>8

\* What is left of a list without its first k values.
IsEnd(X, s, k, r) ==
  /\ r \in Seq(X) /\ Len(r) = Len(s) - k /\ ToSet(r) \subseteq ToSet(s)
  /\ Different(s) => Different(r)
  /\ \A x \in ToSet(s) : x \in ToSet(r) \/ \E i \in 1..k : s[i] = x

LEMMA EndDifferent ==
  ASSUME NEW X, NEW s \in Seq(X), NEW k \in 0..Len(s), NEW r, r = SubSeq(s, k + 1, Len(s))
  PROVE  IsEnd(X, s, k, r)
<1>1. PICK m \in Nat : m = Len(s) /\ DOMAIN s = 1..m
  OBVIOUS
<1>2. k \in 0..m
  BY <1>1
<1>3. /\ r \in Seq(X) /\ Len(r) = Len(s) - k
      /\ \A i \in 1..Len(r) : r[i] = s[k + i] /\ k + i \in 1..Len(s)
  BY ONLY r = SubSeq(s, k + 1, Len(s)), k \in 0..Len(s), s \in Seq(X), EndOfSeq
<1>4. /\ DOMAIN r = 1..(m - k) /\ Len(r) = m - k
      /\ \A i \in 1..(m - k) : r[i] = s[k + i] /\ k + i \in 1..m
  BY <1>1, <1>2, <1>3
<1>5. ASSUME Different(s), NEW i \in 1..(m - k), NEW j \in 1..(m - k), i < j
      PROVE  r[i] # r[j]
  <2>1. k + i < k + j /\ k + i \in 1..m /\ k + j \in 1..m
    BY <1>2, <1>4, <1>5
  <2>2. s[k + i] # s[k + j]
    BY <1>1, <1>5, <2>1 DEF Different
  <2> QED
    BY <1>4, <2>2
<1>6. ASSUME NEW x \in ToSet(s)
      PROVE  x \in ToSet(r) \/ \E i \in 1..k : s[i] = x
  <2>1. PICK i \in 1..m : s[i] = x
    BY <1>1 DEF ToSet
  <2>2. CASE i <= k
    BY <1>2, <2>1, <2>2
  <2>3. CASE i > k
    <3>1. i - k \in 1..(m - k) /\ k + (i - k) = i
      BY <1>2, <2>3
    <3>2. r[i - k] = x
      BY <1>4, <2>1, <3>1
    <3> QED
      BY <1>4, <3>1, <3>2 DEF ToSet
  <2> QED
    BY <1>2, <2>2, <2>3
<1>7. ToSet(r) \subseteq ToSet(s)
  BY <1>1, <1>4 DEF ToSet
<1> QED
  BY <1>3, <1>4, <1>5, <1>6, <1>7 DEF Different, IsEnd

\* A list of different values holds its head once.
LEMMA HeadDifferent ==
  ASSUME NEW X, NEW s \in Seq(X), s # <<>>
  PROVE  /\ Head(s) \in X /\ Tail(s) \in Seq(X) /\ ToSet(s) = {Head(s)} \cup ToSet(Tail(s))
         /\ Different(s) => Different(Tail(s)) /\ Head(s) \notin ToSet(Tail(s))
<1>1. PICK m \in Nat : m = Len(s) /\ DOMAIN s = 1..m /\ m > 0 /\ 1 \in 1..m
  OBVIOUS
<1>2. PICK r \in Seq(X) : r = Tail(s) /\ DOMAIN r = 1..(m - 1) /\ \A i \in 1..(m - 1) : r[i] = s[i + 1]
  <2>1. /\ Tail(s) \in Seq(X) /\ Len(Tail(s)) = Len(s) - 1
        /\ \A i \in 1..Len(Tail(s)) : Tail(s)[i] = s[i + 1]
    BY HeadTailProperties
  <2>2. PICK r \in Seq(X) : r = Tail(s)
    BY <2>1
  <2>3. DOMAIN r = 1..(m - 1) /\ \A i \in 1..(m - 1) : r[i] = s[i + 1]
    BY <1>1, <2>1, <2>2
  <2> QED
    BY <2>2, <2>3
<1>3. \A i \in 1..(m - 1) : i + 1 \in 1..m /\ 1 < i + 1
  BY <1>1
<1>4. ASSUME NEW x
      PROVE  x \in ToSet(s) <=> x = s[1] \/ x \in ToSet(r)
  <2>1. \A i \in 1..m : i = 1 \/ (i - 1 \in 1..(m - 1) /\ (i - 1) + 1 = i)
    BY <1>1
  <2>2. x \in ToSet(s) <=> \E i \in 1..m : s[i] = x
    BY <1>1 DEF ToSet
  <2>3. x \in ToSet(r) <=> \E i \in 1..(m - 1) : s[i + 1] = x
    BY <1>2 DEF ToSet
  <2> QED
    BY <1>1, <1>3, <2>1, <2>2, <2>3
<1>5. ASSUME Different(s)
      PROVE  Different(r) /\ s[1] \notin ToSet(r)
  <2>1. \A i \in 1..(m - 1) : s[1] # r[i]
    BY <1>1, <1>2, <1>3, <1>5 DEF Different
  <2>2. ASSUME NEW i \in 1..(m - 1), NEW j \in 1..(m - 1), i < j
        PROVE  r[i] # r[j]
    <3>1. i + 1 < j + 1
      BY <2>2
    <3> QED
      BY <1>1, <1>2, <1>3, <1>5, <3>1 DEF Different
  <2> QED
    BY <1>2, <2>1, <2>2 DEF Different, ToSet
<1>6. Head(s) = s[1] /\ s[1] \in X
  BY <1>1
<1> QED
  BY <1>2, <1>4, <1>5, <1>6
=============================================================================
