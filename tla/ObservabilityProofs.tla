------------------------- MODULE ObservabilityProofs -------------------------
(***************************************************************************)
(* Proofs about EventBus and, in sections of their own, Tracing, Hooks and *)
(* Heartbeat.  EventBus first, for any clients, kinds, tags and limits:    *)
(* BusInv is the inductive invariant: it says that for each client         *)
(*   written < taken < queue   and that seen and dropped lie before the    *)
(* queue, which is why a drop can never reorder a response.                *)
(***************************************************************************)
EXTENDS EventBus, Tracing, Hooks, Heartbeat, SequenceLemmas

\* What is in a sequence after Append: its entries and the new one.
LEMMA AppendEntries ==
  ASSUME NEW s \in Seq(Nat), NEW e \in Nat
  PROVE  /\ Append(s, e) \in Seq(Nat)
         /\ Len(Append(s, e)) = Len(s) + 1
         /\ Entries(Append(s, e)) = Entries(s) \cup {e}
<1>1. /\ Append(s, e) \in Seq(Nat)
      /\ Len(Append(s, e)) = Len(s) + 1
      /\ \A i \in 1..Len(s) : Append(s, e)[i] = s[i]
      /\ Append(s, e)[Len(s) + 1] = e
  OBVIOUS
<1>2. DOMAIN Append(s, e) = (1..Len(s)) \cup {Len(s) + 1}
  BY <1>1
<1>3. DOMAIN s = 1..Len(s)
  OBVIOUS
<1> QED
  BY <1>1, <1>2, <1>3 DEF Entries

\* A sequence that is not empty holds its head and what its tail holds.
LEMMA TailEntries ==
  ASSUME NEW s \in Seq(Nat), s # <<>>
  PROVE  /\ Tail(s) \in Seq(Nat)
         /\ Len(Tail(s)) = Len(s) - 1
         /\ Head(s) \in Nat
         /\ Entries(s) = {Head(s)} \cup Entries(Tail(s))
<1>1. /\ Tail(s) \in Seq(Nat)
      /\ Len(Tail(s)) = Len(s) - 1
      /\ Len(s) \in Nat \ {0}
      /\ Head(s) = s[1]
      /\ Head(s) \in Nat
      /\ \A i \in 1..(Len(s) - 1) : Tail(s)[i] = s[i + 1]
  OBVIOUS
<1>2. DOMAIN s = 1..Len(s) /\ DOMAIN Tail(s) = 1..(Len(s) - 1)
  BY <1>1
<1>3. ASSUME NEW n \in Entries(s) PROVE n \in {Head(s)} \cup Entries(Tail(s))
  <2>1. PICK i \in 1..Len(s) : n = s[i]
    BY <1>2, <1>3 DEF Entries
  <2>2. CASE i = 1
    BY <1>1, <2>1, <2>2
  <2>3. CASE i # 1
    <3>1. i - 1 \in 1..(Len(s) - 1) /\ Tail(s)[i - 1] = s[i]
      BY <1>1, <2>1, <2>3
    <3> QED
      BY <1>2, <2>1, <3>1 DEF Entries
  <2> QED
    BY <2>2, <2>3
<1>4. ASSUME NEW n \in Entries(Tail(s)) PROVE n \in Entries(s)
  <2>1. PICK i \in 1..(Len(s) - 1) : n = Tail(s)[i]
    BY <1>2, <1>4 DEF Entries
  <2>2. i + 1 \in 1..Len(s) /\ n = s[i + 1]
    BY <1>1, <2>1
  <2> QED
    BY <1>2, <2>2 DEF Entries
<1>5. Head(s) \in Entries(s)
  BY <1>1, <1>2 DEF Entries
<1> QED
  BY <1>1, <1>3, <1>4, <1>5

\* An increasing sequence stays so when a greater number is appended.
LEMMA AppendIncreasing ==
  ASSUME NEW s \in Seq(Nat), NEW e \in Nat, Increasing(s),
         \A n \in Entries(s) : n < e
  PROVE  Increasing(Append(s, e))
<1>1. /\ DOMAIN Append(s, e) = 1..(Len(s) + 1)
      /\ \A i \in 1..Len(s) : Append(s, e)[i] = s[i]
      /\ Append(s, e)[Len(s) + 1] = e
      /\ DOMAIN s = 1..Len(s)
      /\ Len(s) \in Nat
  OBVIOUS
<1>2. SUFFICES ASSUME NEW i \in 1..(Len(s) + 1), NEW j \in 1..(Len(s) + 1), i < j
               PROVE  Append(s, e)[i] < Append(s, e)[j]
  BY <1>1 DEF Increasing
<1>3. i \in 1..Len(s)
  BY <1>1, <1>2
<1>4. CASE j = Len(s) + 1
  BY <1>1, <1>3, <1>4 DEF Entries
<1>5. CASE j \in 1..Len(s)
  BY <1>1, <1>2, <1>3, <1>5 DEF Increasing
<1> QED
  BY <1>1, <1>4, <1>5

\* The tail of an increasing sequence is increasing, and greater than the head.
LEMMA TailIncreasing ==
  ASSUME NEW s \in Seq(Nat), s # <<>>, Increasing(s)
  PROVE  /\ Increasing(Tail(s))
         /\ \A n \in Entries(Tail(s)) : Head(s) < n
<1>1. /\ Len(s) \in Nat \ {0}
      /\ Head(s) = s[1]
      /\ \A i \in 1..(Len(s) - 1) : Tail(s)[i] = s[i + 1]
      /\ DOMAIN s = 1..Len(s)
      /\ DOMAIN Tail(s) = 1..(Len(s) - 1)
  OBVIOUS
<1>2. ASSUME NEW i \in 1..(Len(s) - 1), NEW j \in 1..(Len(s) - 1), i < j
      PROVE  Tail(s)[i] < Tail(s)[j]
  <2>1. i + 1 \in DOMAIN s /\ j + 1 \in DOMAIN s /\ i + 1 < j + 1
    BY <1>1, <1>2
  <2> QED
    BY <1>1, <2>1 DEF Increasing
<1>3. ASSUME NEW i \in 1..(Len(s) - 1) PROVE Head(s) < Tail(s)[i]
  <2>1. 1 \in DOMAIN s /\ i + 1 \in DOMAIN s /\ 1 < i + 1
    BY <1>1
  <2> QED
    BY <1>1, <2>1 DEF Increasing
<1> QED
  BY <1>1, <1>2, <1>3 DEF Increasing, Entries

\* What publish() does to one queue: the queue stays increasing and bounded, the
\* new message is in it, and what left it, the head of a full queue, is older
\* than what stays.
LEMMA OfferFacts ==
  ASSUME NEW q \in Seq(Nat), NEW n \in Nat, Increasing(q), Len(q) <= MaxQueue,
         \A m \in Entries(q) : m < n
  PROVE  /\ Offer(q, n) \in Seq(Nat)
         /\ Len(Offer(q, n)) <= MaxQueue
         /\ Increasing(Offer(q, n))
         /\ Entries(Offer(q, n)) \subseteq Entries(q) \cup {n}
         /\ Len(q) # MaxQueue => Entries(Offer(q, n)) = Entries(q) \cup {n}
         /\ Len(q) = MaxQueue =>
              /\ Head(q) \in Entries(q)
              /\ Entries(q) \cup {n} = {Head(q)} \cup Entries(Offer(q, n))
              /\ \A m \in Entries(Offer(q, n)) : Head(q) < m
<1>0. MaxQueue \in Nat \ {0}
  BY BusAssumption
<1>1. CASE Len(q) = MaxQueue
  <2>1. q # <<>>
    BY <1>0, <1>1
  <2>2. /\ Tail(q) \in Seq(Nat)
        /\ Len(Tail(q)) = Len(q) - 1
        /\ Head(q) \in Nat
        /\ Entries(q) = {Head(q)} \cup Entries(Tail(q))
    BY <2>1, TailEntries
  <2>3. Increasing(Tail(q)) /\ \A m \in Entries(Tail(q)) : Head(q) < m
    BY <2>1, TailIncreasing
  <2>4. /\ Append(Tail(q), n) \in Seq(Nat)
        /\ Len(Append(Tail(q), n)) = Len(Tail(q)) + 1
        /\ Entries(Append(Tail(q), n)) = Entries(Tail(q)) \cup {n}
    BY <2>2, AppendEntries
  <2>5. Increasing(Append(Tail(q), n))
    BY <2>2, <2>3, AppendIncreasing
  <2>6. Offer(q, n) = Append(Tail(q), n)
    BY <1>1 DEF Offer
  <2> QED
    BY <1>0, <1>1, <2>2, <2>3, <2>4, <2>5, <2>6
<1>2. CASE Len(q) # MaxQueue
  <2>1. Offer(q, n) = Append(q, n)
    BY <1>2 DEF Offer
  <2>2. Len(q) + 1 <= MaxQueue
    BY <1>0, <1>2
  <2> QED
    BY <1>2, <2>1, <2>2, AppendEntries, AppendIncreasing
<1> QED
  BY <1>1, <1>2
-----------------------------------------------------------------------------
\* What holds of one client: its response, the message in hand and its queue are
\* one increasing run of positions, and what it is owed is all accounted for.
ClientInv(c) ==
  /\ Len(queue[c]) <= MaxQueue
  /\ since[c] <= Len(log)
  /\ Entries(queue[c]) \cup seen[c] \cup dropped[c] \subseteq DOMAIN log
  /\ Increasing(queue[c])
  /\ \A n \in Entries(queue[c]), m \in dropped[c] \cup seen[c] : m < n
  /\ Increasing(written[c])
  /\ \A n \in Entries(written[c]) : n \in seen[c] /\ log[n].tag \in scope[c]
  /\ pc[c] = "writing" =>
       /\ taken[c] \in seen[c]
       /\ log[taken[c]].tag \in scope[c]
       /\ \A n \in Entries(written[c]) : n < taken[c]
  /\ pc[c] = "new" => seen[c] = {} /\ dropped[c] = {} /\ written[c] = <<>>
  /\ c \in Subscribers => Owed(c) = Entries(queue[c]) \cup seen[c] \cup dropped[c]

BusInv == TypeOK /\ \A c \in Clients : ClientInv(c)

LEMMA InitBusInv == Init => BusInv
<1> SUFFICES ASSUME Init PROVE BusInv
  OBVIOUS
<1>1. TypeOK
  BY DEF Init, TypeOK, Subscribers, NoMsg
<1>2. ASSUME NEW c \in Clients PROVE ClientInv(c)
  BY BusAssumption DEF Init, ClientInv, Subscribers, Entries, Increasing
<1> QED
  BY <1>1, <1>2 DEF BusInv

\* A step that touches nothing of client c keeps what holds of it.
LEMMA FrameClient ==
  ASSUME NEW c \in Clients, ClientInv(c),
         UNCHANGED <<log, pc[c], filter[c], scope[c], queue[c], taken[c], since[c],
                     seen[c], written[c], dropped[c]>>
  PROVE  ClientInv(c)'
BY DEF ClientInv, Subscribers, Owed, Allowed

LEMMA SubscribeStep ==
  ASSUME BusInv, NEW d \in Clients, NEW wish \in Wishes, Subscribe(d, wish)
  PROVE  BusInv'
<1>1. TypeOK'
  BY BusAssumption DEF BusInv, TypeOK, Subscribe, Subscribers
<1>2. ASSUME NEW c \in Clients, c # d PROVE ClientInv(c)'
  BY <1>2, FrameClient DEF BusInv, TypeOK, Subscribe
<1>3. ClientInv(d)'
  <2>1. /\ queue'[d] = <<>> /\ seen'[d] = {} /\ dropped'[d] = {} /\ written'[d] = <<>>
        /\ pc'[d] = "waiting" /\ since'[d] = Len(log) /\ log' = log
    BY DEF BusInv, TypeOK, ClientInv, Subscribe, Subscribers
  <2>2. Owed(d)' = {}
    BY <2>1 DEF Owed, BusInv, TypeOK
  <2> QED
    BY <2>1, <2>2, BusAssumption DEF ClientInv, Entries, Increasing, BusInv, TypeOK
<1> QED
  BY <1>1, <1>2, <1>3 DEF BusInv

LEMMA TakeStep ==
  ASSUME BusInv, NEW d \in Clients, Take(d)
  PROVE  BusInv'
<1> DEFINE h == Head(queue[d])
<1>1. /\ queue[d] \in Seq(Nat) /\ queue[d] # <<>> /\ pc[d] = "waiting"
      /\ ClientInv(d) /\ d \in Subscribers
  BY DEF BusInv, TypeOK, Take, Subscribers
<1>2. /\ Tail(queue[d]) \in Seq(Nat)
      /\ Len(Tail(queue[d])) = Len(queue[d]) - 1
      /\ h \in Nat
      /\ Entries(queue[d]) = {h} \cup Entries(Tail(queue[d]))
  BY <1>1, TailEntries
<1>3. /\ Increasing(Tail(queue[d]))
      /\ \A n \in Entries(Tail(queue[d])) : h < n
  BY <1>1, TailIncreasing DEF ClientInv
<1>4. h \in DOMAIN log /\ h # NoMsg
  <2>1. h \in Entries(queue[d])
    BY <1>2
  <2>2. h \in DOMAIN log
    BY <1>1, <2>1 DEF ClientInv
  <2>3. log \in Seq(Message)
    BY DEF BusInv, TypeOK
  <2> QED
    BY <2>2, <2>3 DEF NoMsg
<1>5. /\ queue' = [queue EXCEPT ![d] = Tail(queue[d])]
      /\ seen' = [seen EXCEPT ![d] = seen[d] \cup {h}]
      /\ UNCHANGED <<log, history, filter, scope, since, written, dropped>>
  BY DEF Take
<1>6. \/ /\ log[h].tag \in scope[d]
         /\ pc' = [pc EXCEPT ![d] = "writing"]
         /\ taken' = [taken EXCEPT ![d] = h]
      \/ UNCHANGED <<pc, taken>>
  BY DEF Take
<1> HIDE DEF h
<1>7. TypeOK'
  <2>1. TypeOK
    BY DEF BusInv
  <2>2. queue' \in [Clients -> Seq(Nat)] /\ seen' \in [Clients -> SUBSET Nat]
    BY <1>2, <1>5, <2>1 DEF TypeOK
  <2>3. /\ pc' \in [Clients -> {"new", "waiting", "writing", "closed"}]
        /\ taken' \in [Clients -> Nat]
        /\ \A c \in Clients : (pc'[c] = "writing") <=> (taken'[c] # NoMsg)
    <3>1. /\ pc \in [Clients -> {"new", "waiting", "writing", "closed"}]
          /\ taken \in [Clients -> Nat]
          /\ \A c \in Clients : pc[c] = "writing" <=> taken[c] # NoMsg
      BY <2>1 DEF TypeOK
    <3>2. CASE UNCHANGED <<pc, taken>>
      BY <3>1, <3>2
    <3>3. CASE /\ pc' = [pc EXCEPT ![d] = "writing"]
               /\ taken' = [taken EXCEPT ![d] = h]
      BY <1>2, <1>4, <3>1, <3>3
    <3> QED
      BY <1>6, <3>2, <3>3
  <2>4. \A c \in Clients : ~(c \in Subscribers)' => queue'[c] = <<>> /\ filter'[c] = {}
    BY <1>1, <1>5, <1>6, <2>1 DEF TypeOK, Subscribers
  <2> QED
    BY <1>5, <2>1, <2>2, <2>3, <2>4 DEF TypeOK
<1>8. ASSUME NEW c \in Clients, c # d PROVE ClientInv(c)'
  BY <1>5, <1>6, <1>8, FrameClient DEF BusInv, TypeOK
<1>9. ClientInv(d)'
  <2>1. /\ queue'[d] = Tail(queue[d]) /\ seen'[d] = seen[d] \cup {h}
        /\ written'[d] = written[d] /\ dropped'[d] = dropped[d]
        /\ scope'[d] = scope[d] /\ since'[d] = since[d] /\ log' = log
        /\ filter'[d] = filter[d]
    BY <1>5 DEF BusInv, TypeOK
  <2>2. \/ pc'[d] = "writing" /\ taken'[d] = h /\ log[h].tag \in scope[d]
        \/ pc'[d] = "waiting" /\ taken'[d] = taken[d]
    BY <1>1, <1>6 DEF BusInv, TypeOK
  <2>3. Owed(d)' = Owed(d)
    BY <2>1 DEF Owed, Allowed
  <2>4. \A n \in Entries(written[d]) : n < h
    BY <1>1, <1>2 DEF ClientInv
  <2>5. Entries(queue'[d]) \cup seen'[d] \cup dropped'[d]
          = Entries(queue[d]) \cup seen[d] \cup dropped[d]
    BY <1>2, <2>1
  <2>6. \A n \in Entries(queue'[d]), m \in dropped'[d] \cup seen'[d] : m < n
    BY <1>1, <1>2, <1>3, <2>1 DEF ClientInv
  <2>7. Len(queue'[d]) <= MaxQueue
    BY <1>1, <1>2, <2>1, BusAssumption DEF ClientInv
  <2> QED
    BY <1>1, <1>3, <2>1, <2>2, <2>3, <2>4, <2>5, <2>6, <2>7 DEF ClientInv
<1> QED
  BY <1>7, <1>8, <1>9 DEF BusInv

LEMMA WriteStep ==
  ASSUME BusInv, NEW d \in Clients, Write(d)
  PROVE  BusInv'
<1>1. /\ written[d] \in Seq(Nat) /\ taken[d] \in Nat /\ taken[d] # NoMsg
      /\ ClientInv(d) /\ pc[d] = "writing" /\ d \in Subscribers
  BY DEF BusInv, TypeOK, Write, Subscribers
<1>2. /\ Append(written[d], taken[d]) \in Seq(Nat)
      /\ Entries(Append(written[d], taken[d])) = Entries(written[d]) \cup {taken[d]}
  BY <1>1, AppendEntries
<1>3. Increasing(Append(written[d], taken[d]))
  BY <1>1, AppendIncreasing DEF ClientInv
<1>4. /\ pc' = [pc EXCEPT ![d] = "waiting"]
      /\ taken' = [taken EXCEPT ![d] = NoMsg]
      /\ written' = [written EXCEPT ![d] = Append(written[d], taken[d])]
      /\ UNCHANGED <<log, history, filter, scope, queue, since, seen, dropped>>
  BY DEF Write
<1>5. TypeOK'
  BY <1>1, <1>2, <1>4 DEF BusInv, TypeOK, Subscribers, NoMsg
<1>6. ASSUME NEW c \in Clients, c # d PROVE ClientInv(c)'
  BY <1>4, <1>6, FrameClient DEF BusInv, TypeOK
<1>7. ClientInv(d)'
  <2>1. /\ pc'[d] = "waiting" /\ written'[d] = Append(written[d], taken[d])
        /\ UNCHANGED <<log, queue[d], seen[d], dropped[d], scope[d], since[d], filter[d]>>
    BY <1>4 DEF BusInv, TypeOK
  <2>2. Owed(d)' = Owed(d)
    BY <2>1 DEF Owed, Allowed
  <2> QED
    BY <1>1, <1>2, <1>3, <2>1, <2>2 DEF ClientInv
<1> QED
  BY <1>5, <1>6, <1>7 DEF BusInv

LEMMA CloseStep ==
  ASSUME BusInv, NEW d \in Clients, Close(d)
  PROVE  BusInv'
<1>1. TypeOK'
  BY SMTT(20) DEF BusInv, TypeOK, Close, Subscribers, NoMsg
<1>2. ASSUME NEW c \in Clients, c # d PROVE ClientInv(c)'
  BY <1>2, FrameClient DEF BusInv, TypeOK, Close
<1>3. ClientInv(d)'
  <2>1. /\ pc'[d] = "closed" /\ queue'[d] = <<>>
        /\ UNCHANGED <<log, seen[d], dropped[d], written[d], scope[d], since[d]>>
    BY DEF BusInv, TypeOK, Close
  <2>2. Entries(queue'[d]) = {} /\ Increasing(queue'[d]) /\ Len(queue'[d]) <= MaxQueue
    BY <2>1, BusAssumption DEF Entries, Increasing
  <2> QED
    BY <2>1, <2>2 DEF ClientInv, BusInv, Subscribers
<1> QED
  BY <1>1, <1>2, <1>3 DEF BusInv

LEMMA HalfFacts == Half \in Nat /\ 1 <= Half /\ Half < MaxHistory
BY BusAssumption DEF Half

\* The history after one more message: still the gapless tail of the log, and
\* never shorter than half of the limit once the log is that long.
LEMMA RememberFacts ==
  ASSUME NEW h \in Seq(Nat), NEW n \in Nat,
         Len(h) <= MaxHistory, Len(h) <= n, Len(h) >= Half \/ Len(h) = n,
         GaplessTail(h, n)
  PROVE  /\ Remember(h, n + 1) \in Seq(Nat)
         /\ Len(Remember(h, n + 1)) <= MaxHistory
         /\ Len(Remember(h, n + 1)) <= n + 1
         /\ \/ Len(Remember(h, n + 1)) >= Half
            \/ Len(Remember(h, n + 1)) = n + 1
         /\ GaplessTail(Remember(h, n + 1), n + 1)
<1>0. PICK a : a = Append(h, n + 1)
  OBVIOUS
<1>1. a \in Seq(Nat) /\ Len(h) \in Nat /\ Len(a) = Len(h) + 1
  BY <1>0
<1>2. DOMAIN a = 1..(Len(h) + 1)
  BY <1>0
<1>3. \A i \in 1..(Len(h) + 1) : a[i] \in Nat /\ a[i] = n - Len(h) + i
  BY <1>0 DEF GaplessTail
<1>4. MaxHistory \in Nat /\ Half \in Nat /\ 1 <= Half /\ Half < MaxHistory
  BY BusAssumption, HalfFacts
<1>5. Remember(h, n + 1)
        = IF Len(a) > MaxHistory THEN SubSeq(a, Len(a) - Half + 1, Len(a)) ELSE a
  BY <1>0 DEF Remember
<1>6. CASE Len(a) > MaxHistory
  <2>1. PICK m : m = Len(a) - Half + 1
    OBVIOUS
  <2>2. m \in Int /\ Len(a) \in Int /\ 1 <= m /\ m <= Len(a) /\ Len(a) - m + 1 = Half
    BY <1>1, <1>4, <1>6, <2>1
  <2>3. \A i \in m..Len(a) : a[i] \in Nat
    BY <1>1, <1>3, <2>2
  <2>4. PICK g : g = SubSeq(a, m, Len(a))
    OBVIOUS
  <2>5. /\ g \in Seq(Nat)
        /\ Len(g) = Half
        /\ \A i \in 1..Half : g[i] = a[m + i - 1]
    BY <2>2, <2>3, <2>4, SubSeqProperties
  <2>6. ASSUME NEW i \in 1..Half PROVE g[i] = n + 1 - Half + i
    <3>1. m + i - 1 \in 1..(Len(h) + 1) /\ i \in Int
      BY <1>1, <1>4, <2>2
    <3>2. g[i] = n - Len(h) + (m + i - 1)
      BY <1>3, <2>5, <3>1
    <3>3. m = Len(h) + 1 - Half + 1
      BY <1>1, <1>4, <2>1
    <3> QED
      BY <1>1, <1>4, <3>1, <3>2, <3>3
  <2>7. GaplessTail(g, n + 1)
    BY <2>5, <2>6 DEF GaplessTail
  <2>8. Remember(h, n + 1) = g
    BY <1>5, <1>6, <2>1, <2>4
  <2>9. Half <= n + 1
    BY <1>1, <1>4, <1>6
  <2> QED
    BY <1>4, <2>5, <2>7, <2>8, <2>9
<1>7. CASE ~(Len(a) > MaxHistory)
  <2>1. Remember(h, n + 1) = a
    BY <1>5, <1>7
  <2>2. Len(a) >= Half \/ Len(a) = n + 1
    BY <1>1, <1>4
  <2>3. GaplessTail(a, n + 1)
    BY <1>1, <1>2, <1>3 DEF GaplessTail
  <2>4. Len(a) <= MaxHistory /\ Len(a) <= n + 1
    BY <1>1, <1>4, <1>7
  <2> QED
    BY <1>1, <2>1, <2>2, <2>3, <2>4
<1> QED
  BY <1>6, <1>7
-----------------------------------------------------------------------------
\* The history's part of the inductive invariant; the second conjunct is only
\* needed to carry the others through a trim.
HistoryInv == RecentComplete /\ Len(history) <= Len(log)

LEMMA PublishStep ==
  ASSUME BusInv, HistoryInv, NEW msg \in Message, Publish(msg)
  PROVE  BusInv' /\ HistoryInv'
<1>0. PICK n : n = Len(log) + 1
  OBVIOUS
<1> DEFINE readers == {c \in Subscribers : Allowed(c, msg)}
<1>1. TypeOK /\ log \in Seq(Message) /\ Len(log) \in Nat /\ n \in Nat
  BY <1>0 DEF BusInv, TypeOK
<1>2. /\ log' \in Seq(Message) /\ Len(log') = n
      /\ DOMAIN log = 1..Len(log) /\ DOMAIN log' = 1..n
      /\ \A i \in DOMAIN log : log'[i] = log[i]
      /\ log'[n] = msg
  BY <1>0, <1>1 DEF Publish
<1>3. /\ history' = Remember(history, n)
      /\ queue' = [c \in Clients |-> IF c \in readers THEN Offer(queue[c], n) ELSE queue[c]]
      /\ dropped' = [c \in Clients |->
                       IF c \in readers /\ Len(queue[c]) = MaxQueue
                       THEN dropped[c] \cup {Head(queue[c])} ELSE dropped[c]]
      /\ UNCHANGED <<pc, filter, scope, taken, since, seen, written>>
  BY <1>0 DEF Publish
<1>4. HistoryInv' /\ history' \in Seq(Nat)
  <2>1. history \in Seq(Nat)
    BY <1>1 DEF TypeOK
  <2>2. Remember(history, n) \in Seq(Nat) /\ HistoryInv'
    BY <1>0, <1>1, <1>2, <1>3, <2>1, RememberFacts DEF HistoryInv, RecentComplete
  <2> QED
    BY <1>3, <2>2
<1>5. ASSUME NEW c \in Clients
      PROVE  /\ queue[c] \in Seq(Nat) /\ ClientInv(c)
             /\ \A m \in Entries(queue[c]) \cup seen[c] \cup dropped[c] :
                  m \in DOMAIN log /\ m < n
  <2>1. ClientInv(c) /\ queue[c] \in Seq(Nat)
    BY <1>1 DEF BusInv, TypeOK
  <2> QED
    BY <1>0, <1>1, <1>2, <2>1 DEF ClientInv
<1>6. ASSUME NEW c \in Clients
      PROVE  /\ Offer(queue[c], n) \in Seq(Nat)
             /\ Len(Offer(queue[c], n)) <= MaxQueue
             /\ Increasing(Offer(queue[c], n))
             /\ Entries(Offer(queue[c], n)) \subseteq Entries(queue[c]) \cup {n}
             /\ Len(queue[c]) # MaxQueue =>
                  Entries(Offer(queue[c], n)) = Entries(queue[c]) \cup {n}
             /\ Len(queue[c]) = MaxQueue =>
                  /\ Head(queue[c]) \in Entries(queue[c])
                  /\ Entries(queue[c]) \cup {n}
                       = {Head(queue[c])} \cup Entries(Offer(queue[c], n))
                  /\ \A m \in Entries(Offer(queue[c], n)) : Head(queue[c]) < m
  <2>1. Increasing(queue[c]) /\ Len(queue[c]) <= MaxQueue
    BY <1>5 DEF ClientInv
  <2> QED
    BY <1>1, <1>5, <2>1, OfferFacts
<1> HIDE DEF readers
<1>7. TypeOK'
  <2>1. queue' \in [Clients -> Seq(Nat)]
    BY <1>1, <1>3, <1>6 DEF TypeOK
  <2>2. dropped' \in [Clients -> SUBSET Nat]
    <3>1. ASSUME NEW c \in Clients, c \in readers, Len(queue[c]) = MaxQueue
          PROVE  Head(queue[c]) \in Nat
      <4>1. queue[c] \in Seq(Nat) /\ queue[c] # <<>>
        BY <1>1, <3>1, BusAssumption DEF TypeOK
      <4> QED
        BY ONLY <4>1, HeadTailProperties
    <3> QED
      BY <1>1, <1>3, <3>1 DEF TypeOK
  <2>3. \A c \in Clients : c \notin Subscribers => queue'[c] = <<>> /\ filter'[c] = {}
    BY <1>1, <1>3 DEF TypeOK, readers
  <2> QED
    BY <1>1, <1>2, <1>3, <1>4, <2>1, <2>2, <2>3 DEF TypeOK, Subscribers
<1>8. ASSUME NEW c \in Clients PROVE ClientInv(c)'
  <2>1. /\ pc'[c] = pc[c] /\ filter'[c] = filter[c] /\ scope'[c] = scope[c]
        /\ taken'[c] = taken[c] /\ since'[c] = since[c] /\ seen'[c] = seen[c]
        /\ written'[c] = written[c]
    BY <1>3
  <2>2. ClientInv(c) /\ since[c] \in Nat /\ seen[c] \in SUBSET Nat
    BY <1>1, <1>5 DEF TypeOK
  <2>3. (c \in Subscribers)' <=> c \in Subscribers
    BY <2>1 DEF Subscribers
  <2>4. \A m \in seen[c] : m \in DOMAIN log /\ log'[m] = log[m]
    BY <1>2, <2>2 DEF ClientInv
  <2>5. \A m \in DOMAIN log : Allowed(c, log[m])' <=> Allowed(c, log[m])
    BY <1>2, <2>1 DEF Allowed
  <2>6. Allowed(c, log[n])' <=> Allowed(c, msg)
    BY <1>2, <2>1 DEF Allowed
  <2>7. Owed(c)' = Owed(c) \cup (IF Allowed(c, msg) THEN {n} ELSE {})
    <3>1. n > since[c] /\ DOMAIN log' = DOMAIN log \cup {n}
      BY <1>0, <1>1, <1>2, <2>2 DEF ClientInv
    <3> QED
      BY <2>1, <2>5, <2>6, <3>1 DEF Owed
  <2>8. CASE c \notin readers
    <3>1. queue'[c] = queue[c] /\ dropped'[c] = dropped[c]
      BY <1>3, <2>8
    <3>2. c \in Subscribers => ~Allowed(c, msg)
      BY <2>8 DEF readers
    <3>3. since[c] <= Len(log')
      BY <1>0, <1>1, <1>2, <2>2 DEF ClientInv
    <3>4. DOMAIN log \subseteq DOMAIN log'
      BY <1>0, <1>1, <1>2
    <3> QED
      BY <2>1, <2>2, <2>3, <2>4, <2>7, <3>1, <3>2, <3>3, <3>4 DEF ClientInv
  <2>9. CASE c \in readers
    <3>1. c \in Subscribers /\ Allowed(c, msg) /\ pc[c] # "new"
      BY <2>9 DEF readers, Subscribers
    <3>2. /\ queue'[c] = Offer(queue[c], n)
          /\ dropped'[c] = IF Len(queue[c]) = MaxQueue
                           THEN dropped[c] \cup {Head(queue[c])} ELSE dropped[c]
      BY <1>3, <2>9
    <3>3. Entries(queue'[c]) \cup seen[c] \cup dropped'[c]
            = Entries(queue[c]) \cup seen[c] \cup dropped[c] \cup {n}
      BY <1>6, <3>2
    <3>4. \A k \in Entries(queue'[c]), m \in dropped'[c] \cup seen[c] : m < k
      <4>1. \A k \in Entries(queue[c]), m \in dropped[c] \cup seen[c] : m < k
        BY <2>2 DEF ClientInv
      <4>2. \A m \in dropped[c] \cup seen[c] : m < n
        BY <1>5
      <4>3. CASE Len(queue[c]) = MaxQueue
        <5>1. ASSUME NEW k \in Entries(queue'[c]) PROVE Head(queue[c]) < k
          BY <1>6, <3>2, <4>3
        <5>2. ASSUME NEW k \in Entries(queue'[c]), NEW m \in dropped[c] \cup seen[c]
              PROVE  m < k
          BY <1>6, <3>2, <4>1, <4>2
        <5> QED
          BY <3>2, <4>3, <5>1, <5>2
      <4>4. CASE Len(queue[c]) # MaxQueue
        BY <1>6, <3>2, <4>1, <4>2, <4>4
      <4> QED
        BY <4>3, <4>4
    <3>5. Entries(queue'[c]) \cup seen[c] \cup dropped'[c] \subseteq DOMAIN log'
      <4>1. DOMAIN log' = DOMAIN log \cup {n}
        BY <1>0, <1>1, <1>2
      <4> QED
        BY <1>5, <3>3, <4>1
    <3>6. since[c] <= Len(log')
      BY <1>0, <1>1, <1>2, <2>2 DEF ClientInv
    <3>7. Len(queue'[c]) <= MaxQueue /\ Increasing(queue'[c])
      BY <1>6, <3>2
    <3>8. Owed(c)' = Entries(queue'[c]) \cup seen[c] \cup dropped'[c]
      BY <2>2, <2>7, <3>1, <3>3 DEF ClientInv
    <3> QED
      BY <2>1, <2>2, <2>4, <3>1, <3>4, <3>5, <3>6, <3>7, <3>8 DEF ClientInv
  <2> QED
    BY <2>8, <2>9
<1> QED
  BY <1>4, <1>7, <1>8 DEF BusInv

\* A client's responses wait in the order they were sent in, those dropped before those
\* that wait, and the history holds the last of them (EventBus.publish).
THEOREM BusInvariant == Spec => [](BusInv /\ HistoryInv)
<1>1. Init => BusInv /\ HistoryInv
  <2>1. Init => HistoryInv
    BY BusAssumption DEF Init, HistoryInv, RecentComplete, GaplessTail
  <2> QED
    BY <2>1, InitBusInv
<1>2. BusInv /\ HistoryInv /\ [Next]_vars => BusInv' /\ HistoryInv'
  <2> SUFFICES ASSUME BusInv, HistoryInv, [Next]_vars PROVE BusInv' /\ HistoryInv'
    OBVIOUS
  <2>1. ASSUME NEW msg \in Message, Publish(msg) PROVE BusInv' /\ HistoryInv'
    BY <2>1, PublishStep
  <2>2. ASSUME UNCHANGED <<log, history>> PROVE HistoryInv'
    BY <2>2 DEF HistoryInv, RecentComplete, GaplessTail
  <2>3. ASSUME NEW c \in Clients, NEW wish \in Wishes, Subscribe(c, wish)
        PROVE  BusInv' /\ HistoryInv'
    BY <2>2, <2>3, SubscribeStep DEF Subscribe
  <2>4. ASSUME NEW c \in Clients, Take(c) PROVE BusInv' /\ HistoryInv'
    BY <2>2, <2>4, TakeStep DEF Take
  <2>5. ASSUME NEW c \in Clients, Write(c) PROVE BusInv' /\ HistoryInv'
    BY <2>2, <2>5, WriteStep DEF Write
  <2>6. ASSUME NEW c \in Clients, Close(c) PROVE BusInv' /\ HistoryInv'
    BY <2>2, <2>6, CloseStep DEF Close
  <2>7. CASE UNCHANGED vars
    <3>1. TypeOK'
      BY <2>7 DEF BusInv, TypeOK, vars, Subscribers
    <3>2. ASSUME NEW c \in Clients PROVE ClientInv(c)'
      BY <2>7, FrameClient DEF vars, BusInv
    <3> QED
      BY <2>2, <2>7, <3>1, <3>2 DEF vars, BusInv
  <2> QED
    BY <2>1, <2>3, <2>4, <2>5, <2>6, <2>7 DEF Next
<1> QED
  BY <1>1, <1>2, PTL DEF Spec

\* The variables keep their types, and connections and queues stay paired.
THEOREM TypeCorrect == Spec => []TypeOK
BY BusInvariant, PTL DEF BusInv

\* However slow the client and however full its queue, a response never reorders
\* or repeats what publish() sent.
THEOREM ResponsesInOrder == Spec => []InOrder
<1>1. BusInv => InOrder
  BY DEF BusInv, ClientInv, InOrder
<1> QED
  BY <1>1, BusInvariant, PTL

\* A response carries nothing that its request did not ask for or may not see.
THEOREM ResponsesWithinRequest == Spec => []WithinRequest
<1>1. BusInv => WithinRequest
  BY DEF BusInv, ClientInv, WithinRequest, Subscribers
<1> QED
  BY <1>1, BusInvariant, PTL

\* publish() loses no message silently: what is not taken waits, or was dropped
\* from a full queue.
THEOREM NothingLostSilently == Spec => []Accounted
<1>1. BusInv => Accounted
  BY DEF BusInv, ClientInv, Accounted, Subscribers
<1> QED
  BY <1>1, BusInvariant, PTL

\* A queue is never longer than max_queue, and only its oldest entries are lost.
THEOREM OnlyOldestDropped == Spec => []DropsOldest
<1>1. BusInv => DropsOldest
  BY DEF BusInv, ClientInv, DropsOldest, Subscribers
<1> QED
  BY <1>1, BusInvariant, PTL

\* The history is bounded and without gaps for any max_history above one.
THEOREM HistoryIsRecent == Spec => []RecentComplete
BY BusInvariant, PTL DEF HistoryInv

-----------------------------------------------------------------------------
(***************************************************************************)
(* Proofs about Tracing, for any tasks and bounds.  SameTrace and          *)
(* OwnParent say nothing of what a task may open next, so they are not     *)
(* inductive: TraceInv adds that whatever a task has current, or comes     *)
(* back to when it leaves a block, is a span of its own kin.  BlocksNest   *)
(* holds only if no span is in two blocks, and a task that has not begun   *)
(* has none: NestInv adds that.                                            *)
(***************************************************************************)
SpanRecord == [task : Tasks, parent : Nat, trace : Nat, status : {"pending", "ok", "error"}]
Block == [span : Nat, before : Nat]

Types ==
  /\ spans \in Seq(SpanRecord)
  /\ traces \in Nat /\ shared \in Nat
  /\ current \in [Tasks -> Nat]
  /\ open \in [Tasks -> Seq(Block)]
  /\ kin \in [Tasks -> SUBSET Tasks]

\* A task may have i current: no span, or one of its kin.
Kindred(t, i) == i = 0 \/ (i \in Span /\ spans[i].task \in kin[t])

\* What a task has current and may come back to.
TaskFits(t) ==
  /\ kin[t] # {} => t \in kin[t]
  /\ Kindred(t, current[t])
  /\ \A k \in DOMAIN open[t] : open[t][k].span \in Span /\ Kindred(t, open[t][k].before)

\* A span's parent is older, of its kin, and in its trace.
SpanFits(i) ==
  spans[i].parent = 0 \/ /\ spans[i].parent \in Span /\ spans[i].parent < i
                         /\ spans[i].trace = spans[spans[i].parent].trace
                         /\ spans[spans[i].parent].task \in kin[spans[i].task]

TraceInv ==
  /\ Types
  /\ \A t \in Tasks : TaskFits(t)
  /\ \A i \in Span : SpanFits(i)

\* No step forgets a span, or changes more of it than its status, or takes a task
\* out of another's kin.
SpansKept ==
  /\ Span \subseteq Span'
  /\ \A i \in Span : /\ spans'[i].task = spans[i].task /\ spans'[i].trace = spans[i].trace
                     /\ spans'[i].parent = spans[i].parent
KinKept == \A t \in Tasks : kin[t] \subseteq kin'[t]

\* A step that leaves the tasks' current spans and blocks alone.
Untouched(t) == current'[t] = current[t] /\ open'[t] = open[t] /\ kin'[t] = kin[t]

\* What a task may have current it may still have after a step.
LEMMA KindredKept ==
  ASSUME SpansKept, KinKept, NEW t \in Tasks, NEW i, Kindred(t, i)
  PROVE  i = 0 \/ (i \in Span' /\ spans'[i].task \in kin'[t])
  BY DEF Kindred, SpansKept, KinKept

\* A task that a step leaves alone still fits.
LEMMA UntouchedFits ==
  ASSUME SpansKept, KinKept, NEW t \in Tasks, TaskFits(t), Untouched(t)
  PROVE  TaskFits(t)'
<1>1. kin'[t] # {} => t \in kin'[t]
  BY DEF TaskFits, Untouched
<1>2. Kindred(t, current[t])'
  <2>1. Kindred(t, current[t])
    BY DEF TaskFits
  <2> QED
    BY <2>1, KindredKept DEF Kindred, Untouched
<1>3. ASSUME NEW k \in DOMAIN open'[t]
      PROVE  open'[t][k].span \in Span' /\ Kindred(t, open[t][k].before)'
  <2>1. k \in DOMAIN open[t] /\ open'[t][k] = open[t][k]
    BY DEF Untouched
  <2>2. open[t][k].span \in Span /\ Kindred(t, open[t][k].before)
    BY <2>1 DEF TaskFits
  <2>3. open'[t][k].span \in Span'
    BY <2>1, <2>2 DEF SpansKept
  <2>4. Kindred(t, open[t][k].before)'
    BY <2>1, <2>2, KindredKept DEF Kindred
  <2> QED
    BY <2>3, <2>4
<1> QED
  BY <1>1, <1>2, <1>3 DEF TaskFits

\* A span that was there fits after a step as before it.
LEMMA OldSpanFits ==
  ASSUME Types, SpansKept, KinKept, NEW i \in Span, SpanFits(i)
  PROVE  SpanFits(i)'
<1>1. spans[i].task \in Tasks
  <2>1. spans[i] \in SpanRecord
    BY DEF Types, Span
  <2> QED
    BY <2>1 DEF SpanRecord
<1>2. CASE spans[i].parent = 0
  BY <1>2 DEF SpanFits, SpansKept
<1>3. CASE spans[i].parent # 0
  <2>1. PICK p : p = spans[i].parent
    OBVIOUS
  <2>2. /\ p \in Span /\ p < i /\ spans[i].trace = spans[p].trace
        /\ spans[p].task \in kin[spans[i].task]
    BY <1>3, <2>1 DEF SpanFits
  <2>3. /\ spans'[i].parent = p /\ p \in Span'
        /\ spans'[i].trace = spans'[p].trace
    BY <2>1, <2>2 DEF SpansKept
  <2>4. spans'[p].task \in kin'[spans'[i].task]
    BY <1>1, <2>2 DEF SpansKept, KinKept
  <2> QED
    BY <2>2, <2>3, <2>4 DEF SpanFits
<1> QED
  BY <1>2, <1>3

\* A step keeps the invariant if the one task it touches fits, and so does every
\* span it adds.
LEMMA OneTaskStep ==
  ASSUME TraceInv, Types', SpansKept, KinKept, NEW t \in Tasks, TaskFits(t)',
         \A u \in Tasks \ {t} : Untouched(u), \A i \in Span' \ Span : SpanFits(i)'
  PROVE  TraceInv'
<1>1. ASSUME NEW u \in Tasks
      PROVE  TaskFits(u)'
  <2>1. CASE u = t
    BY <2>1
  <2>2. CASE u # t
    BY <2>2, UntouchedFits DEF TraceInv
  <2> QED
    BY <2>1, <2>2
<1>2. ASSUME NEW i \in Span'
      PROVE  SpanFits(i)'
  <2>1. CASE i \in Span
    BY <2>1, OldSpanFits DEF TraceInv
  <2>2. CASE i \notin Span
    BY <2>2
  <2> QED
    BY <2>1, <2>2
<1> QED
  BY <1>1, <1>2 DEF TraceInv

\* A step that touches no span and no task keeps it.
LEMMA IdleStep ==
  ASSUME TraceInv, UNCHANGED <<spans, current, open, kin>>, traces' \in Nat, shared' \in Nat
  PROVE  TraceInv'
<1>1. Types' /\ SpansKept /\ KinKept /\ Span' = Span
  BY DEF TraceInv, Types, SpansKept, KinKept, Span
<1>2. \A u \in Tasks : Untouched(u) /\ TaskFits(u)
  BY DEF Untouched, TraceInv
<1>3. \A u \in Tasks : TaskFits(u)'
  BY <1>1, <1>2, UntouchedFits
<1>4. \A i \in Span : SpanFits(i)'
  BY <1>1, OldSpanFits DEF TraceInv
<1> QED
  BY <1>1, <1>3, <1>4 DEF TraceInv

LEMMA BeginKeeps ==
  ASSUME TraceInv, NEW t \in Tasks, Begin(t)
  PROVE  TraceInv'
<1>1. /\ Types /\ TaskFits(t) /\ kin[t] = {}
      /\ kin' = [kin EXCEPT ![t] = {t}] /\ UNCHANGED <<spans, current, open, traces, shared>>
  BY DEF TraceInv, Begin
<1>2. kin' \in [Tasks -> SUBSET Tasks] /\ kin'[t] = {t} /\ \A u \in Tasks \ {t} : kin'[u] = kin[u]
  BY <1>1 DEF Types
<1>3. Types' /\ SpansKept /\ KinKept /\ Span' = Span
  BY <1>1, <1>2 DEF Types, SpansKept, KinKept, Span
<1>4. TaskFits(t)'
  <2>1. Kindred(t, current[t])'
    BY <1>1, <1>3, KindredKept DEF Kindred, TaskFits
  <2>2. ASSUME NEW k \in DOMAIN open'[t]
        PROVE  open'[t][k].span \in Span' /\ Kindred(t, open[t][k].before)'
    <3>1. open[t][k].span \in Span /\ Kindred(t, open[t][k].before)
      BY <1>1, <2>2 DEF TaskFits
    <3> QED
      BY <1>1, <1>3, <3>1, KindredKept DEF Kindred
  <2> QED
    BY <1>2, <2>1, <2>2 DEF TaskFits
<1>5. \A u \in Tasks \ {t} : Untouched(u)
  BY <1>1, <1>2 DEF Untouched
<1> QED
  BY <1>3, <1>4, <1>5, OneTaskStep

LEMMA SpawnKeeps ==
  ASSUME TraceInv, NEW t \in Tasks, NEW u \in Tasks, Spawn(t, u)
  PROVE  TraceInv'
<1>1. /\ Types /\ TaskFits(t) /\ TaskFits(u) /\ kin[u] = {}
      /\ kin' = [kin EXCEPT ![u] = kin[t] \cup {u}]
      /\ current' = [current EXCEPT ![u] = current[t]]
      /\ UNCHANGED <<spans, open, traces, shared>>
  BY DEF TraceInv, Spawn
<1>2. /\ kin' \in [Tasks -> SUBSET Tasks] /\ kin'[u] = kin[t] \cup {u}
      /\ \A v \in Tasks \ {u} : kin'[v] = kin[v]
  BY <1>1 DEF Types
<1>3. /\ current' \in [Tasks -> Nat] /\ current'[u] = current[t]
      /\ \A v \in Tasks \ {u} : current'[v] = current[v]
  BY <1>1 DEF Types
<1>4. Types' /\ SpansKept /\ KinKept /\ Span' = Span
  BY <1>1, <1>2, <1>3 DEF Types, SpansKept, KinKept, Span
<1>5. TaskFits(u)'
  <2>1. Kindred(t, current[t])
    BY <1>1 DEF TaskFits
  <2>2. Kindred(u, current[u])'
    BY <1>1, <1>2, <1>3, <1>4, <2>1 DEF Kindred
  <2>3. ASSUME NEW k \in DOMAIN open'[u]
        PROVE  open'[u][k].span \in Span' /\ Kindred(u, open[u][k].before)'
    <3>1. open[u][k].span \in Span /\ Kindred(u, open[u][k].before)
      BY <1>1, <2>3 DEF TaskFits
    <3> QED
      BY <1>1, <1>4, <3>1, KindredKept DEF Kindred
  <2> QED
    BY <1>2, <2>2, <2>3 DEF TaskFits
<1>6. \A v \in Tasks \ {u} : Untouched(v)
  BY <1>1, <1>2, <1>3 DEF Untouched
<1> QED
  BY <1>4, <1>5, <1>6, OneTaskStep

\* A task that is left with some of its blocks, and with nothing current that it may
\* not have, fits.
LEMMA LeavingFits ==
  ASSUME TraceInv, NEW t \in Tasks, NEW n \in 0 .. Len(open[t]), NEW i \in Nat, Kindred(t, i),
         Types', SpansKept, KinKept, UNCHANGED kin, Span' = Span,
         current' = [current EXCEPT ![t] = i],
         open' = [open EXCEPT ![t] = SubSeq(open[t], 1, n)]
  PROVE  TraceInv'
<1>1. Types /\ TaskFits(t)
  BY DEF TraceInv
<1>2. open[t] \in Seq(Block) /\ n \in Int
  BY <1>1 DEF Types
<1>3. /\ open'[t] \in Seq(Block) /\ Len(open'[t]) <= Len(open[t])
      /\ \A k \in DOMAIN open'[t] : k \in DOMAIN open[t] /\ open'[t][k] = open[t][k]
  <2>1. \A k \in 1..n : open[t][k] \in Block
    BY <1>2
  <2>2. open'[t] = SubSeq(open[t], 1, n)
    BY <1>1 DEF Types
  <2>3. /\ open'[t] \in Seq(Block) /\ Len(open'[t]) = (IF 1 <= n THEN n - 1 + 1 ELSE 0)
        /\ \A k \in 1 .. n - 1 + 1 : open'[t][k] = open[t][1 + k - 1]
    BY <1>2, <2>1, <2>2, SubSeqProperties
  <2>4. Len(open'[t]) = n
    BY <2>3
  <2>5. ASSUME NEW k \in DOMAIN open'[t]
        PROVE  k \in DOMAIN open[t] /\ open'[t][k] = open[t][k]
    <3>1. k \in 1..n
      BY <2>3, <2>4
    <3>2. k \in DOMAIN open[t]
      BY <1>2, <3>1
    <3> QED
      BY <2>3, <3>1, <3>2
  <2> QED
    BY <2>3, <2>4, <2>5
<1>4. /\ current'[t] = i
      /\ \A u \in Tasks \ {t} : current'[u] = current[u] /\ open'[u] = open[u]
  BY <1>1 DEF Types
<1>5. TaskFits(t)'
  <2>1. Kindred(t, current[t])'
    BY <1>4, KindredKept DEF Kindred
  <2>2. ASSUME NEW k \in DOMAIN open'[t]
        PROVE  open'[t][k].span \in Span' /\ Kindred(t, open[t][k].before)'
    <3>1. open[t][k].span \in Span /\ Kindred(t, open[t][k].before) /\ open'[t][k] = open[t][k]
      BY <1>1, <1>3, <2>2 DEF TaskFits
    <3>2. open'[t][k].span \in Span'
      BY <3>1 DEF SpansKept
    <3> QED
      BY <3>1, <3>2, KindredKept DEF Kindred
  <2>3. kin'[t] # {} => t \in kin'[t]
    BY <1>1 DEF TaskFits
  <2> QED
    BY <2>1, <2>2, <2>3 DEF TaskFits
<1>6. \A u \in Tasks \ {t} : Untouched(u)
  BY <1>4 DEF Untouched
<1> QED
  BY <1>5, <1>6, OneTaskStep

\* Leaving blocks is a matter of the task alone.
LEMMA LeavingTypes ==
  ASSUME NEW s \in Seq(Block), NEW n \in 0 .. Len(s)
  PROVE  SubSeq(s, 1, n) \in Seq(Block)
<1>1. \A k \in 1..n : s[k] \in Block
  OBVIOUS
<1>2. n \in Int
  OBVIOUS
<1> QED
  BY <1>1, <1>2, SubSeqProperties

LEMMA CloseKeeps ==
  ASSUME TraceInv, NEW t \in Tasks, NEW outcome \in {"ok", "error"}, CloseSpan(t, outcome)
  PROVE  TraceInv'
<1>1. Types /\ TaskFits(t) /\ open[t] # <<>> /\ open[t] \in Seq(Block)
  BY DEF TraceInv, Types, CloseSpan
<1>2. PICK n : n = Len(open[t])
  OBVIOUS
<1>3. n \in DOMAIN open[t] /\ n - 1 \in 0 .. Len(open[t]) /\ n \in Nat
  BY <1>1, <1>2
<1>4. PICK b \in Block : b = open[t][n]
  BY <1>1, <1>3
<1>5. b.span \in Span /\ Kindred(t, b.before) /\ b.before \in Nat
  BY <1>1, <1>3, <1>4 DEF TaskFits, Block
<1>6. /\ spans' = [spans EXCEPT ![b.span].status = outcome]
      /\ current' = [current EXCEPT ![t] = b.before]
      /\ open' = [open EXCEPT ![t] = SubSeq(open[t], 1, n - 1)]
      /\ UNCHANGED <<traces, shared, kin>>
  BY <1>2, <1>4 DEF CloseSpan, Innermost, Outer
<1>7. spans' \in Seq(SpanRecord) /\ Span' = Span /\ SpansKept
  <2>1. PICK old \in SpanRecord : old = spans[b.span]
    BY <1>1, <1>5 DEF Types, Span
  <2>2. PICK new : new = [old EXCEPT !.status = outcome]
    OBVIOUS
  <2>3. /\ new \in SpanRecord /\ new.task = old.task /\ new.trace = old.trace
        /\ new.parent = old.parent
    BY <2>1, <2>2 DEF SpanRecord
  <2>4. spans' = [spans EXCEPT ![b.span] = new]
    BY <1>6, <2>1, <2>2
  <2>5. spans \in Seq(SpanRecord) /\ spans' \in Seq(SpanRecord) /\ Span' = Span
    BY <1>1, <1>5, <2>3, <2>4 DEF Types, Span
  <2>6. \A i \in Span : spans'[i] = IF i = b.span THEN new ELSE spans[i]
    BY <2>4, <2>5 DEF Span
  <2> QED
    BY <2>1, <2>3, <2>5, <2>6 DEF SpansKept
<1>8. Types' /\ KinKept
  BY <1>1, <1>3, <1>5, <1>6, <1>7, LeavingTypes DEF Types, KinKept
<1> QED
  BY <1>3, <1>5, <1>6, <1>7, <1>8, LeavingFits

LEMMA TimeOutKeeps ==
  ASSUME TraceInv, NEW t \in Tasks, TimeOut(t)
  PROVE  TraceInv'
<1>1. Types /\ TaskFits(t) /\ open[t] \in Seq(Block)
  BY DEF TraceInv, Types
<1>2. PICK n \in 0 .. Len(open[t]) - 1 : open' = [open EXCEPT ![t] = SubSeq(open[t], 1, n)]
  BY DEF TimeOut
<1>3. n \in 0 .. Len(open[t])
  BY <1>1, <1>2
<1>4. UNCHANGED <<spans, traces, shared, current, kin>>
  BY DEF TimeOut
<1>5. current' = [current EXCEPT ![t] = current[t]] /\ current[t] \in Nat /\ Kindred(t, current[t])
  BY <1>1, <1>4 DEF Types, TaskFits
<1>6. SpansKept /\ KinKept /\ Span' = Span
  BY <1>4 DEF SpansKept, KinKept, Span
<1>7. Types'
  BY <1>1, <1>2, <1>3, <1>4, LeavingTypes DEF Types
<1> QED
  BY <1>2, <1>3, <1>4, <1>5, <1>6, <1>7, LeavingFits

\* A span that is opened has its task's current span for a parent and is in that
\* span's trace.
LEMMA OpenSpanKeeps ==
  ASSUME TraceInv, NEW t \in Tasks, OpenSpan(t)
  PROVE  TraceInv'
<1>1. PICK i \in Nat, p \in Nat, r \in Nat :
        /\ i = Len(spans) + 1 /\ p = current[t] /\ r = TraceOf(p)
  <2>1. Len(spans) + 1 \in Nat /\ current[t] \in Nat
    BY DEF TraceInv, Types
  <2>2. TraceOf(current[t]) \in Nat
    <3>1. CASE current[t] > 0
      <4>1. current[t] \in Span
        BY <2>1, <3>1 DEF TraceInv, TaskFits, Kindred
      <4>2. spans[current[t]] \in SpanRecord
        BY <4>1 DEF TraceInv, Types, Span
      <4> QED
        BY <3>1, <4>2 DEF TraceOf, SpanRecord
    <3>2. CASE ~(current[t] > 0)
      BY <3>2 DEF TraceOf, TraceInv, Types
    <3> QED
      BY <3>1, <3>2
  <2> QED
    BY <2>1, <2>2
<1>2. /\ Types /\ TaskFits(t) /\ kin[t] # {} /\ UNCHANGED kin /\ shared' = r
      /\ traces' = (IF shared' > traces THEN shared' ELSE traces)
      /\ spans' = Append(spans, [task |-> t, parent |-> p, trace |-> r, status |-> "pending"])
      /\ current' = [current EXCEPT ![t] = i]
      /\ open' = [open EXCEPT ![t] = Append(open[t], [span |-> i, before |-> p])]
  BY <1>1 DEF TraceInv, OpenSpan
<1>3. PICK new \in SpanRecord :
        /\ new.task = t /\ new.parent = p /\ new.trace = r
        /\ spans' = Append(spans, new)
  BY <1>1, <1>2 DEF SpanRecord
<1>4. /\ spans \in Seq(SpanRecord) /\ spans' \in Seq(SpanRecord)
      /\ Span' = Span \cup {i} /\ i \notin Span /\ spans'[i] = new
      /\ \A j \in Span : spans'[j] = spans[j] /\ j < i
  BY <1>1, <1>2, <1>3 DEF Types, Span
<1>5. SpansKept /\ KinKept
  BY <1>2, <1>4 DEF SpansKept, KinKept
<1>6. PICK b \in Block : /\ b.span = i /\ b.before = p
                         /\ open' = [open EXCEPT ![t] = Append(open[t], b)]
  BY <1>1, <1>2 DEF Block
<1>7. open[t] \in Seq(Block) /\ open'[t] = Append(open[t], b) /\ open' \in [Tasks -> Seq(Block)]
  BY <1>2, <1>6 DEF Types
<1>8. Types'
  BY <1>1, <1>2, <1>4, <1>7 DEF Types
<1>9. Kindred(t, p)
  BY <1>1, <1>2 DEF TaskFits
<1>10. t \in kin[t] /\ kin'[t] = kin[t]
  BY <1>2 DEF TaskFits
<1>11. TaskFits(t)'
  <2>1. Kindred(t, current[t])'
    <3>1. current'[t] = i
      BY <1>2 DEF Types
    <3> QED
      BY <1>3, <1>4, <1>10, <3>1 DEF Kindred
  <2>2. ASSUME NEW k \in DOMAIN open'[t]
        PROVE  open'[t][k].span \in Span' /\ Kindred(t, open[t][k].before)'
    <3>1. CASE k \in DOMAIN open[t]
      <4>1. open'[t][k] = open[t][k]
        BY <1>7, <3>1
      <4>2. open[t][k].span \in Span /\ Kindred(t, open[t][k].before)
        BY <1>2, <3>1 DEF TaskFits
      <4> QED
        BY <1>5, <4>1, <4>2, KindredKept DEF Kindred, SpansKept
    <3>2. CASE k \notin DOMAIN open[t]
      <4>1. open'[t][k] = b
        BY <1>7, <2>2, <3>2
      <4> QED
        BY <1>4, <1>5, <1>6, <1>9, <4>1, KindredKept DEF Kindred
    <3> QED
      BY <3>1, <3>2
  <2> QED
    BY <1>10, <2>1, <2>2 DEF TaskFits
<1>12. SpanFits(i)'
  <2>1. CASE p = 0
    BY <1>3, <1>4, <2>1 DEF SpanFits
  <2>2. CASE p # 0
    <3>1. p \in Span /\ spans[p].task \in kin[t]
      BY <1>9, <2>2 DEF Kindred
    <3>2. p > 0 /\ r = spans[p].trace
      BY <1>1, <2>2 DEF TraceOf
    <3> QED
      BY <1>3, <1>4, <1>10, <3>1, <3>2 DEF SpanFits
  <2> QED
    BY <2>1, <2>2
<1>13. \A u \in Tasks \ {t} : Untouched(u)
  BY <1>2 DEF Untouched, Types
<1> QED
  BY <1>4, <1>5, <1>8, <1>11, <1>12, <1>13, OneTaskStep

\* What tasks have open and current, and what spans there are, fit together in every
\* state: TraceInv, for any number of tasks and spans.
THEOREM TracingInvariant == TracerSpec => []TraceInv
<1>1. TracerInit => TraceInv
  <2> SUFFICES ASSUME TracerInit
               PROVE  TraceInv
    OBVIOUS
  <2>1. Types /\ Span = {}
    BY DEF TracerInit, Types, Span
  <2>2. \A t \in Tasks : TaskFits(t)
    BY DEF TracerInit, TaskFits, Kindred
  <2> QED
    BY <2>1, <2>2 DEF TraceInv
<1>2. TraceInv /\ [TracerNext]_(tracerVars) => TraceInv'
  <2> SUFFICES ASSUME TraceInv, [TracerNext]_(tracerVars)
               PROVE  TraceInv'
    OBVIOUS
  <2>1. CASE UNCHANGED tracerVars
    BY <2>1, IdleStep DEF tracerVars, TraceInv, Types
  <2>2. CASE NewTrace
    BY <2>2, IdleStep DEF NewTrace, TraceInv, Types
  <2>3. CASE Clear
    BY <2>3, IdleStep DEF Clear, TraceInv, Types
  <2>4. ASSUME NEW t \in Tasks, Begin(t) \/ OpenSpan(t) \/ TimeOut(t)
        PROVE  TraceInv'
    BY <2>4, BeginKeeps, OpenSpanKeeps, TimeOutKeeps
  <2>5. ASSUME NEW t \in Tasks, NEW u \in Tasks, Spawn(t, u)
        PROVE  TraceInv'
    BY <2>5, SpawnKeeps
  <2>6. ASSUME NEW t \in Tasks, NEW outcome \in {"ok", "error"}, CloseSpan(t, outcome)
        PROVE  TraceInv'
    BY <2>6, CloseKeeps
  <2> QED
    BY <2>1, <2>2, <2>3, <2>4, <2>5, <2>6 DEF TracerNext
<1> QED
  BY <1>1, <1>2, PTL DEF TracerSpec

\* However tasks and timeouts interleave, and whoever makes or forgets a trace, a span
\* is in its parent's trace (start_span reads the shared _current_trace_id only for a
\* span that has no parent).
THEOREM SpansShareTrace == TracerSpec => []SameTrace
<1>1. TraceInv => SameTrace
  BY DEF TraceInv, SpanFits, SameTrace
<1> QED
  BY TracingInvariant, <1>1, PTL

\* However tasks interleave, a span's parent is of its own task or of one its context
\* was copied from (_current_span is a context variable).
THEOREM ParentsAreKin == TracerSpec => []OwnParent
<1>1. TraceInv => OwnParent
  BY DEF TraceInv, SpanFits, OwnParent
<1> QED
  BY TracingInvariant, <1>1, PTL

-----------------------------------------------------------------------------
\* The blocks that a task is left with.
LEMMA ShorterBlocks ==
  ASSUME NEW s \in Seq(Block), NEW n \in 0 .. Len(s)
  PROVE  /\ DOMAIN SubSeq(s, 1, n) = 1..n /\ Len(SubSeq(s, 1, n)) = n
         /\ \A k \in 1..n : k \in DOMAIN s /\ SubSeq(s, 1, n)[k] = s[k]
<1>1. \A k \in 1..n : s[k] \in Block /\ k \in DOMAIN s
  OBVIOUS
<1>2. n \in Int
  OBVIOUS
<1>3. PICK r : r = SubSeq(s, 1, n)
  OBVIOUS
<1>4. /\ r \in Seq(Block) /\ Len(r) = (IF 1 <= n THEN n - 1 + 1 ELSE 0)
      /\ \A k \in 1 .. n - 1 + 1 : r[k] = s[1 + k - 1]
  BY <1>1, <1>2, <1>3, SubSeqProperties
<1>5. Len(r) = n /\ DOMAIN r = 1..n
  BY <1>4
<1>6. \A k \in 1..n : r[k] = s[k]
  BY <1>4
<1> QED
  BY <1>1, <1>3, <1>5, <1>6
\* The blocks of a task hold its own spans, and a task that has not begun has none.
BlocksFit(t) ==
  /\ \A k \in DOMAIN open[t] : spans[open[t][k].span].task = t
  /\ kin[t] = {} => open[t] = <<>> /\ current[t] = 0 /\ \A i \in Span : spans[i].task # t

\* BlocksNest of one task, and what it needs: no span is in two blocks, and the first
\* block was entered in the span that the task's context began with.
Nested(t) ==
  /\ \A i \in Span : spans[i].task = t =>
       (spans[i].status = "pending" <=> \E k \in DOMAIN open[t] : open[t][k].span = i)
  /\ open[t] # <<>> => current[t] = Innermost(t).span
  /\ \A k \in DOMAIN open[t] : k > 1 => open[t][k].before = open[t][k - 1].span
  /\ open[t] = <<>> /\ current[t] > 0 => spans[current[t]].task \in kin[t] \ {t}
  /\ \A j, k \in DOMAIN open[t] : open[t][j].span = open[t][k].span => j = k
  /\ open[t] # <<>> /\ open[t][1].before > 0 => spans[open[t][1].before].task \in kin[t] \ {t}

TaskNests(t) == BlocksFit(t) /\ (t \notin hit => Nested(t))
NestInv == \A t \in Tasks : TaskNests(t)

\* A task whose spans and blocks a step leaves alone.
Aside(u) ==
  /\ Untouched(u)
  /\ u \in hit => u \in hit'
  /\ Span \subseteq Span' /\ \A i \in Span : spans'[i].task = spans[i].task
  /\ \A i \in Span' : spans'[i].task = u => i \in Span /\ spans'[i] = spans[i]

LEMMA AsideNests ==
  ASSUME TraceInv, NEW u \in Tasks, TaskNests(u), Aside(u)
  PROVE  TaskNests(u)'
<1>1. /\ current'[u] = current[u] /\ open'[u] = open[u] /\ kin'[u] = kin[u]
      /\ Innermost(u)' = Innermost(u)
  BY DEF Aside, Untouched, Innermost
<1>2. \A k \in DOMAIN open[u] : open[u][k].span \in Span /\ Kindred(u, open[u][k].before)
  BY DEF TraceInv, TaskFits
<1>3. \A i \in Span : spans'[i].task = spans[i].task /\ i \in Span'
  BY DEF Aside
<1>4. BlocksFit(u)'
  BY <1>1, <1>2, <1>3 DEF TaskNests, BlocksFit, Aside
<1>5. ASSUME u \notin hit'
      PROVE  Nested(u)'
  <2>1. Nested(u)
    BY <1>5 DEF TaskNests, Aside
  <2>2. \A i \in Span' : spans'[i].task = u =>
          (spans'[i].status = "pending" <=> \E k \in DOMAIN open'[u] : open'[u][k].span = i)
    BY <1>1, <2>1 DEF Nested, Aside
  <2>3. open'[u] = <<>> /\ current'[u] > 0 => spans'[current'[u]].task \in kin'[u] \ {u}
    <3>1. current[u] = 0 \/ current[u] \in Span
      BY DEF TraceInv, TaskFits, Kindred
    <3> QED
      BY <1>1, <1>3, <2>1, <3>1 DEF Nested
  <2>4. open'[u] # <<>> /\ open'[u][1].before > 0 =>
          spans'[open'[u][1].before].task \in kin'[u] \ {u}
    <3>1. open[u] # <<>> => 1 \in DOMAIN open[u]
      BY DEF TraceInv, Types
    <3>2. open[u] # <<>> => open[u][1].before = 0 \/ open[u][1].before \in Span
      BY <1>2, <3>1 DEF Kindred
    <3> QED
      BY <1>1, <1>3, <2>1, <3>2 DEF Nested
  <2> QED
    BY <1>1, <2>1, <2>2, <2>3, <2>4 DEF Nested
<1> QED
  BY <1>4, <1>5 DEF TaskNests

\* A step keeps NestInv if the one task it touches nests.
LEMMA OneTaskNests ==
  ASSUME TraceInv, NestInv, NEW t \in Tasks, TaskNests(t)', \A u \in Tasks \ {t} : Aside(u)
  PROVE  NestInv'
<1> SUFFICES ASSUME NEW u \in Tasks
             PROVE  TaskNests(u)'
  BY DEF NestInv
<1>1. CASE u = t
  BY <1>1
<1>2. CASE u # t
  BY <1>2, AsideNests DEF NestInv
<1> QED
  BY <1>1, <1>2

LEMMA IdleNests ==
  ASSUME TraceInv, NestInv, UNCHANGED <<spans, current, open, kin, hit>>
  PROVE  NestInv'
<1>1. Span' = Span
  BY DEF Span
<1>2. \A u \in Tasks : Aside(u)
  BY <1>1 DEF Aside, Untouched
<1> QED
  BY <1>2, AsideNests DEF NestInv

LEMMA BeginNests ==
  ASSUME TraceInv, NestInv, NEW t \in Tasks, Begin(t)
  PROVE  NestInv'
<1>1. /\ kin[t] = {} /\ kin'[t] = {t} /\ UNCHANGED <<spans, current, open, hit>>
      /\ \A u \in Tasks \ {t} : kin'[u] = kin[u]
  BY DEF Begin, TraceInv, Types
<1>2. Span' = Span
  BY <1>1 DEF Span
<1>3. \A u \in Tasks \ {t} : Aside(u)
  BY <1>1, <1>2 DEF Aside, Untouched
<1>4. open[t] = <<>> /\ current[t] = 0 /\ \A i \in Span : spans[i].task # t
  BY <1>1 DEF NestInv, TaskNests, BlocksFit
<1>5. TaskNests(t)'
  BY <1>1, <1>2, <1>4 DEF TaskNests, BlocksFit, Nested
<1> QED
  BY <1>3, <1>5, OneTaskNests

LEMMA SpawnNests ==
  ASSUME TraceInv, NestInv, NEW t \in Tasks, NEW u \in Tasks, Spawn(t, u)
  PROVE  NestInv'
<1>1. /\ kin[u] = {} /\ kin'[u] = kin[t] \cup {u} /\ current'[u] = current[t]
      /\ UNCHANGED <<spans, open, hit>>
      /\ \A v \in Tasks \ {u} : kin'[v] = kin[v] /\ current'[v] = current[v]
  BY DEF Spawn, TraceInv, Types
<1>2. Span' = Span
  BY <1>1 DEF Span
<1>3. \A v \in Tasks \ {u} : Aside(v)
  BY <1>1, <1>2 DEF Aside, Untouched
<1>4. open[u] = <<>> /\ \A i \in Span : spans[i].task # u
  BY <1>1 DEF NestInv, TaskNests, BlocksFit
<1>5. current[t] > 0 => current[t] \in Span /\ spans[current[t]].task \in kin[t] \ {u}
  BY <1>4 DEF TraceInv, TaskFits, Kindred
<1>6. TaskNests(u)'
  BY <1>1, <1>2, <1>4, <1>5 DEF TaskNests, BlocksFit, Nested
<1> QED
  BY <1>3, <1>6, OneTaskNests

LEMMA TimeOutNests ==
  ASSUME TraceInv, NestInv, NEW t \in Tasks, TimeOut(t)
  PROVE  NestInv'
<1>1. PICK n \in 0 .. Len(open[t]) - 1 : open' = [open EXCEPT ![t] = SubSeq(open[t], 1, n)]
  BY DEF TimeOut
<1>2. /\ UNCHANGED <<spans, current, kin>> /\ hit' = hit \cup {t}
      /\ open'[t] = SubSeq(open[t], 1, n) /\ \A u \in Tasks \ {t} : open'[u] = open[u]
  BY <1>1 DEF TimeOut, TraceInv, Types
<1>3. Span' = Span
  BY <1>2 DEF Span
<1>4. \A u \in Tasks \ {t} : Aside(u)
  BY <1>2, <1>3 DEF Aside, Untouched
<1>5. \A k \in DOMAIN open'[t] : k \in DOMAIN open[t] /\ open'[t][k] = open[t][k]
  BY <1>2, ShorterBlocks DEF TraceInv, Types
<1>6. open[t] # <<>> /\ kin[t] # {}
  BY DEF TimeOut, NestInv, TaskNests, BlocksFit
<1>7. BlocksFit(t)'
  BY <1>2, <1>5, <1>6 DEF NestInv, TaskNests, BlocksFit
<1> QED
  BY <1>2, <1>4, <1>7, OneTaskNests DEF TaskNests

LEMMA CloseNests ==
  ASSUME TraceInv, NestInv, NEW t \in Tasks, NEW outcome \in {"ok", "error"}, CloseSpan(t, outcome)
  PROVE  NestInv'
<1>1. open[t] # <<>> /\ open[t] \in Seq(Block) /\ spans \in Seq(SpanRecord) /\ TaskFits(t)
  BY DEF TraceInv, Types, CloseSpan
<1>2. PICK n \in Nat \ {0}, m \in Nat :
        /\ Len(open[t]) = n /\ n - 1 = m /\ n \in 1..n /\ m \in 0..n
        /\ \A k \in 1..m : k \in 1..n /\ k # n
        /\ \A k \in 1..n : k \in 1..m \/ k = n
        /\ IF m = 0 THEN n = 1 ELSE m \in 1..m /\ 1 \in 1..m /\ n > 1
  <2>1. PICK n \in Nat \ {0} : Len(open[t]) = n
    BY <1>1
  <2>2. /\ n - 1 \in Nat /\ n \in 1..n /\ n - 1 \in 0..n
        /\ \A k \in 1..(n - 1) : k \in 1..n /\ k # n
        /\ \A k \in 1..n : k \in 1..(n - 1) \/ k = n
        /\ IF n - 1 = 0 THEN n = 1 ELSE n - 1 \in 1..(n - 1) /\ 1 \in 1..(n - 1) /\ n > 1
    OBVIOUS
  <2> QED
    BY <2>1, <2>2
<1>3. DOMAIN open[t] = 1..n /\ m \in 0..Len(open[t])
  BY <1>1, <1>2
<1>4. PICK b \in Block : b = open[t][n] /\ b = Innermost(t)
  BY <1>1, <1>2, <1>3 DEF Innermost
<1>5. b.span \in Span /\ spans[b.span].task = t /\ kin[t] # {}
  <2>1. open[t][n].span \in Span /\ spans[open[t][n].span].task = t
    BY <1>1, <1>2, <1>3 DEF TaskFits, NestInv, TaskNests, BlocksFit
  <2> QED
    BY <1>1, <1>4, <2>1 DEF NestInv, TaskNests, BlocksFit
<1>6. /\ current'[t] = b.before /\ open'[t] = SubSeq(open[t], 1, m)
      /\ \A u \in Tasks \ {t} : current'[u] = current[u] /\ open'[u] = open[u]
      /\ kin' = kin /\ hit' = hit
  BY <1>2, <1>4 DEF CloseSpan, Outer, TraceInv, Types
<1>7. /\ Span' = Span /\ \A i \in Span : spans'[i].task = spans[i].task
      /\ \A i \in Span : i # b.span => spans'[i] = spans[i]
      /\ spans'[b.span].status = outcome
  <2>1. PICK old \in SpanRecord : old = spans[b.span]
    BY <1>1, <1>5 DEF Span
  <2>2. PICK new : new = [old EXCEPT !.status = outcome]
    OBVIOUS
  <2>3. new \in SpanRecord /\ new.task = old.task /\ new.status = outcome
    BY <2>1, <2>2 DEF SpanRecord
  <2>4. spans' = [spans EXCEPT ![b.span] = new]
    BY <1>4, <2>1, <2>2 DEF CloseSpan
  <2>5. Span' = Span
    BY <1>1, <2>4 DEF Span
  <2>6. \A i \in Span : spans'[i] = IF i = b.span THEN new ELSE spans[i]
    BY <2>4, <2>5 DEF Span
  <2> QED
    BY <1>5, <2>1, <2>3, <2>5, <2>6
<1>8. /\ DOMAIN open'[t] = 1..m /\ Len(open'[t]) = m
      /\ \A k \in 1..m : k \in DOMAIN open[t] /\ open'[t][k] = open[t][k]
  BY <1>1, <1>3, <1>6, ShorterBlocks
<1>9. \A u \in Tasks \ {t} : Aside(u)
  BY <1>5, <1>6, <1>7 DEF Aside, Untouched
<1>10. BlocksFit(t)'
  <2>1. \A k \in 1..m : open[t][k].span \in Span /\ spans[open[t][k].span].task = t
    BY <1>1, <1>8 DEF NestInv, TaskNests, BlocksFit, TaskFits
  <2>2. \A k \in DOMAIN open'[t] : spans'[open'[t][k].span].task = t
    BY <1>7, <1>8, <2>1
  <2> QED
    BY <1>5, <1>6, <2>2 DEF BlocksFit
<1>11. ASSUME t \notin hit
       PROVE  Nested(t)'
  <2>1. Nested(t)
    BY <1>11 DEF NestInv, TaskNests
  <2>2. \A k \in 1..m : open[t][k].span # b.span
    <3>1. \A k \in 1..m : open[t][k].span # open[t][n].span
      BY <1>2, <1>3, <2>1 DEF Nested
    <3> QED
      BY <1>4, <3>1
  <2>3. ASSUME NEW i \in Span', spans'[i].task = t
        PROVE  spans'[i].status = "pending" <=> \E k \in DOMAIN open'[t] : open'[t][k].span = i
    <3>1. CASE i = b.span
      BY <1>7, <1>8, <2>2, <3>1
    <3>2. CASE i # b.span
      <4>1. i \in Span /\ spans[i].task = t /\ spans'[i] = spans[i]
        BY <1>7, <2>3, <3>2
      <4>2. spans[i].status = "pending" <=> \E k \in 1..n : open[t][k].span = i
        BY <1>3, <2>1, <4>1 DEF Nested
      <4>3. \A k \in 1..n : open[t][k].span = i => k \in 1..m
        BY <1>2, <1>4, <3>2
      <4> QED
        BY <1>2, <1>8, <4>1, <4>2, <4>3
    <3> QED
      BY <3>1, <3>2
  <2>4. CASE m = 0
    <3>1. open'[t] = <<>>
      BY <1>8, <1>1, <1>6, <2>4
    <3>2. b = open[t][1]
      BY <1>2, <1>4, <2>4
    <3>3. b.before > 0 => b.before \in Span /\ spans[b.before].task \in kin[t] \ {t}
      BY <1>1, <1>3, <2>1, <2>4, <3>2 DEF Nested, TaskFits, Kindred
    <3> QED
      BY <1>6, <1>7, <1>8, <2>3, <2>4, <3>1, <3>3 DEF Nested
  <2>5. CASE m # 0
    <3>1. m \in 1..m /\ 1 \in 1..m /\ n > 1
      BY <1>2, <2>5
    <3>2. b.before = open[t][m].span
      <4>1. open[t][n].before = open[t][n - 1].span
        BY <1>2, <1>3, <2>1, <3>1 DEF Nested
      <4> QED
        BY <1>2, <1>4, <4>1
    <3>3. current'[t] = Innermost(t)'.span
      BY <1>6, <1>8, <3>1, <3>2 DEF Innermost
    <3>4. \A k \in DOMAIN open'[t] : k > 1 => open'[t][k].before = open'[t][k - 1].span
      <4>1. \A k \in 1..m : k > 1 => k - 1 \in 1..m
        OBVIOUS
      <4> QED
        BY <1>8, <2>1, <4>1 DEF Nested
    <3>5. \A j, k \in DOMAIN open'[t] : open'[t][j].span = open'[t][k].span => j = k
      BY <1>8, <2>1 DEF Nested
    <3>6. open'[t] # <<>>
      BY <1>8, <2>5
    <3>7. open'[t][1].before > 0 => spans'[open'[t][1].before].task \in kin'[t] \ {t}
      <4>1. open'[t][1] = open[t][1] /\ 1 \in DOMAIN open[t]
        BY <1>8, <3>1
      <4>2. open[t][1].before = 0 \/ open[t][1].before \in Span
        BY <1>1, <4>1 DEF TaskFits, Kindred
      <4> QED
        <5>1. open[t][1].before > 0 => spans[open[t][1].before].task \in kin[t] \ {t}
          BY <1>1, <2>1 DEF Nested
        <5>2. open[t][1].before > 0 => open[t][1].before # 0
          OBVIOUS
        <5> QED
          BY <1>6, <1>7, <4>1, <4>2, <5>1, <5>2
    <3> QED
      BY <2>3, <3>3, <3>4, <3>5, <3>6, <3>7 DEF Nested
  <2> QED
    BY <2>4, <2>5
<1> QED
  BY <1>6, <1>9, <1>10, <1>11, OneTaskNests DEF TaskNests

LEMMA OpenSpanNests ==
  ASSUME TraceInv, NestInv, NEW t \in Tasks, OpenSpan(t)
  PROVE  NestInv'
<1>1. /\ open[t] \in Seq(Block) /\ spans \in Seq(SpanRecord) /\ TaskFits(t) /\ kin[t] # {}
      /\ current[t] \in Nat
  BY DEF TraceInv, Types, OpenSpan
<1>2. PICK n \in Nat : n = Len(open[t]) /\ DOMAIN open[t] = 1..n
  BY <1>1
<1>3. PICK i \in Nat : i = Len(spans) + 1
  BY <1>1
<1>4. PICK p : p = current[t]
  OBVIOUS
<1>5. PICK b \in Block : b = [span |-> i, before |-> p] /\ b.span = i /\ b.before = p
  <2>1. p \in Nat
    BY <1>1, <1>4
  <2>2. [span |-> i, before |-> p] \in Block
    BY <2>1 DEF Block
  <2> QED
    BY <2>2
<1>6. PICK new : /\ spans' = Append(spans, new) /\ new.task = t /\ new.status = "pending"
  BY <1>3, <1>4 DEF OpenSpan
<1>7. /\ i \notin Span /\ Span' = Span \cup {i} /\ spans'[i] = new
      /\ \A j \in Span : spans'[j] = spans[j]
  <2>1. Span = 1..Len(spans) /\ Len(spans) \in Nat
    BY <1>1 DEF Span
  <2>2. PICK longer : longer = Append(spans, new)
    OBVIOUS
  <2>3. DOMAIN longer = 1..(Len(spans) + 1) /\ longer[Len(spans) + 1] = new
        /\ \A j \in 1..Len(spans) : longer[j] = spans[j]
    BY <1>1, <2>2
  <2>4. Span' = DOMAIN longer /\ spans' = longer
    BY <1>6, <2>2 DEF Span
  <2> QED
    BY <1>3, <2>1, <2>3, <2>4
<1>8. /\ current'[t] = i /\ open'[t] = Append(open[t], b)
      /\ \A u \in Tasks \ {t} : current'[u] = current[u] /\ open'[u] = open[u]
      /\ kin' = kin /\ hit' = hit
  BY <1>3, <1>4, <1>5 DEF OpenSpan, TraceInv, Types
<1>9. /\ DOMAIN open'[t] = 1..(n + 1) /\ Len(open'[t]) = n + 1 /\ open'[t][n + 1] = b
      /\ \A k \in 1..n : open'[t][k] = open[t][k]
  <2>1. PICK longer : longer = Append(open[t], b)
    OBVIOUS
  <2>2. /\ DOMAIN longer = 1..(n + 1) /\ Len(longer) = n + 1 /\ longer[n + 1] = b
        /\ \A k \in 1..n : longer[k] = open[t][k]
    BY <1>1, <1>2, <2>1
  <2> QED
    BY <1>8, <2>1, <2>2
<1>10. \A u \in Tasks \ {t} : Aside(u)
  BY <1>6, <1>7, <1>8 DEF Aside, Untouched
<1>11. \A k \in 1..n : open[t][k].span \in Span /\ open[t][k].span # i /\ Kindred(t, open[t][k].before)
  BY <1>1, <1>2, <1>7 DEF TaskFits
<1>12. \A k \in 1..(n + 1) : k \in 1..n \/ k = n + 1
  OBVIOUS
<1>13. BlocksFit(t)'
  <2>1. \A k \in 1..n : spans[open[t][k].span].task = t
    BY <1>2 DEF NestInv, TaskNests, BlocksFit
  <2>2. ASSUME NEW k \in DOMAIN open'[t]
        PROVE  spans'[open'[t][k].span].task = t
    <3>1. CASE k \in 1..n
      BY <1>7, <1>9, <1>11, <2>1, <3>1
    <3>2. CASE k = n + 1
      BY <1>5, <1>6, <1>7, <1>9, <3>2
    <3> QED
      BY <1>9, <1>12, <2>2, <3>1, <3>2
  <2> QED
    BY <1>1, <1>8, <2>2 DEF BlocksFit
<1>14. ASSUME t \notin hit
       PROVE  Nested(t)'
  <2>1. Nested(t)
    BY <1>14 DEF NestInv, TaskNests
  <2>2. n + 1 \in 1..(n + 1) /\ 1 \in 1..(n + 1) /\ \A k \in 1..n : k \in 1..(n + 1)
    OBVIOUS
  <2>3. ASSUME NEW j \in Span', spans'[j].task = t
        PROVE  spans'[j].status = "pending" <=> \E k \in DOMAIN open'[t] : open'[t][k].span = j
    <3>1. CASE j = i
      BY <1>5, <1>6, <1>7, <1>9, <2>2, <3>1
    <3>2. CASE j # i
      <4>1. j \in Span /\ spans[j].task = t /\ spans'[j] = spans[j]
        BY <1>7, <2>3, <3>2
      <4>2. spans[j].status = "pending" <=> \E k \in 1..n : open[t][k].span = j
        BY <1>2, <2>1, <4>1 DEF Nested
      <4> QED
        BY <1>5, <1>9, <1>12, <2>2, <3>2, <4>1, <4>2
    <3> QED
      BY <3>1, <3>2
  <2>4. open'[t] # <<>> /\ current'[t] = Innermost(t)'.span
    <3>1. Innermost(t)' = open'[t][Len(open'[t])]
      BY DEF Innermost
    <3>2. Len(open'[t]) # 0
      BY <1>9
    <3>3. open'[t] # <<>>
      BY <3>2
    <3>4. Innermost(t)'.span = i
      BY <1>5, <1>9, <3>1
    <3> QED
      BY <1>8, <3>3, <3>4
  <2>5. ASSUME NEW k \in DOMAIN open'[t], k > 1
        PROVE  open'[t][k].before = open'[t][k - 1].span
    <3>1. CASE k \in 1..n
      <4>1. k - 1 \in 1..n
        BY <2>5, <3>1
      <4> QED
        BY <1>2, <1>9, <2>1, <2>5, <3>1, <4>1 DEF Nested
    <3>2. CASE k = n + 1
      <4>1. k - 1 = n /\ n \in 1..n /\ open[t] # <<>>
        BY <1>2, <2>5, <3>2
      <4>2. current[t] = open[t][n].span
        BY <1>2, <2>1, <4>1 DEF Nested, Innermost
      <4> QED
        BY <1>4, <1>5, <1>9, <3>2, <4>1, <4>2
    <3> QED
      BY <1>9, <1>12, <3>1, <3>2
  <2>6. ASSUME NEW j \in DOMAIN open'[t], NEW k \in DOMAIN open'[t],
               open'[t][j].span = open'[t][k].span
        PROVE  j = k
    <3>1. \A l \in 1..n : open'[t][l].span # i /\ open'[t][n + 1].span = i
      BY <1>5, <1>9, <1>11
    <3>2. CASE j = n + 1 \/ k = n + 1
      BY <1>9, <1>12, <2>6, <3>1, <3>2
    <3>3. CASE j \in 1..n /\ k \in 1..n
      <4>1. \A q, r \in 1..n : open[t][q].span = open[t][r].span => q = r
        BY <1>2, <2>1 DEF Nested
      <4>2. open[t][j].span = open[t][k].span
        BY <1>9, <2>6, <3>3
      <4> QED
        BY <3>3, <4>1, <4>2
    <3> QED
      BY <1>9, <1>12, <3>2, <3>3
  <2>7. open'[t][1].before > 0 => spans'[open'[t][1].before].task \in kin'[t] \ {t}
    <3>1. CASE n = 0
      <4>1. open[t] = <<>> /\ open'[t][1].before = p
        <5>1. open'[t][1] = b
          BY <1>9, <3>1
        <5> QED
          BY <1>1, <1>2, <1>5, <3>1, <5>1, EmptySeq
      <4>2. p > 0 => p \in Span /\ spans[p].task \in kin[t] \ {t}
        BY <1>1, <1>4, <2>1, <4>1 DEF Nested, TaskFits, Kindred
      <4> QED
        BY <1>7, <1>8, <4>1, <4>2
    <3>2. CASE n # 0
      <4>1. 1 \in 1..n /\ open[t] # <<>>
        BY <1>2, <3>2
      <4>2. open'[t][1] = open[t][1]
        BY <1>9, <4>1
      <4>3. open[t][1].before = 0 \/ open[t][1].before \in Span
        BY <1>11, <4>1 DEF Kindred
      <4> QED
        BY <1>7, <1>8, <2>1, <4>1, <4>2, <4>3 DEF Nested
    <3> QED
      BY <3>1, <3>2
  <2> QED
    BY <2>3, <2>4, <2>5, <2>6, <2>7 DEF Nested
<1> QED
  BY <1>8, <1>10, <1>13, <1>14, OneTaskNests DEF TaskNests

\* The blocks of every task nest, until a timeout goes through them.
THEOREM NestInvariant == TracerSpec => []NestInv
<1>1. TracerInit => NestInv
  BY DEF TracerInit, NestInv, TaskNests, BlocksFit, Nested, Span
<1>2. NestInv /\ TraceInv /\ [TracerNext]_(tracerVars) => NestInv'
  <2> SUFFICES ASSUME NestInv, TraceInv, [TracerNext]_(tracerVars)
               PROVE  NestInv'
    OBVIOUS
  <2>1. CASE UNCHANGED tracerVars \/ NewTrace \/ Clear
    BY <2>1, IdleNests DEF tracerVars, NewTrace, Clear
  <2>2. ASSUME NEW t \in Tasks, Begin(t) \/ OpenSpan(t) \/ TimeOut(t)
        PROVE  NestInv'
    BY <2>2, BeginNests, OpenSpanNests, TimeOutNests
  <2>3. ASSUME NEW t \in Tasks, NEW u \in Tasks, Spawn(t, u)
        PROVE  NestInv'
    BY <2>3, SpawnNests
  <2>4. ASSUME NEW t \in Tasks, NEW outcome \in {"ok", "error"}, CloseSpan(t, outcome)
        PROVE  NestInv'
    BY <2>4, CloseNests
  <2> QED
    BY <2>1, <2>2, <2>3, <2>4 DEF TracerNext
<1> QED
  BY <1>1, <1>2, TracingInvariant, PTL DEF TracerSpec

\* Where no timeout went, exactly the spans of blocks still entered are pending, the
\* blocks nest, and a task is between them back in the span its context began with.
THEOREM NestingKept == TracerSpec => []BlocksNest
<1>1. NestInv => BlocksNest
  BY DEF NestInv, TaskNests, Nested, BlocksNest
<1> QED
  BY <1>1, NestInvariant, PTL
-----------------------------------------------------------------------------
(***************************************************************************)
(* Proofs about Hooks, for any hooks, names, priorities and emissions.     *)
(* That an emission calls no hook twice, and each in its turn, holds since *)
(* what it has called and what it has left form one list that rises: the   *)
(* hooks registered meanwhile are none of it.                              *)
(***************************************************************************)
After(p, q) == p # q /\ Priority[p] <= Priority[q]
Rising(s) == \A i, j \in DOMAIN s : i < j => After(s[i], s[j])

\* No hook is registered twice, and each in the list of its kind.
ListsFit ==
  /\ made \subseteq Hooks
  /\ wildcard \in Seq(made \cap Wildcard) /\ Different(wildcard)
  /\ hooks \in Seq(made \ Wildcard) /\ Different(hooks)

EmissionTypes ==
  /\ state \in [Emissions -> {"new", "awaiting", "done"}]
  /\ left \in [Emissions -> Seq(Hooks)] /\ begun \in [Emissions -> Seq(Hooks)]
  /\ toRemove \in [Emissions -> SUBSET Hooks] /\ awake \in [Emissions -> SUBSET Hooks]
  /\ stopped \in [Emissions -> BOOLEAN]

\* All that rises from what the emission has called to what it has left.
Climbs(b, s) ==
  /\ Rising(b) /\ Rising(s)
  /\ \A i \in DOMAIN b, j \in DOMAIN s : After(b[i], s[j])

EmissionFits(e) ==
  /\ begun[e] \in Seq(made) /\ left[e] \in Seq(made) /\ toRemove[e] \subseteq made
  /\ Climbs(begun[e], left[e])
  /\ state[e] = "new" => begun[e] = <<>> /\ ~stopped[e]
  /\ state[e] = "awaiting" => begun[e] # <<>> /\ ~stopped[e]
  /\ state[e] # "awaiting" => left[e] = <<>> /\ toRemove[e] \cap Registered = {}
  /\ state[e] # "new" /\ ~stopped[e] =>
       awake[e] \subseteq ToSet(begun[e]) \cup ToSet(left[e])
  /\ awake[e] \subseteq enabled

HooksInv == ListsFit /\ EmissionTypes /\ \A e \in Emissions : EmissionFits(e)
-----------------------------------------------------------------------------
\* Sorted by priority, the hooks of a list are the same and rise.
LEMMA SortedRises ==
  ASSUME NEW X \in SUBSET Hooks, NEW s \in Seq(X), Different(s)
  PROVE  /\ Sorted(s) \in Seq(X) /\ Rising(Sorted(s))
         /\ ToSet(Sorted(s)) = ToSet(s)
<1> DEFINE K == DOMAIN s
           b == Before(s)
<1>0. \A i \in K : s[i] \in Hooks /\ Priority[s[i]] \in Nat /\ i \in Nat
  BY HooksAssumption
<1>1. Orders(K, b)
  BY <1>0 DEF Orders, Before
<1>2. PICK r \in Seq(X) : r = Sorted(s)
  BY <1>1, RankedFits DEF Sorted
<1>3. PICK f : Picks(f, r, s, K) /\ RisesBy(f, b)
  BY <1>1, <1>2, RankedFits DEF Sorted
<1>4. /\ f \in [DOMAIN r -> K] /\ \A p \in DOMAIN r : r[p] = s[f[p]]
      /\ \A i \in K : \E p \in DOMAIN r : f[p] = i
      /\ \A p, q \in DOMAIN r : p < q => <<f[p], f[q]>> \in b
  BY <1>3 DEF Picks, RisesBy
<1>5. \A i, j : <<i, j>> \in b => i \in K /\ j \in K /\ i # j /\ Priority[s[i]] <= Priority[s[j]]
  BY <1>0 DEF Before
<1> HIDE DEF K, b
<1>6. ASSUME NEW p \in DOMAIN r, NEW q \in DOMAIN r, p < q
      PROVE  After(r[p], r[q])
  <2>1. f[p] \in K /\ f[q] \in K /\ f[p] # f[q] /\ Priority[s[f[p]]] <= Priority[s[f[q]]]
    BY <1>4, <1>5, <1>6
  <2>2. s[f[p]] # s[f[q]]
    <3>1. f[p] < f[q] \/ f[q] < f[p]
      BY <1>0, <2>1
    <3> QED
      BY <2>1, <3>1 DEF Different, K
  <2> QED
    BY <1>4, <2>1, <2>2 DEF After
<1>7. ToSet(r) = ToSet(s)
  BY <1>4 DEF ToSet, K
<1> QED
  BY <1>2, <1>6, <1>7 DEF Rising

\* off() takes out the hooks of the names and leaves the others where they are.
LEMMA OthersFit ==
  ASSUME NEW X, NEW s \in Seq(X), Different(s), NEW N
  PROVE  /\ Others(s, N) \in Seq(X) /\ Different(Others(s, N))
         /\ ToSet(Others(s, N)) = {h \in ToSet(s) : Name[h] \notin N}
<1> DEFINE K == {i \in DOMAIN s : Name[s[i]] \notin N}
<1>1. PICK r \in Seq(X) : r = Others(s, N)
  BY KeptFits DEF Others
<1>2. PICK f : Picks(f, r, s, K) /\ \A p, q \in DOMAIN f : p < q => f[p] < f[q]
  BY <1>1, KeptFits DEF Others
<1>3. /\ f \in [DOMAIN r -> K] /\ \A p \in DOMAIN r : r[p] = s[f[p]]
      /\ \A i \in K : \E p \in DOMAIN r : f[p] = i
      /\ \A p, q \in DOMAIN r : p < q => f[p] < f[q]
  BY <1>2 DEF Picks
<1>4. K \subseteq DOMAIN s /\ \A i \in DOMAIN s : i \in K <=> Name[s[i]] \notin N
  OBVIOUS
<1> HIDE DEF K
<1>5. Different(r)
  BY <1>3, <1>4 DEF Different
<1>6. ToSet(r) = {h \in ToSet(s) : Name[h] \notin N}
  BY <1>3, <1>4 DEF ToSet
<1> QED
  BY <1>1, <1>5, <1>6

\* The hooks that are registered, at the beginning of an emission.
LEMMA AllHooks ==
  ASSUME ListsFit
  PROVE  /\ wildcard \o hooks \in Seq(made) /\ Different(wildcard \o hooks)
         /\ ToSet(wildcard \o hooks) = Registered
         /\ Registered \subseteq made
<1>1. wildcard \in Seq(made) /\ hooks \in Seq(made) /\ Different(wildcard) /\ Different(hooks)
  BY ToSetFacts DEF ListsFit
<1>2. ToSet(wildcard) \subseteq Wildcard /\ ToSet(hooks) \cap Wildcard = {}
  BY ToSetFacts DEF ListsFit
<1>3. /\ wildcard \o hooks \in Seq(made) /\ Different(wildcard \o hooks)
      /\ ToSet(wildcard \o hooks) = ToSet(wildcard) \cup ToSet(hooks)
  BY <1>1, <1>2, ConcatDifferent
<1> QED
  BY <1>1, <1>3, ToSetFacts DEF Registered
-----------------------------------------------------------------------------
\* The lists after off() of some names, or with nothing done to them.
LEMMA OffFits ==
  ASSUME ListsFit, NEW N, OffAll(N), made' = made
  PROVE  /\ ListsFit' /\ Registered' = {h \in Registered : Name[h] \notin N}
<1>1. wildcard' = Others(wildcard, N) /\ hooks' = Others(hooks, N)
  BY DEF OffAll
<1>2. /\ wildcard' \in Seq(made \cap Wildcard) /\ Different(wildcard')
      /\ ToSet(wildcard') = {h \in ToSet(wildcard) : Name[h] \notin N}
  BY <1>1, OthersFit DEF ListsFit
<1>3. /\ hooks' \in Seq(made \ Wildcard) /\ Different(hooks')
      /\ ToSet(hooks') = {h \in ToSet(hooks) : Name[h] \notin N}
  BY <1>1, OthersFit DEF ListsFit
<1>4. Registered' = ToSet(wildcard') \cup ToSet(hooks')
  BY DEF Registered, ToSet, ToSet
<1>5. ListsFit'
  BY <1>2, <1>3 DEF ListsFit, Different
<1> QED
  BY <1>2, <1>3, <1>4, <1>5 DEF Registered

LEMMA ListsStay ==
  ASSUME ListsFit, UNCHANGED <<made, wildcard, hooks>>
  PROVE  ListsFit' /\ Registered' = Registered
BY DEF ListsFit, Different, Registered, ToSet

\* An emission that does not take the step.
LEMMA OtherEmission ==
  ASSUME NEW e \in Emissions, EmissionFits(e), made \subseteq made',
         state'[e] = state[e], left'[e] = left[e], begun'[e] = begun[e],
         toRemove'[e] = toRemove[e], stopped'[e] = stopped[e],
         awake'[e] \subseteq awake[e] \cap enabled',
         \A h \in Registered' : h \in made => h \in Registered
  PROVE  EmissionFits(e)'
<1>1. Climbs(begun'[e], left'[e])
  BY DEF EmissionFits
<1>2. begun'[e] \in Seq(made') /\ left'[e] \in Seq(made') /\ toRemove'[e] \subseteq made'
  BY DEF EmissionFits
<1>3. state'[e] # "awaiting" => left'[e] = <<>> /\ toRemove'[e] \cap Registered' = {}
  BY DEF EmissionFits
<1>4. /\ state'[e] = "new" => begun'[e] = <<>> /\ ~stopped'[e]
      /\ state'[e] = "awaiting" => begun'[e] # <<>> /\ ~stopped'[e]
  BY DEF EmissionFits
<1>5. state'[e] # "new" /\ ~stopped'[e] =>
        awake'[e] \subseteq ToSet(begun'[e]) \cup ToSet(left'[e])
  BY DEF EmissionFits
<1> QED
  BY <1>1, <1>2, <1>3, <1>4, <1>5 DEF EmissionFits, ToSet, Climbs, Rising
-----------------------------------------------------------------------------
\* What emit() does next when it calls a hook, and when there is none to call.
Calls(e, s, R, n) ==
  /\ n \in DOMAIN s /\ s[n] \in enabled
  /\ \A i \in DOMAIN s : i < n => s[i] \notin enabled
  /\ state' = [state EXCEPT ![e] = "awaiting"]
  /\ left' = [left EXCEPT ![e] = SubSeq(s, n + 1, Len(s))]
  /\ begun' = [begun EXCEPT ![e] = Append(begun[e], s[n])]
  /\ toRemove' = [toRemove EXCEPT ![e] = R]
  /\ UNCHANGED <<wildcard, hooks>>
Ends(e, s, R) ==
  /\ \A i \in DOMAIN s : s[i] \notin enabled
  /\ state' = [state EXCEPT ![e] = "done"]
  /\ left' = [left EXCEPT ![e] = <<>>]
  /\ begun' = begun
  /\ toRemove' = [toRemove EXCEPT ![e] = R]
  /\ OffAll({Name[h] : h \in R})

LEMMA CallsOrEnds ==
  ASSUME NEW X, NEW s \in Seq(X), NEW e \in Emissions, NEW R, EmissionTypes, Continue(e, s, R)
  PROVE  Ends(e, s, R) \/ \E n \in DOMAIN s : Calls(e, s, R, n)
<1> DEFINE on == {i \in DOMAIN s : s[i] \in enabled}
<1>1. CASE on = {}
  BY <1>1 DEF Continue, Ends
<1>2. CASE on # {}
  <2>1. PICK n : n = Foremost(on) /\ n \in on /\ \A j \in on : n <= j
    BY <1>2, ForemostFits
  <2>20. \A i \in DOMAIN s : i \in Nat /\ i # 0
    OBVIOUS
  <2>2. n # 0 /\ n \in Nat /\ n \in DOMAIN s
    BY <2>1, <2>20
  <2>3. Foremost(on) = n
    BY <2>1
  <2>4. ASSUME NEW i \in DOMAIN s, i < n
        PROVE  s[i] \notin enabled
    <3>1. i \in Nat /\ ~(n <= i)
      BY <2>2, <2>4, <2>20
    <3>2. i \notin on
      BY <2>1, <3>1
    <3> QED
      BY <3>2
  <2>5. Calls(e, s, R, n)
    BY <1>2, <2>1, <2>2, <2>3, <2>4 DEF Continue, Calls, EmissionTypes
  <2> QED
    BY <2>1, <2>5
<1> QED
  BY <1>1, <1>2

\* The hook called and those left, when what is left before it is switched off.
CallFits(X, b, s, n, c, r) ==
  /\ c \in Seq(X) /\ r \in Seq(X) /\ c # <<>> /\ Climbs(c, r)
  /\ \A h \in ToSet(b) \cup ToSet(s) :
       h \in ToSet(c) \cup ToSet(r) \/ \E i \in DOMAIN s : i < n /\ s[i] = h

LEMMA CalledFits ==
  ASSUME NEW X, NEW b \in Seq(X), NEW s \in Seq(X), NEW n \in DOMAIN s,
         Climbs(b, s)
  PROVE  CallFits(X, b, s, n, Append(b, s[n]), SubSeq(s, n + 1, Len(s)))
<1>0. Rising(b) /\ Rising(s) /\ \A i \in DOMAIN b, j \in DOMAIN s : After(b[i], s[j])
  BY DEF Climbs
<1>1. PICK m \in Nat : m = Len(s) /\ DOMAIN s = 1..m
  OBVIOUS
<1>2. PICK k \in Nat : k = Len(b) /\ DOMAIN b = 1..k
  OBVIOUS
<1>3. n \in 1..m /\ n \in 0..m /\ s[n] \in X
  BY <1>1
<1>4. PICK r \in Seq(X) : r = SubSeq(s, n + 1, Len(s)) /\ Len(r) = m - n
          /\ \A i \in 1..Len(r) : r[i] = s[n + i] /\ n + i \in 1..m
  <2>1. PICK r : r = SubSeq(s, n + 1, Len(s))
    OBVIOUS
  <2>2. n \in 0..Len(s)
    BY <1>1
  <2>3. /\ r \in Seq(X) /\ Len(r) = Len(s) - n
        /\ \A i \in 1..Len(r) : r[i] = s[n + i] /\ n + i \in 1..Len(s)
    BY ONLY <2>1, <2>2, s \in Seq(X), EndOfSeq, SMTT(20)
  <2>4. /\ r \in Seq(X) /\ Len(r) = m - n
        /\ \A i \in 1..Len(r) : r[i] = s[n + i] /\ n + i \in 1..m
    BY ONLY <1>1, <2>3
  <2> QED
    BY ONLY <2>1, <2>4
<1>5. DOMAIN r = 1..(m - n) /\ \A i \in 1..(m - n) : r[i] = s[n + i] /\ n + i \in 1..m /\ n < n + i
  BY <1>3, <1>4
<1>6. PICK a \in Seq(X) : a = Append(b, s[n])
  BY <1>3, AppendProperties
<1>7. DOMAIN a = 1..(k + 1) /\ a[k + 1] = s[n] /\ \A i \in 1..k : a[i] = b[i]
  BY <1>2, <1>6
<1>8. Rising(a)
  <2>1. ASSUME NEW i \in 1..(k + 1), NEW j \in 1..(k + 1), i < j
        PROVE  After(a[i], a[j])
    <3>1. i \in 1..k
      BY <2>1
    <3>2. CASE j = k + 1
      BY <1>0, <1>1, <1>2, <1>3, <1>7, <3>1, <3>2
    <3>3. CASE j \in 1..k
      BY <1>0, <1>2, <1>7, <2>1, <3>1, <3>3 DEF Rising
    <3>4. j = k + 1 \/ j \in 1..k
      OBVIOUS
    <3> QED
      BY <3>2, <3>3, <3>4
  <2> QED
    BY <1>7, <2>1 DEF Rising
<1>9. Rising(r)
  <2>1. ASSUME NEW i \in 1..(m - n), NEW j \in 1..(m - n), i < j
        PROVE  After(r[i], r[j])
    <3>1. n + i < n + j /\ n + i \in 1..m /\ n + j \in 1..m
      BY <1>5, <2>1
    <3>2. After(s[n + i], s[n + j])
      BY <1>0, <1>1, <3>1 DEF Rising
    <3> QED
      BY <1>5, <3>2
  <2> QED
    BY <1>5, <2>1 DEF Rising
<1>10. ASSUME NEW i \in 1..(k + 1), NEW j \in 1..(m - n)
       PROVE  After(a[i], r[j])
  <2>1. n + j \in 1..m /\ n < n + j /\ r[j] = s[n + j]
    BY <1>5
  <2>2. CASE i = k + 1
    BY <1>0, <1>1, <1>3, <1>7, <2>1, <2>2 DEF Rising
  <2>3. CASE i \in 1..k
    BY <1>0, <1>1, <1>2, <1>7, <2>1, <2>3
  <2>4. i = k + 1 \/ i \in 1..k
    OBVIOUS
  <2> QED
    BY <2>2, <2>3, <2>4
<1>11. ASSUME NEW h \in ToSet(b)
       PROVE  h \in ToSet(a)
  <2>1. PICK i \in 1..k : b[i] = h
    BY <1>2 DEF ToSet
  <2>2. i \in 1..(k + 1)
    OBVIOUS
  <2> QED
    BY <1>7, <2>1, <2>2 DEF ToSet
<1>12. ASSUME NEW h \in ToSet(s)
       PROVE  \/ h \in ToSet(a) \cup ToSet(r)
              \/ \E i \in DOMAIN s : i < n /\ s[i] = h
  <2>1. PICK i \in 1..m : s[i] = h
    BY <1>1 DEF ToSet
  <2>2. CASE i < n
    BY <1>1, <2>1, <2>2
  <2>3. CASE i = n
    <3>1. k + 1 \in 1..(k + 1)
      OBVIOUS
    <3> QED
      BY <1>7, <2>1, <2>3, <3>1 DEF ToSet
  <2>4. CASE i > n
    <3>1. i - n \in 1..(m - n) /\ n + (i - n) = i
      BY <1>3, <2>4
    <3>2. r[i - n] = h
      BY <1>5, <2>1, <3>1
    <3> QED
      BY <1>5, <3>1, <3>2 DEF ToSet
  <2> QED
    BY <1>3, <2>2, <2>3, <2>4
<1>13. a # <<>>
  BY <1>6
<1>14. Climbs(a, r)
  BY <1>5, <1>7, <1>8, <1>9, <1>10 DEF Climbs
<1>15. CallFits(X, b, s, n, a, r)
  BY <1>4, <1>6, <1>11, <1>12, <1>13, <1>14 DEF CallFits
<1> QED
  BY <1>4, <1>6, <1>15

\* A step of emit() on a list that rises from what has been called.
LEMMA ContinueKeeps ==
  ASSUME HooksInv, NEW e \in Emissions, NEW s \in Seq(made), NEW R \in SUBSET made,
         Continue(e, s, R), made' = made, enabled' = enabled,
         Climbs(begun[e], s),
         stopped' \in [Emissions -> BOOLEAN], s # <<>> => ~stopped'[e],
         awake' \in [Emissions -> SUBSET Hooks], awake'[e] \subseteq enabled,
         ~stopped'[e] => awake'[e] \subseteq ToSet(begun[e]) \cup ToSet(s),
         \A d \in Emissions : d # e => stopped'[d] = stopped[d] /\ awake'[d] \subseteq awake[d]
  PROVE  HooksInv'
<1> USE DEF HooksInv
<1>1. made \subseteq Hooks /\ s \in Seq(Hooks) /\ R \subseteq Hooks
  BY ToSetFacts DEF ListsFit
<1>2. begun[e] \in Seq(made)
  BY DEF EmissionFits
<1>3. ASSUME Ends(e, s, R)
      PROVE  HooksInv'
  <2>1. ListsFit' /\ Registered' = {h \in Registered : Name[h] \notin {Name[k] : k \in R}}
    BY <1>3, OffFits DEF Ends
  <2>2. EmissionTypes'
    BY <1>1, <1>3 DEF Ends, EmissionTypes
  <2>3. /\ state'[e] = "done" /\ left'[e] = <<>> /\ begun'[e] = begun[e] /\ toRemove'[e] = R
        /\ \A d \in Emissions : d # e => /\ state'[d] = state[d] /\ left'[d] = left[d]
                                         /\ begun'[d] = begun[d] /\ toRemove'[d] = toRemove[d]
    BY <1>3 DEF Ends, EmissionTypes
  <2>4. R \cap Registered' = {}
    BY <2>1
  <2>5. EmissionFits(e)'
    <3>1. Climbs(begun'[e], left'[e])
      BY <2>3 DEF Climbs, Rising
    <3>2. s # <<>> \/ ToSet(s) = {}
      BY ToSetFacts
    <3>3. awake'[e] \cap ToSet(s) = {}
      BY <1>3 DEF Ends, ToSet
    <3>4. ~stopped'[e] => awake'[e] \subseteq ToSet(begun'[e])
      BY <2>3, <3>3
    <3>5. left'[e] \in Seq(made')
      BY <2>3
    <3> QED
      BY <1>2, <2>3, <2>4, <3>1, <3>4, <3>5 DEF EmissionFits, ToSet, Climbs, Rising
  <2>6. ASSUME NEW d \in Emissions, d # e
        PROVE  EmissionFits(d)'
    <3>1. stopped'[d] = stopped[d] /\ awake'[d] \subseteq awake[d] \cap enabled'
      BY <2>6 DEF EmissionFits
    <3> QED
      BY <2>1, <2>3, <2>6, <3>1, OtherEmission
  <2> QED
    BY <2>1, <2>2, <2>5, <2>6
<1>4. ASSUME NEW n \in DOMAIN s, Calls(e, s, R, n)
      PROVE  HooksInv'
  <2>1. ListsFit' /\ Registered' = Registered
    BY <1>4, ListsStay DEF Calls
  <2>2. CallFits(made, begun[e], s, n, Append(begun[e], s[n]), SubSeq(s, n + 1, Len(s)))
    BY <1>2, CalledFits
  <2>3. PICK b, r : /\ b = Append(begun[e], s[n]) /\ r = SubSeq(s, n + 1, Len(s))
                    /\ CallFits(made, begun[e], s, n, b, r)
                    /\ b \in Seq(made) /\ r \in Seq(made)
    <3>1. /\ Append(begun[e], s[n]) \in Seq(made)
          /\ SubSeq(s, n + 1, Len(s)) \in Seq(made)
      BY <2>2 DEF CallFits
    <3> QED
      BY <2>2, <3>1, Zenon
  <2>4. b \in Seq(Hooks) /\ r \in Seq(Hooks)
    BY <1>1, <2>3, ToSetFacts
  <2>5. /\ state'[e] = "awaiting" /\ left'[e] = r /\ begun'[e] = b /\ toRemove'[e] = R
        /\ \A d \in Emissions : d # e => /\ state'[d] = state[d] /\ left'[d] = left[d]
                                         /\ begun'[d] = begun[d] /\ toRemove'[d] = toRemove[d]
    BY <1>4, <2>3 DEF Calls, EmissionTypes
  <2>6. EmissionTypes'
    BY <1>1, <1>4, <2>3, <2>4 DEF Calls, EmissionTypes
  <2>7. EmissionFits(e)'
    <3>1. b # <<>> /\ Climbs(begun'[e], left'[e])
      BY <2>3, <2>5 DEF CallFits
    <3>2. s # <<>> /\ ~stopped'[e]
      OBVIOUS
    <3>3. ASSUME NEW h \in awake'[e]
          PROVE  h \in ToSet(b) \cup ToSet(r)
      <4>1. h \in ToSet(begun[e]) \cup ToSet(s)
        BY <3>2
      <4>2. \A i \in DOMAIN s : i < n => s[i] # h
        BY <1>4 DEF Calls
      <4> QED
        BY <2>3, <4>1, <4>2 DEF CallFits
    <3>4. awake'[e] \subseteq ToSet(begun'[e]) \cup ToSet(left'[e])
      BY <2>5, <3>3
    <3>5. begun'[e] \in Seq(made') /\ left'[e] \in Seq(made') /\ toRemove'[e] \subseteq made'
      BY <2>3, <2>5
    <3>6. state'[e] = "awaiting" /\ begun'[e] # <<>>
      BY <2>5, <3>1
    <3>7. awake'[e] \subseteq enabled'
      OBVIOUS
    <3> QED
      BY <3>1, <3>2, <3>4, <3>5, <3>6, <3>7 DEF EmissionFits, ToSet, Climbs, Rising
  <2>8. ASSUME NEW d \in Emissions, d # e
        PROVE  EmissionFits(d)'
    <3>1. stopped'[d] = stopped[d] /\ awake'[d] \subseteq awake[d] \cap enabled'
      BY <2>8 DEF EmissionFits
    <3> QED
      BY <2>1, <2>5, <2>8, <3>1, OtherEmission
  <2> QED
    BY <2>1, <2>6, <2>7, <2>8
<1> QED
  BY <1>3, <1>4, CallsOrEnds
-----------------------------------------------------------------------------
\* The steps that leave every emission where it is.
LEMMA OthersKeep ==
  ASSUME HooksInv, ListsFit', made \subseteq made', UNCHANGED emission,
         awake' \in [Emissions -> SUBSET Hooks],
         \A e \in Emissions : awake'[e] \subseteq awake[e] \cap enabled',
         \A h \in Registered' : h \in made => h \in Registered
  PROVE  HooksInv'
<1>1. EmissionTypes'
  BY DEF HooksInv, EmissionTypes, emission
<1>2. ASSUME NEW e \in Emissions
      PROVE  EmissionFits(e)'
  <2>1. /\ state'[e] = state[e] /\ left'[e] = left[e] /\ begun'[e] = begun[e]
        /\ toRemove'[e] = toRemove[e] /\ stopped'[e] = stopped[e]
    BY DEF emission
  <2> QED
    BY <2>1, OtherEmission DEF HooksInv
<1> QED
  BY <1>1, <1>2 DEF HooksInv

LEMMA OnKeeps ==
  ASSUME HooksInv, NEW h \in Hooks, On(h)
  PROVE  HooksInv'
<1>0. ListsFit /\ Registered \subseteq made
  BY AllHooks DEF HooksInv
<1>1. h \notin made /\ h \notin Wildcard /\ made' = made \cup {h} /\ wildcard' = wildcard
      /\ hooks' = Sorted(Append(hooks, h)) /\ UNCHANGED <<enabled, emission, awake>>
  BY DEF On
<1> DEFINE X == made' \ Wildcard
<1>2. hooks \in Seq(X) /\ h \in X /\ h \notin ToSet(hooks) /\ Different(hooks)
  BY <1>0, <1>1, ToSetFacts DEF ListsFit, Registered
<1>3. X \in SUBSET Hooks
  BY <1>0, <1>1 DEF ListsFit
<1> HIDE DEF X
<1>4. PICK s : s = Append(hooks, h) /\ s \in Seq(X) /\ Different(s)
               /\ ToSet(s) = ToSet(hooks) \cup {h}
  <2>1. /\ Append(hooks, h) \in Seq(X) /\ Different(Append(hooks, h))
        /\ ToSet(Append(hooks, h)) = ToSet(hooks) \cup {h}
    BY <1>2, AppendDifferent
  <2> QED
    BY <2>1
<1>5. hooks' \in Seq(X) /\ Rising(hooks') /\ ToSet(hooks') = ToSet(hooks) \cup {h}
  BY <1>1, <1>3, <1>4, SortedRises
<1>6. Different(hooks')
  BY <1>5 DEF Rising, Different, After
<1>7. ListsFit'
  <2>1. made' \subseteq Hooks
    BY <1>0, <1>1 DEF ListsFit
  <2>2. wildcard' \in Seq(made' \cap Wildcard) /\ Different(wildcard')
    BY <1>0, <1>1 DEF ListsFit
  <2> QED
    BY <1>5, <1>6, <2>1, <2>2 DEF ListsFit, Different, X
<1>8. Registered' = Registered \cup {h}
  <2>1. Registered' = ToSet(wildcard') \cup ToSet(hooks')
    BY DEF Registered, ToSet, ToSet
  <2> QED
    BY <1>1, <1>5, <2>1 DEF Registered
<1>9. awake' \in [Emissions -> SUBSET Hooks] /\ \A e \in Emissions : awake'[e] \subseteq awake[e] \cap enabled'
  BY <1>1 DEF HooksInv, EmissionTypes, EmissionFits
<1> QED
  BY <1>1, <1>7, <1>8, <1>9, OthersKeep

LEMMA OnAnyKeeps ==
  ASSUME HooksInv, NEW h \in Hooks, OnAny(h)
  PROVE  HooksInv'
<1>0. ListsFit /\ Registered \subseteq made
  BY AllHooks DEF HooksInv
<1>1. h \notin made /\ h \in Wildcard /\ made' = made \cup {h} /\ hooks' = hooks
      /\ wildcard' = Append(wildcard, h) /\ UNCHANGED <<enabled, emission, awake>>
  BY DEF OnAny
<1> DEFINE X == made' \cap Wildcard
<1>2. wildcard \in Seq(X) /\ h \in X /\ h \notin ToSet(wildcard) /\ Different(wildcard)
  BY <1>0, <1>1, ToSetFacts DEF ListsFit, Registered
<1> HIDE DEF X
<1>4. wildcard' \in Seq(X) /\ Different(wildcard')
      /\ ToSet(wildcard') = ToSet(wildcard) \cup {h}
  BY <1>1, <1>2, AppendDifferent
<1>7. ListsFit'
  <2>1. made' \subseteq Hooks
    BY <1>0, <1>1 DEF ListsFit
  <2>2. hooks' \in Seq(made' \ Wildcard) /\ Different(hooks')
    BY <1>0, <1>1 DEF ListsFit
  <2> QED
    BY <1>4, <2>1, <2>2 DEF ListsFit, Different, X
<1>8. Registered' = Registered \cup {h}
  <2>1. Registered' = ToSet(wildcard') \cup ToSet(hooks')
    BY DEF Registered, ToSet, ToSet
  <2> QED
    BY <1>1, <1>4, <2>1 DEF Registered
<1>9. awake' \in [Emissions -> SUBSET Hooks] /\ \A e \in Emissions : awake'[e] \subseteq awake[e] \cap enabled'
  BY <1>1 DEF HooksInv, EmissionTypes, EmissionFits
<1> QED
  BY <1>1, <1>7, <1>8, <1>9, OthersKeep

LEMMA OffKeeps ==
  ASSUME HooksInv, NEW n, Off(n)
  PROVE  HooksInv'
<1>1. OffAll({n}) /\ made' = made /\ enabled' = enabled /\ UNCHANGED emission
      /\ awake' = [e \in Emissions |-> {h \in awake[e] : Name[h] # n}]
  BY DEF Off
<1>2. ListsFit' /\ Registered' = {h \in Registered : Name[h] \notin {n}}
  BY <1>1, OffFits DEF HooksInv
<1>3. awake' \in [Emissions -> SUBSET Hooks] /\ \A e \in Emissions : awake'[e] \subseteq awake[e] \cap enabled'
  BY <1>1 DEF HooksInv, EmissionTypes, EmissionFits
<1> QED
  BY <1>1, <1>2, <1>3, OthersKeep

LEMMA ToggleKeeps ==
  ASSUME HooksInv, NEW h \in Hooks, Toggle(h)
  PROVE  HooksInv'
<1>1. UNCHANGED <<made, wildcard, hooks>> /\ UNCHANGED emission
      /\ awake' = [e \in Emissions |-> awake[e] \ {h}] /\ enabled \ {h} \subseteq enabled'
  BY DEF Toggle
<1>2. ListsFit' /\ Registered' = Registered
  BY <1>1, ListsStay DEF HooksInv
<1>3. awake' \in [Emissions -> SUBSET Hooks] /\ \A e \in Emissions : awake'[e] \subseteq awake[e] \cap enabled'
  BY <1>1 DEF HooksInv, EmissionTypes, EmissionFits
<1> QED
  BY <1>1, <1>2, <1>3, OthersKeep

LEMMA EmitKeeps ==
  ASSUME HooksInv, NEW e \in Emissions, Emit(e)
  PROVE  HooksInv'
<1>1. PICK s : s = Sorted(wildcard \o hooks)
  OBVIOUS
<1>2. state[e] = "new" /\ Continue(e, s, {}) /\ made' = made /\ enabled' = enabled
      /\ stopped' = stopped /\ awake' = [awake EXCEPT ![e] = Registered \cap enabled]
  BY <1>1 DEF Emit
<1>3. PICK all : all = wildcard \o hooks /\ all \in Seq(made) /\ Different(all)
                 /\ ToSet(all) = Registered /\ Registered \subseteq made
  BY AllHooks DEF HooksInv
<1>4. made \in SUBSET Hooks
  BY DEF HooksInv, ListsFit
<1>5. s \in Seq(made) /\ Rising(s) /\ ToSet(s) = Registered
  BY <1>1, <1>3, <1>4, SortedRises
<1>6. begun[e] = <<>> /\ ~stopped[e]
  BY <1>2 DEF HooksInv, EmissionFits
<1>7. Climbs(begun[e], s)
  BY <1>5, <1>6 DEF Climbs, Rising
<1>8. /\ awake' \in [Emissions -> SUBSET Hooks] /\ awake'[e] = Registered \cap enabled
      /\ \A d \in Emissions : d # e => awake'[d] = awake[d]
  BY <1>2, <1>3, <1>4 DEF HooksInv, EmissionTypes
<1>9. stopped' \in [Emissions -> BOOLEAN] /\ \A d \in Emissions : stopped'[d] = stopped[d]
  BY <1>2 DEF HooksInv, EmissionTypes
<1>10. {} \in SUBSET made /\ awake'[e] \subseteq enabled /\ awake'[e] \subseteq ToSet(s) /\ ~stopped'[e]
  BY <1>5, <1>6, <1>8, <1>9
<1> QED
  BY <1>2, <1>5, <1>7, <1>8, <1>9, <1>10, ContinueKeeps

\* A handler has ended, and emit() goes on with what is left or with nothing.
LEMMA GoesOn ==
  ASSUME HooksInv, NEW e \in Emissions, state[e] = "awaiting",
         NEW R \in SUBSET made, NEW stop \in BOOLEAN,
         Continue(e, IF stop THEN <<>> ELSE left[e], R), made' = made, enabled' = enabled,
         stopped' = [stopped EXCEPT ![e] = stop],
         awake' = [d \in Emissions |-> awake[d] \cap (Registered')]
  PROVE  HooksInv'
<1>1. /\ begun[e] \in Seq(made) /\ left[e] \in Seq(made) /\ Climbs(begun[e], left[e])
      /\ ~stopped[e] /\ awake[e] \subseteq ToSet(begun[e]) \cup ToSet(left[e])
  BY DEF HooksInv, EmissionFits
<1>2. /\ awake' \in [Emissions -> SUBSET Hooks] /\ \A d \in Emissions : awake'[d] \subseteq awake[d]
      /\ awake[e] \subseteq enabled
  BY DEF HooksInv, EmissionTypes, EmissionFits
<1>3. /\ stopped' \in [Emissions -> BOOLEAN] /\ stopped'[e] = stop
      /\ \A d \in Emissions : d # e => stopped'[d] = stopped[d]
  BY DEF HooksInv, EmissionTypes
<1>4. CASE stop
  <2>1. <<>> \in Seq(made) /\ Climbs(begun[e], <<>>)
    BY <1>1 DEF Climbs, Rising
  <2>2. Continue(e, <<>>, R)
    BY <1>4
  <2> QED
    BY <1>2, <1>3, <1>4, <2>1, <2>2, ContinueKeeps
<1>5. CASE ~stop
  <2>1. Continue(e, left[e], R)
    BY <1>5
  <2>2. awake'[e] \subseteq ToSet(begun[e]) \cup ToSet(left[e])
    BY <1>1, <1>2
  <2>3. ~stopped'[e]
    BY <1>3, <1>5
  <2> QED
    BY <1>1, <1>2, <1>3, <2>1, <2>2, <2>3, ContinueKeeps
<1> QED
  BY <1>4, <1>5

LEMMA ReturnsKeeps ==
  ASSUME HooksInv, NEW e \in Emissions, Returns(e)
  PROVE  HooksInv'
<1> DEFINE h == begun[e][Len(begun[e])]
           R == toRemove[e] \cup ({h} \cap Once)
<1>1. PICK stop \in BOOLEAN :
        /\ Continue(e, IF stop THEN <<>> ELSE left[e], R)
        /\ stopped' = [stopped EXCEPT ![e] = stop]
  BY DEF Returns
<1>2. /\ state[e] = "awaiting" /\ made' = made /\ enabled' = enabled
      /\ awake' = [d \in Emissions |-> awake[d] \cap (Registered')]
  BY DEF Returns
<1>3. R \in SUBSET made
  <2>1. begun[e] \in Seq(made) /\ begun[e] # <<>> /\ toRemove[e] \subseteq made
    BY <1>2 DEF HooksInv, EmissionFits
  <2>2. h \in made
    BY <2>1
  <2> QED
    BY <2>1, <2>2
<1> HIDE DEF R
<1> QED
  BY <1>1, <1>2, <1>3, GoesOn

LEMMA RaisesKeeps ==
  ASSUME HooksInv, NEW e \in Emissions, Raises(e)
  PROVE  HooksInv'
<1>1. /\ state[e] = "awaiting" /\ made' = made /\ enabled' = enabled /\ stopped' = stopped
      /\ awake' = [d \in Emissions |-> awake[d] \cap (Registered')]
      /\ Continue(e, left[e], toRemove[e])
  BY DEF Raises
<1>2. toRemove[e] \in SUBSET made /\ stopped' = [stopped EXCEPT ![e] = FALSE]
  BY <1>1 DEF HooksInv, EmissionFits, EmissionTypes
<1>3. Continue(e, IF FALSE THEN <<>> ELSE left[e], toRemove[e])
  BY <1>1
<1> QED
  BY <1>1, <1>2, <1>3, GoesOn

\* Whatever hooks come, go and are switched, an emission has called, in rising order,
\* hooks it does not call again, and what it has left rises after them; until it is
\* stopped, a hook in place and enabled all along is among the two (HookSystem.emit).
THEOREM HooksInvariant == HooksSpec => []HooksInv
<1>1. HooksInit => HooksInv
  <2> SUFFICES ASSUME HooksInit
               PROVE  HooksInv
    OBVIOUS
  <2>1. ListsFit
    BY DEF HooksInit, ListsFit, Different
  <2>2. EmissionTypes
    BY DEF HooksInit, EmissionTypes
  <2>3. ASSUME NEW e \in Emissions
        PROVE  EmissionFits(e)
    <3>1. /\ state[e] = "new" /\ begun[e] = <<>> /\ left[e] = <<>> /\ toRemove[e] = {}
          /\ awake[e] = {} /\ ~stopped[e]
      BY DEF HooksInit
    <3> QED
      BY <3>1 DEF EmissionFits, Climbs, Rising
  <2> QED
    BY <2>1, <2>2, <2>3 DEF HooksInv
<1>2. HooksInv /\ [HooksNext]_(hookVars) => HooksInv'
  <2> SUFFICES ASSUME HooksInv, [HooksNext]_(hookVars)
               PROVE  HooksInv'
    OBVIOUS
  <2>1. CASE UNCHANGED hookVars
    <3>1. UNCHANGED <<made, wildcard, hooks>> /\ UNCHANGED emission
          /\ awake' = awake /\ enabled' = enabled
      BY <2>1 DEF hookVars, emission
    <3>2. ListsFit' /\ Registered' = Registered
      BY <3>1, ListsStay DEF HooksInv
    <3>3. awake' \in [Emissions -> SUBSET Hooks] /\ \A e \in Emissions : awake'[e] \subseteq awake[e] \cap enabled'
      BY <3>1 DEF HooksInv, EmissionTypes, EmissionFits
    <3> QED
      BY <3>1, <3>2, <3>3, OthersKeep
  <2>2. CASE \E h \in Hooks : On(h) \/ OnAny(h) \/ Toggle(h)
    BY <2>2, OnKeeps, OnAnyKeeps, ToggleKeeps
  <2>3. CASE \E n \in {Name[h] : h \in Hooks} : Off(n)
    BY <2>3, OffKeeps
  <2>4. CASE \E e \in Emissions : Emit(e) \/ Returns(e) \/ Raises(e)
    BY <2>4, EmitKeeps, ReturnsKeeps, RaisesKeeps
  <2> QED
    BY <2>1, <2>2, <2>3, <2>4 DEF HooksNext
<1> QED
  BY <1>1, <1>2, PTL DEF HooksSpec

\* An emission calls no hook twice and none before one of higher priority, though
\* hooks come and go while it waits (HookSystem.emit, on, off).
THEOREM CallsInOrder == HooksSpec => []PriorityOrder
<1>1. HooksInv => PriorityOrder
  BY DEF HooksInv, EmissionFits, Climbs, Rising, After, PriorityOrder
<1> QED
  BY <1>1, HooksInvariant, PTL

\* A hook in place and enabled throughout an emission that is over was called, unless
\* a handler stopped it, whatever other handlers raised; and no one-shot hook that
\* returned is left when no emission is under way (HookSystem.emit).
THEOREM AllAwakeCalled == HooksSpec => []NobodySkipped
<1>1. HooksInv => NobodySkipped
  <2> SUFFICES ASSUME HooksInv
               PROVE  NobodySkipped
    OBVIOUS
  <2>1. ASSUME NEW e \in Emissions, state[e] = "done", ~stopped[e]
        PROVE  awake[e] \subseteq ToSet(begun[e])
    <3>1. left[e] = <<>> /\ awake[e] \subseteq ToSet(begun[e]) \cup ToSet(left[e])
      BY <2>1 DEF HooksInv, EmissionFits
    <3> QED
      BY <3>1, ToSetFacts
  <2>2. \A e \in Emissions : state[e] # "awaiting" => toRemove[e] \cap Registered = {}
    BY DEF HooksInv, EmissionFits
  <2> QED
    BY <2>1, <2>2 DEF NobodySkipped
<1> QED
  BY <1>1, HooksInvariant, PTL
-----------------------------------------------------------------------------
(***************************************************************************)
(* Proofs about Heartbeat, for any checks.  A status is published at once, *)
(* so that it is true is a property of the pass under way: each check it   *)
(* has noted is the one registered at that place, said what was noted at   *)
(* some time in the pass, and the pass is healthy as long as all said ok.  *)
(***************************************************************************)
HeartTypes ==
  /\ health \in [Names -> Outcomes]
  /\ checks \in Seq(Names)
  /\ size \in Nat
  /\ status \in [checks : Seq(Names \X Outcomes), healthy : BOOLEAN]

NotedSoFar ==
  /\ Len(status.checks) <= size /\ size <= Len(checks)
  /\ \A i \in DOMAIN status.checks :
       status.checks[i] \in witnessed /\ status.checks[i][1] = checks[i]
  /\ status.healthy <=> \A i \in DOMAIN status.checks : status.checks[i][2] = "ok"

HeartInv ==
  /\ HeartTypes
  /\ NotedSoFar
  /\ phase = "awaiting" => Len(status.checks) < size
  /\ phase \in {"checking", "awaiting"} => Now \subseteq witnessed
-----------------------------------------------------------------------------
\* A pass that has noted nothing is healthy.
LEMMA EmptyPass ==
  /\ Empty \in [checks : Seq(Names \X Outcomes), healthy : BOOLEAN]
  /\ Empty.checks = <<>> /\ Len(Empty.checks) = 0
  /\ DOMAIN Empty.checks = {} /\ Empty.healthy = TRUE
BY DEF Empty

\* Noting what the check at the next place says keeps the pass true.
LEMMA NotedFits ==
  ASSUME HeartInv, phase \in {"checking", "awaiting"}, Len(status.checks) < size,
         Noted(checks[Position]),
         UNCHANGED <<health, checks, size, witnessed>>
  PROVE  HeartTypes' /\ NotedSoFar' /\ (Now \subseteq witnessed)'
<1> DEFINE n == checks[Position]
           s == status.checks
           new == <<n, health[n]>>
<1>1. /\ s \in Seq(Names \X Outcomes) /\ Len(s) \in Nat /\ DOMAIN s = 1..Len(s)
      /\ size \in Nat /\ Len(checks) \in Nat /\ Position = Len(s) + 1
      /\ Len(s) + 1 <= size /\ Len(s) + 1 \in 1..Len(checks)
  BY DEF HeartInv, HeartTypes, NotedSoFar, Position
<1>2. n \in Names /\ health[n] \in Outcomes /\ new \in Names \X Outcomes
  BY <1>1 DEF HeartInv, HeartTypes
<1>3. new \in witnessed
  BY <1>2 DEF HeartInv, Now
<1>4. /\ status'.checks = Append(s, new)
      /\ status'.healthy = (status.healthy /\ health[n] = "ok")
  BY DEF Noted
<1>5. status' = [checks |-> Append(s, new), healthy |-> (status.healthy /\ health[n] = "ok")]
  BY DEF Noted
<1>6. new[1] = n /\ new[2] = health[n] /\ n = checks[Len(s) + 1]
  BY <1>1
<1> HIDE DEF n, s, new
<1>7. /\ Append(s, new) \in Seq(Names \X Outcomes)
      /\ Len(Append(s, new)) = Len(s) + 1
      /\ DOMAIN Append(s, new) = 1..(Len(s) + 1)
      /\ \A i \in 1..Len(s) : Append(s, new)[i] = s[i]
      /\ Append(s, new)[Len(s) + 1] = new
  BY <1>1, <1>2, AppendProperties
<1>8. \A i \in 1..(Len(s) + 1) : i \in 1..Len(s) \/ i = Len(s) + 1
  BY <1>1
<1>9. /\ \A i \in 1..Len(s) : s[i] \in witnessed /\ s[i][1] = checks[i]
      /\ status.healthy <=> \A i \in 1..Len(s) : s[i][2] = "ok"
      /\ status.healthy \in BOOLEAN
  BY <1>1 DEF HeartInv, NotedSoFar, HeartTypes, s
<1>10. HeartTypes'
  BY <1>5, <1>7, <1>9 DEF HeartInv, HeartTypes
<1>11. \A i \in DOMAIN status'.checks : status'.checks[i] \in witnessed' /\ status'.checks[i][1] = checks'[i]
  BY <1>3, <1>4, <1>6, <1>7, <1>8, <1>9
<1>12. status'.healthy <=> \A i \in DOMAIN status'.checks : status'.checks[i][2] = "ok"
  <2>1. Len(s) + 1 \in 1..(Len(s) + 1) /\ \A i \in 1..Len(s) : i \in 1..(Len(s) + 1)
    BY <1>1
  <2>2. (\A i \in 1..(Len(s) + 1) : Append(s, new)[i][2] = "ok")
          <=> (\A i \in 1..Len(s) : s[i][2] = "ok") /\ health[n] = "ok"
    BY <1>6, <1>7, <1>8, <2>1
  <2> QED
    BY <1>4, <1>7, <1>9, <2>2
<1>13. Len(status'.checks) <= size' /\ size' <= Len(checks')
  BY <1>1, <1>4, <1>7 DEF HeartInv, NotedSoFar
<1> QED
  BY <1>10, <1>11, <1>12, <1>13 DEF HeartInv, NotedSoFar, Now

\* A pass begins or is over.
LEMMA FreshPass ==
  ASSUME HeartInv, status' = Empty, size' \in {0, Len(checks)},
         UNCHANGED <<health, checks>>
  PROVE  HeartTypes' /\ NotedSoFar'
<1>1. Len(checks) \in Nat
  BY DEF HeartInv, HeartTypes
<1> QED
  BY <1>1, EmptyPass DEF HeartInv, HeartTypes, NotedSoFar

\* The pass under way has noted what was true of the checks it came to, whatever they
\* say, raise or await, and whatever is registered or stopped meanwhile
\* (HeartbeatMonitor._run_checks).
THEOREM HeartInvariant == HeartSpec => []HeartInv
<1>1. HeartInit => HeartInv
  BY EmptyPass, HeartbeatAssumption DEF HeartInit, HeartInv, HeartTypes, NotedSoFar
<1>2. HeartInv /\ [HeartNext]_heartVars => HeartInv'
  <2> SUFFICES ASSUME HeartInv, [HeartNext]_heartVars
               PROVE  HeartInv'
    OBVIOUS
  <2>1. CASE UNCHANGED heartVars
    BY <2>1 DEF heartVars, HeartInv, HeartTypes, NotedSoFar, Now
  <2>2. ASSUME Begins
        PROVE  HeartInv'
    <3>1. HeartTypes' /\ NotedSoFar'
      BY <2>2, FreshPass DEF Begins
    <3> QED
      BY <2>2, <3>1 DEF Begins, HeartInv, Now
  <2>3. CASE Stop
    <3>1. HeartTypes' /\ NotedSoFar'
      BY <2>3, FreshPass DEF Stop, PassOver
    <3> QED
      BY <2>3, <3>1 DEF Stop, HeartInv
  <2>4. CASE IterationFails
    <3>1. HeartTypes' /\ NotedSoFar'
      BY <2>4, FreshPass DEF IterationFails, PassOver
    <3> QED
      BY <2>4, <3>1 DEF IterationFails, HeartInv
  <2>5. CASE PublishStatus
    <3>1. HeartTypes' /\ NotedSoFar'
      BY <2>5, FreshPass DEF PublishStatus, PassOver
    <3> QED
      BY <2>5, <3>1 DEF PublishStatus, HeartInv
  <2>6. CASE CheckNow
    <3>1. Len(status.checks) < size
      BY <2>6 DEF CheckNow, Position, HeartInv, HeartTypes
    <3>2. CASE checks[Position] \in Async
      BY <2>6, <3>1, <3>2 DEF CheckNow, HeartInv, HeartTypes, NotedSoFar, Now
    <3>3. CASE checks[Position] \notin Async
      <4>1. HeartTypes' /\ NotedSoFar' /\ (Now \subseteq witnessed)'
        BY <2>6, <3>1, <3>3, NotedFits DEF CheckNow
      <4> QED
        BY <2>6, <3>3, <4>1 DEF CheckNow, HeartInv
    <3> QED
      BY <3>2, <3>3
  <2>7. CASE Checked
    <3>1. HeartTypes' /\ NotedSoFar' /\ (Now \subseteq witnessed)'
      BY <2>7, NotedFits DEF Checked, HeartInv
    <3> QED
      BY <2>7, <3>1 DEF Checked, HeartInv
  <2>8. CASE Pinged
    BY <2>8 DEF Pinged, HeartInv, HeartTypes, NotedSoFar
  <2>9. ASSUME NEW n \in Names, Change(n)
        PROVE  HeartInv'
    <3>1. health' \in [Names -> Outcomes] /\ \A m \in Names \ {n} : health'[m] = health[m]
      BY <2>9 DEF Change, HeartInv, HeartTypes
    <3>2. HeartTypes' /\ NotedSoFar'
      BY <2>9, <3>1 DEF Change, HeartInv, HeartTypes, NotedSoFar
    <3> QED
      BY <2>9, <3>1, <3>2 DEF Change, Suspended, HeartInv, Now
  <2>10. ASSUME NEW n \in Names, RegisterCheck(n)
         PROVE  HeartInv'
    <3>1. /\ Append(checks, n) \in Seq(Names) /\ Len(Append(checks, n)) = Len(checks) + 1
          /\ \A i \in 1..Len(checks) : Append(checks, n)[i] = checks[i]
          /\ Len(checks) \in Nat /\ Len(status.checks) \in Nat
          /\ DOMAIN status.checks = 1..Len(status.checks)
      BY AppendProperties DEF HeartInv, HeartTypes
    <3>2. DOMAIN status.checks \subseteq 1..Len(checks)
      BY <3>1 DEF HeartInv, HeartTypes, NotedSoFar
    <3> QED
      BY <2>10, <3>1, <3>2 DEF RegisterCheck, HeartInv, HeartTypes, NotedSoFar, Now
  <2> QED
    BY <2>1, <2>2, <2>3, <2>4, <2>5, <2>6, <2>7, <2>8, <2>9, <2>10
       DEF HeartNext, Loop, Start, Wake
<1> QED
  BY <1>1, <1>2, PTL DEF HeartSpec

\* What a finished pass publishes says of each check registered when it began, and of
\* no other, what was true of it in that pass, and that all is well just when each is.
THEOREM StatusIsTrue == HeartSpec => StatusTruthful
<1> DEFINE True ==
      last' # last =>
        /\ {p[1] : p \in ToSet(last'.checks)} = ToSet(SubSeq(checks, 1, size))
        /\ Len(last'.checks) = size
        /\ ToSet(last'.checks) \subseteq witnessed
        /\ last'.healthy <=> \A p \in ToSet(last'.checks) : p[2] = "ok"
<1>1. HeartInv /\ [HeartNext]_heartVars => [True]_heartVars
  <2> SUFFICES ASSUME HeartInv, HeartNext, last' # last
               PROVE  True
    OBVIOUS
  <2>1. PublishStatus
    BY DEF HeartNext, Loop, Start, Wake, Begins, Stop,
           IterationFails, CheckNow, Checked, Pinged,
           Change, RegisterCheck
  <2> DEFINE s == status.checks
  <2>2. /\ last' = status /\ s \in Seq(Names \X Outcomes) /\ checks \in Seq(Names)
        /\ Len(s) = size /\ size \in Nat /\ size <= Len(checks) /\ Len(checks) \in Nat
        /\ DOMAIN s = 1..size
    BY <2>1 DEF PublishStatus, Position, HeartInv, HeartTypes, NotedSoFar
  <2>3. /\ \A i \in 1..size : s[i] \in witnessed /\ s[i][1] = checks[i]
        /\ status.healthy <=> \A i \in 1..size : s[i][2] = "ok"
    BY <2>2 DEF HeartInv, NotedSoFar
  <2>4. /\ ToSet(s) = {s[i] : i \in 1..size}
    BY <2>2 DEF ToSet
  <2> HIDE DEF s
  <2>5. ToSet(SubSeq(checks, 1, size)) = {checks[i] : i \in 1..size}
    <3>1. /\ DOMAIN SubSeq(checks, 1, size) = 1..size
          /\ \A i \in 1..size : SubSeq(checks, 1, size)[i] = checks[i]
      BY <2>2
    <3> QED
      BY <3>1 DEF ToSet
  <2>6. {p[1] : p \in ToSet(s)} = {checks[i] : i \in 1..size}
    BY <2>3, <2>4
  <2>7. ToSet(s) \subseteq witnessed
    BY <2>3, <2>4
  <2>8. status.healthy <=> \A p \in ToSet(s) : p[2] = "ok"
    BY <2>3, <2>4
  <2> QED
    BY <2>2, <2>5, <2>6, <2>7, <2>8 DEF s
<1> QED
  BY <1>1, HeartInvariant, PTL DEF HeartSpec, StatusTruthful
=============================================================================
