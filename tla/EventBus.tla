------------------------------ MODULE EventBus ------------------------------
(***************************************************************************)
(* The in-process publish/subscribe bus of agent/streaming.py and the      *)
(* /stream/events handler that reads it.  publish() never waits, so it is  *)
(* one step; a handler waits in queue.get() and in response.write(), and   *)
(* publishers run in between.  A message is known by its position in log,  *)
(* the sequence of everything published since the process started.         *)
(***************************************************************************)
EXTENDS Naturals, Sequences, FiniteSets

CONSTANTS
  Clients,      \* requests to /stream/events; each makes one subscription
  Kinds,        \* EventBusEvent
  Tags,         \* the session ids a message can carry, the empty one included
  Wishes,       \* what a request may ask for: its events and the tags it is limited to
  MaxQueue,     \* EventBus.__init__: max_queue
  MaxHistory,   \* EventBus.__init__: max_history
  MaxPublished  \* bound on the number of messages published

ASSUME BusAssumption ==
  /\ Wishes \subseteq [kinds : SUBSET Kinds, tags : SUBSET Tags]
  /\ MaxQueue \in Nat \ {0}
  /\ MaxHistory \in Nat \ {0, 1}
  /\ MaxPublished \in Nat

Message == [kind : Kinds, tag : Tags]
NoMsg == 0

VARIABLES
  log,      \* every message published, in order
  history,  \* _history, as positions in log
  pc,       \* where each handler is
  filter,   \* _filters: the kinds asked for, {} when the client names none
  scope,    \* the tags the handler lets through
  queue,    \* _subscribers: positions in log that wait for the handler
  taken,    \* the message the handler is writing
  since,    \* Len(log) when the client subscribed (for the properties)
  seen,     \* what the handler took off the queue (for the properties)
  written,  \* what it wrote to the response
  dropped   \* what publish() discarded from its full queue (for the properties)

vars == <<log, history, pc, filter, scope, queue, taken, since, seen, written, dropped>>
-----------------------------------------------------------------------------
Subscribers == {c \in Clients : pc[c] \in {"waiting", "writing"}}

\* A client that names no kind gets them all.
Allowed(c, msg) == filter[c] = {} \/ msg.kind \in filter[c]

Half == MaxHistory \div 2

\* _history once position n is appended: its newest half when it gets too long.
RememberOldest(h, n) ==
  LET longer == Append(h, n)
  IN IF Len(longer) > MaxHistory THEN SubSeq(longer, 1, Half) ELSE longer
Remember(h, n) ==
  LET longer == Append(h, n)
  IN IF Len(longer) > MaxHistory
     THEN SubSeq(longer, Len(longer) - Half + 1, Len(longer))
     ELSE longer

\* put_nowait(n), after get_nowait() has dropped the oldest entry of a full queue.
OfferUnbounded(q, n) == Append(q, n)
OfferDropNewest(q, n) == IF Len(q) = MaxQueue THEN q ELSE Append(q, n)
OfferFront(q, n) == <<n>> \o (IF Len(q) = MaxQueue THEN Tail(q) ELSE q)
Offer(q, n) == Append(IF Len(q) = MaxQueue THEN Tail(q) ELSE q, n)
-----------------------------------------------------------------------------
Init ==
  /\ log = <<>>
  /\ history = <<>>
  /\ pc = [c \in Clients |-> "new"]
  /\ filter = [c \in Clients |-> {}]
  /\ scope = [c \in Clients |-> {}]
  /\ queue = [c \in Clients |-> <<>>]
  /\ taken = [c \in Clients |-> NoMsg]
  /\ since = [c \in Clients |-> 0]
  /\ seen = [c \in Clients |-> {}]
  /\ written = [c \in Clients |-> <<>>]
  /\ dropped = [c \in Clients |-> {}]

Subscribe(c, wish) ==
  /\ pc[c] = "new"
  /\ pc' = [pc EXCEPT ![c] = "waiting"]
  /\ filter' = [filter EXCEPT ![c] = wish.kinds]
  /\ scope' = [scope EXCEPT ![c] = wish.tags]
  /\ since' = [since EXCEPT ![c] = Len(log)]
  /\ UNCHANGED <<log, history, queue, taken, seen, written, dropped>>

\* Append to the history, then offer to every subscriber that asked for the kind.
Publish(msg) ==
  LET n       == Len(log) + 1
      readers == {c \in Subscribers : Allowed(c, msg)}
      full    == {c \in readers : Len(queue[c]) = MaxQueue}
  IN /\ Len(log) < MaxPublished
     /\ log' = Append(log, msg)
     /\ history' = Remember(history, n)
     /\ queue' = [c \in Clients |-> IF c \in readers THEN Offer(queue[c], n) ELSE queue[c]]
     /\ dropped' = [c \in Clients |->
                      IF c \in full THEN dropped[c] \cup {Head(queue[c])} ELSE dropped[c]]
     /\ UNCHANGED <<pc, filter, scope, taken, since, seen, written>>

\* queue.get() returns.  A message outside the scope is skipped at once.
TakeAll(c) ==
  /\ pc[c] = "waiting"
  /\ queue[c] # <<>>
  /\ queue' = [queue EXCEPT ![c] = Tail(@)]
  /\ seen' = [seen EXCEPT ![c] = @ \cup {Head(queue[c])}]
  /\ pc' = [pc EXCEPT ![c] = "writing"]
  /\ taken' = [taken EXCEPT ![c] = Head(queue[c])]
  /\ UNCHANGED <<log, history, filter, scope, since, written, dropped>>
TakeWhenTwo(c) ==
  /\ pc[c] = "waiting"
  /\ Len(queue[c]) > 1
  /\ queue' = [queue EXCEPT ![c] = Tail(@)]
  /\ seen' = [seen EXCEPT ![c] = @ \cup {Head(queue[c])}]
  /\ UNCHANGED <<pc, taken, log, history, filter, scope, since, written, dropped>>
Take(c) ==
  /\ pc[c] = "waiting"
  /\ queue[c] # <<>>
  /\ queue' = [queue EXCEPT ![c] = Tail(@)]
  /\ seen' = [seen EXCEPT ![c] = @ \cup {Head(queue[c])}]
  /\ IF log[Head(queue[c])].tag \in scope[c]
     THEN /\ pc' = [pc EXCEPT ![c] = "writing"]
          /\ taken' = [taken EXCEPT ![c] = Head(queue[c])]
     ELSE UNCHANGED <<pc, taken>>
  /\ UNCHANGED <<log, history, filter, scope, since, written, dropped>>

\* response.write() and drain() return.
Write(c) ==
  /\ pc[c] = "writing"
  /\ pc' = [pc EXCEPT ![c] = "waiting"]
  /\ written' = [written EXCEPT ![c] = Append(@, taken[c])]
  /\ taken' = [taken EXCEPT ![c] = NoMsg]
  /\ UNCHANGED <<log, history, filter, scope, queue, since, seen, dropped>>

\* The deadline passes, a write raises or the request is cancelled: finally,
\* unsubscribe() forgets the queue and the filter.
Close(c) ==
  /\ c \in Subscribers
  /\ pc' = [pc EXCEPT ![c] = "closed"]
  /\ queue' = [queue EXCEPT ![c] = <<>>]
  /\ filter' = [filter EXCEPT ![c] = {}]
  /\ taken' = [taken EXCEPT ![c] = NoMsg]
  /\ UNCHANGED <<log, history, scope, since, seen, written, dropped>>

Next ==
  \/ \E msg \in Message : Publish(msg)
  \/ \E c \in Clients :
       \/ \E wish \in Wishes : Subscribe(c, wish)
       \/ Take(c)
       \/ Write(c)
       \/ Close(c)

EndWrite(c) == pc[c] = "writing" /\ (Write(c) \/ Close(c))

\* The event loop resumes a handler whose queue is ready, and a write to a
\* socket ends: the client reads, or the connection breaks.
Fairness == \A c \in Clients : WF_vars(Take(c)) /\ WF_vars(EndWrite(c))

Spec == Init /\ [][Next]_vars
FairSpec == Spec /\ Fairness
-----------------------------------------------------------------------------
\* The types of the variables; a handler has a message in hand exactly while it
\* writes, and the bus keeps neither queue nor filter of one that is not connected.
TypeOK ==
  /\ log \in Seq(Message)
  /\ history \in Seq(Nat)
  /\ pc \in [Clients -> {"new", "waiting", "writing", "closed"}]
  /\ filter \in [Clients -> SUBSET Kinds]
  /\ scope \in [Clients -> SUBSET Tags]
  /\ queue \in [Clients -> Seq(Nat)]
  /\ taken \in [Clients -> Nat]
  /\ since \in [Clients -> Nat]
  /\ seen \in [Clients -> SUBSET Nat]
  /\ written \in [Clients -> Seq(Nat)]
  /\ dropped \in [Clients -> SUBSET Nat]
  /\ \A c \in Clients :
       /\ pc[c] = "writing" <=> taken[c] # NoMsg
       /\ c \notin Subscribers => queue[c] = <<>> /\ filter[c] = {}

Increasing(s) == \A i, j \in DOMAIN s : i < j => s[i] < s[j]
Entries(s) == {s[i] : i \in DOMAIN s}

\* What a subscriber is owed: the messages of its kinds published since it came.
Owed(c) == {n \in DOMAIN log : n > since[c] /\ Allowed(c, log[n])}

\* A response carries messages in the order in which they were published, none
\* twice, however publishes, drops and slow writes interleave.
InOrder == \A c \in Clients : Increasing(written[c])

\* A response only carries messages of the kinds and sessions it was opened
\* for, published after it was opened.
WithinRequest ==
  \A c \in Subscribers : \A n \in Entries(written[c]) :
    n \in Owed(c) /\ log[n].tag \in scope[c]

\* Every message a subscriber is owed waits in its queue, was taken by its
\* handler or was dropped from its full queue: none disappears silently.
Accounted ==
  \A c \in Subscribers : Owed(c) = Entries(queue[c]) \cup seen[c] \cup dropped[c]

\* A slow subscriber keeps at most max_queue messages, and loses one only to
\* newer ones: whatever waits is newer than whatever was dropped or taken.
DropsOldest ==
  \A c \in Subscribers :
    /\ Len(queue[c]) <= MaxQueue
    /\ \A n \in Entries(queue[c]), m \in dropped[c] \cup seen[c] : m < n

\* The last Len(h) positions up to n.
GaplessTail(h, n) == \A i \in DOMAIN h : h[i] = n - Len(h) + i

\* The history is the tail of the log without a gap, never longer than
\* max_history, and recent(limit) is complete up to half of max_history.
RecentComplete ==
  /\ Len(history) <= MaxHistory
  /\ Len(history) >= Half \/ Len(history) = Len(log)
  /\ GaplessTail(history, Len(log))

\* A message owed to a subscriber is at some time taken by its handler, unless
\* it is dropped or the stream ends first.
EventuallyHandled ==
  \A c \in Clients : \A n \in 1..MaxPublished :
    (c \in Subscribers /\ n \in DOMAIN log /\ n \in Owed(c))
      ~> (n \in seen[c] \cup dropped[c] \/ pc[c] = "closed")
=============================================================================
