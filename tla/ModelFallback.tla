---------------------------- MODULE ModelFallback ---------------------------
(***************************************************************************)
(* MultiModelClient.chat and chat_stream of agent/multi_model_client.py    *)
(* with the state of ModelRouter (agent/model_router.py) they share: calls *)
(* are routed, read the list of installed models through a cache, and try  *)
(* one model after the other.  Ollama and what is installed there are      *)
(* external.  A task is the ranking that _score_model gives its models.    *)
(***************************************************************************)
EXTENDS Ranks, SequencesExt

CONSTANTS
  Calls, SessionIds, ModelIds,
  Rankings,  \* sequences of models, the best first
  Default,   \* CONFIG.OLLAMA_MODEL
  Chain,     \* FALLBACK_CHAINS: Chain[m] is a sequence of models
  ListTtl,   \* cache_seconds of the list
  Cooldown,  \* cooldown_seconds
  MaxClock,  \* bound on the clock
  MaxPast,   \* bound on what `past' holds
  NoModel    \* no model

ASSUME FallbackAssumption ==
  /\ Rankings \subseteq Seq(ModelIds) /\ Default \in ModelIds
  /\ Chain \in [ModelIds -> Seq(ModelIds)]
  /\ ListTtl \in Nat \ {0} /\ Cooldown \in Nat /\ MaxClock \in Nat /\ MaxPast \in Nat
  /\ IsFiniteSet(ModelIds) /\ NoModel \notin ModelIds

VARIABLES
  time,
  installed,    \* the models Ollama has
  listCache,    \* _available_models_cache: [models, at]; at = 0, none yet
  unavailable,  \* _unavailable: until when; 0, no entry
  pinned,       \* _session_models
  stats,        \* _stats: [good, bad] calls of each model
  progress,        \* where each call is
  decision,     \* its RouteDecision.model_id
  began,        \* its `now' in _list_ollama_models
  list,         \* available_ids
  order,        \* what is left of attempt_order
  failed,       \* the models that raised, in order (for the properties)
  answer,       \* the model that answered
  past          \* <<time, what was installed then>> (for the properties)

fallbackVars == <<time, installed, listCache, unavailable, pinned, stats, progress, decision,
                  began, list, order, failed, answer, past>>
shared == <<time, installed, pinned, past>>

Distinct(s) == Kept(s, {i \in DOMAIN s : \A j \in 1..(i - 1) : s[j] # s[i]})

\* _build_attempt_order: the chain, then every available model not in it, the
\* default one first; the order of the others depends on their capabilities.
AttemptOrdersChain(m, available) == {Distinct(<<m>> \o Chain[m])}
AttemptOrders(m, available) ==
  LET chain == Distinct(<<m>> \o Chain[m])
      more  == available \ ToSet(chain)
  IN {chain \o s : s \in {s \in SetToSeqs(more) : Default \in more => s[1] = Default}}

\* _score_model: the best of the ranking that is not in its cooldown.
Resting(m) == time < unavailable[m]
Best(ranking) ==
  LET fit == {i \in DOMAIN ranking : ~Resting(ranking[i])}
  IN IF fit = {} THEN Default ELSE ranking[Foremost(fit)]
-----------------------------------------------------------------------------
FallbackInit ==
  /\ time = 1
  /\ installed = ModelIds
  /\ listCache = [models |-> {}, at |-> 0]
  /\ unavailable = [m \in ModelIds |-> 0]
  /\ pinned = [s \in SessionIds |-> NoModel]
  /\ stats = [m \in ModelIds |-> [good |-> 0, bad |-> 0]]
  /\ progress = [c \in Calls |-> "new"]
  /\ decision = [c \in Calls |-> NoModel]
  /\ began = [c \in Calls |-> 0]
  /\ list = [c \in Calls |-> {}]
  /\ order = [c \in Calls |-> <<>>]
  /\ failed = [c \in Calls |-> <<>>]
  /\ answer = [c \in Calls |-> NoModel]
  /\ past = {<<1, ModelIds>>}

TimePasses ==
  /\ time < MaxClock
  /\ time' = time + 1
  /\ past' = past \cup {<<time + 1, installed>>}
  /\ UNCHANGED <<installed, listCache, unavailable, pinned, stats, progress, decision, began, list,
                 order, failed, answer>>

\* A model is pulled or removed.
Install(m) ==
  /\ Cardinality(past) < MaxPast
  /\ installed' = IF m \in installed THEN installed \ {m} ELSE installed \cup {m}
  /\ past' = past \cup {<<time, installed'>>}
  /\ UNCHANGED <<time, listCache, unavailable, pinned, stats, progress, decision, began, list,
                 order, failed, answer>>

\* set_session_model(), clear_session_model().
PinModel(s, m) ==
  /\ pinned' = [pinned EXCEPT ![s] = m]
  /\ UNCHANGED <<time, installed, listCache, unavailable, stats, progress, decision, began, list,
                 order, failed, answer, past>>

\* route(): a pinned model is taken as it is.
Route(c, s, ranking) ==
  decision' = [decision EXCEPT ![c] = IF pinned[s] # NoModel THEN pinned[s] ELSE Best(ranking)]

\* The loop of _execute_with_fallback from the model at the head of s, with the
\* models of `available': those not among them rest, and one is called or none is left.
AdvanceUnlisted(c, s, available) ==
  LET fit  == {i \in DOMAIN s : s[i] \in available}
      n    == IF fit = {} THEN Len(s) + 1 ELSE Foremost(fit)
  IN /\ order' = [order EXCEPT ![c] = SubSeq(s, n, Len(s))]
     /\ unavailable' = [m \in ModelIds |-> IF m \in ToSet(SubSeq(s, 1, n - 1))
                                           THEN time + Cooldown ELSE unavailable[m]]
     /\ progress' = [progress EXCEPT ![c] = IF fit = {} THEN "exhausted" ELSE "calling"]
Advance(c, s, available) ==
  LET fit  == {i \in DOMAIN s : available = {} \/ s[i] \in available}
      n    == IF fit = {} THEN Len(s) + 1 ELSE Foremost(fit)
  IN /\ order' = [order EXCEPT ![c] = SubSeq(s, n, Len(s))]
     /\ unavailable' = [m \in ModelIds |-> IF m \in ToSet(SubSeq(s, 1, n - 1))
                                           THEN time + Cooldown ELSE unavailable[m]]
     /\ progress' = [progress EXCEPT ![c] = IF fit = {} THEN "exhausted" ELSE "calling"]

\* available_registered_models() has returned: the attempts begin.
Execute(c, m, available) ==
  /\ list' = [list EXCEPT ![c] = available]
  /\ \E s \in AttemptOrders(m, available) : Advance(c, s, available)

\* chat(): routed, and either the list is fresh enough or Ollama is asked for it.
Chat(c, s, ranking) ==
  /\ progress[c] = "new"
  /\ Route(c, s, ranking)
  /\ began' = [began EXCEPT ![c] = time]
  /\ IF listCache.at # 0 /\ time - listCache.at < ListTtl
     THEN Execute(c, decision'[c], listCache.models)
     ELSE progress' = [progress EXCEPT ![c] = "listing"] /\ UNCHANGED <<list, order, unavailable>>
  /\ UNCHANGED <<shared, listCache, stats, failed, answer>>

\* Ollama's answer is on its way, or it gives none.
Listed(c) ==
  /\ progress[c] = "listing"
  /\ list' = [list EXCEPT ![c] = installed] \/ UNCHANGED list
  /\ progress' = [progress EXCEPT ![c] = "listed"]
  /\ UNCHANGED <<shared, listCache, unavailable, stats, decision, began, order, failed, answer>>

\* It is kept with the time of the request, in place of any other.
KeepListStamped(c) ==
  /\ progress[c] = "listed"
  /\ listCache' = [models |-> list[c], at |-> time]
  /\ Execute(c, decision[c], list[c])
  /\ UNCHANGED <<shared, stats, decision, began, failed, answer>>
KeepList(c) ==
  /\ progress[c] = "listed"
  /\ listCache' = [models |-> list[c], at |-> began[c]]
  /\ Execute(c, decision[c], list[c])
  /\ UNCHANGED <<shared, stats, decision, began, failed, answer>>

\* record_call().
Recorded(m, kind) == stats' = [stats EXCEPT ![m][kind] = @ + 1]

\* The model answers: it is taken out of its cooldown.
Answers(c) ==
  LET m == Head(order[c])
  IN /\ progress[c] = "calling" /\ m \in installed
     /\ progress' = [progress EXCEPT ![c] = "answered"]
     /\ answer' = [answer EXCEPT ![c] = m]
     /\ Recorded(m, "good")
     /\ unavailable' = [unavailable EXCEPT ![m] = 0]
     /\ UNCHANGED <<shared, listCache, decision, began, list, order, failed>>

\* It raises, which starts no cooldown: on to the next one.
RaisesUncounted(c) ==
  LET m == Head(order[c])
  IN /\ progress[c] = "calling"
     /\ failed' = [failed EXCEPT ![c] = Append(@, m)]
     /\ IF Len(order[c]) > 1 THEN UNCHANGED stats ELSE Recorded(m, "bad")
     /\ Advance(c, Tail(order[c]), list[c])
     /\ UNCHANGED <<shared, listCache, decision, began, list, answer>>
Raises(c) ==
  LET m == Head(order[c])
  IN /\ progress[c] = "calling"
     /\ failed' = [failed EXCEPT ![c] = Append(@, m)]
     /\ Recorded(m, "bad")
     /\ Advance(c, Tail(order[c]), list[c])
     /\ UNCHANGED <<shared, listCache, decision, began, list, answer>>

\* chat_stream(): routed, one model, no list and no fallback.
Stream(c, s, ranking) ==
  /\ progress[c] = "new"
  /\ Route(c, s, ranking)
  /\ order' = [order EXCEPT ![c] = <<decision'[c]>>]
  /\ progress' = [progress EXCEPT ![c] = "streaming"]
  /\ UNCHANGED <<shared, listCache, unavailable, stats, began, list, failed, answer>>

\* The stream ends, which an HTTP error does too, or raises.
StreamEnds(c) ==
  LET m == Head(order[c])
  IN /\ progress[c] = "streaming"
     /\ \/ Recorded(m, "good") /\ answer' = [answer EXCEPT ![c] = m] /\ UNCHANGED failed
        \/ Recorded(m, "bad") /\ failed' = [failed EXCEPT ![c] = <<m>>] /\ UNCHANGED answer
     /\ progress' = [progress EXCEPT ![c] = IF answer'[c] = NoModel THEN "broken" ELSE "answered"]
     /\ order' = [order EXCEPT ![c] = <<>>]
     /\ UNCHANGED <<shared, listCache, unavailable, decision, began, list>>

Attempts(c) == Listed(c) \/ KeepList(c) \/ Answers(c) \/ Raises(c) \/ StreamEnds(c)

FallbackNext ==
  \/ TimePasses
  \/ \E m \in ModelIds : Install(m)
  \/ \E s \in SessionIds, m \in ModelIds \cup {NoModel} : PinModel(s, m)
  \/ \E c \in Calls, s \in SessionIds, ranking \in Rankings :
       Chat(c, s, ranking) \/ Stream(c, s, ranking)
  \/ \E c \in Calls : Attempts(c)

FallbackSpec == FallbackInit /\ [][FallbackNext]_fallbackVars
-----------------------------------------------------------------------------
\* No call asks a model twice, and one gives up ("All models in the fallback chain are
\* unavailable") only when every model it took to be available has been called and
\* raised, and without a list every model of its chain.
EveryModelOnce ==
  \A c \in Calls :
    /\ IsInjective(failed[c] \o order[c])
    /\ progress[c] = "exhausted" =>
         /\ list[c] \subseteq ToSet(failed[c])
         /\ list[c] = {} => ToSet(<<decision[c]>> \o Chain[decision[c]]) \subseteq ToSet(failed[c])

\* The counters of a model are those of its calls, however these overlap.
StatsMatch ==
  \A m \in ModelIds :
    /\ stats[m].good = Cardinality({c \in Calls : answer[c] = m})
    /\ stats[m].bad = Cardinality({c \in Calls : m \in ToSet(failed[c])})

\* The list a call works on was Ollama's less than ListTtl before the call or
\* after it began, in whatever order concurrent requests for it come back.
ListFresh ==
  \A c \in Calls : list[c] # {} =>
    \E p \in past : p[2] = list[c] /\ p[1] + ListTtl > began[c]

\* A model is in a cooldown, and so passed over by route(), only if Ollama was without it
\* at some time before the cooldown began: never because it raised, nor because no list
\* came, in whatever order calls with lists of their own start and lift cooldowns.
RestsForAbsence ==
  \A m \in ModelIds : unavailable[m] # 0 =>
    \E p \in past : m \notin p[2] /\ p[1] + Cooldown <= unavailable[m]
=============================================================================
