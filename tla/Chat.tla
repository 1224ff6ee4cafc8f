-------------------------------- MODULE Chat --------------------------------
(***************************************************************************)
(* Chat requests in flight: OmniAgent.chat of agent/core.py, with what it  *)
(* shares between requests (the conversation table, the response cache,    *)
(* the rate limit buckets, the session model pins), and stream_chat_tokens *)
(* of agent/streaming.py, which writes to the same conversations.  One     *)
(* action is the code between two awaits that suspend.  A content is a     *)
(* tuple: what it is, then the text or the request that it comes from.     *)
(***************************************************************************)
EXTENDS Windows

CONSTANTS
  Requests, Users, Sessions, Texts, Models, Docs,
  Unsafe,       \* texts check_prompt_injection() finds a threat in
  Quick,        \* texts ConversationManager.process() answers itself
  Skilled,      \* texts that trigger a skill
  Limit,        \* CONFIG.RATE_LIMIT_PER_MINUTE
  Window,       \* rate_check(): window
  HistoryLimit, \* get_history(limit)
  Threshold,    \* ConversationSummarizer.threshold
  KeepRecent,   \* ConversationSummarizer.keep_recent
  KeyTail,      \* the messages a cache key is computed from
  MaxTime       \* bound on the clock

ASSUME ChatAssumption ==
  /\ Unsafe \subseteq Texts /\ Quick \subseteq Texts /\ Skilled \subseteq Texts
  /\ Limit \in Nat \ {0} /\ Window \in Nat \ {0} /\ MaxTime \in Nat
  /\ KeyTail \in Nat \ {0} /\ KeepRecent \in Nat /\ Threshold \in Nat
  /\ HistoryLimit \in Nat
  /\ KeyTail <= KeepRecent /\ KeepRecent <= Threshold /\ Threshold < HistoryLimit

Unpinned == "auto"   \* no model is pinned to the session
Keep == "keep"   \* the request says nothing of the model
None == <<>>     \* no content, no key
Empty == <<"empty">>   \* the empty text: stored like any other, but false where it is tested

VARIABLES
  now,      \* time.time()
  log,      \* conversations: the turns of each session, in SQLite
  cache,    \* the cached raw responses, None where there is none
  pin,      \* ModelRouter._session_models
  bucket,   \* SecurityToolkit.RATE_LIMITS
  admitted, \* who was let through when, since the start (for the properties)
  pc,       \* where each request is
  req,      \* its arguments
  context,  \* its messages
  key,      \* its cache_key
  raw,      \* its raw_response
  reply     \* what it returned

vars == <<now, log, cache, pin, bucket, admitted, pc, req, context, key, raw, reply>>
-----------------------------------------------------------------------------
Content ==
  ({"text", "fallback"} \X Texts) \cup ({"augmented"} \X Texts \X Docs)
  \cup ({"answer", "directive", "results", "skill", "stream"} \X Requests)
  \cup {<<"quick">>, <<"summary">>, Empty}

Turn == [role : {"user", "assistant", "system"}, content : Content, by : Requests]
Request ==
  [user : Users, session : Sessions, text : Texts, rag : BOOLEAN, model : {Keep}]
  \cup [user : Users, session : Sessions, text : Texts, rag : {FALSE}, model : Models \cup {Unpinned}]

Said(role, content, r) == [role |-> role, content |-> content, by |-> r]
Asked(r, text) == Said("user", <<"text", text>>, r)

LastOf(s, n) == SubSeq(s, IF Len(s) > n THEN Len(s) - n + 1 ELSE 1, Len(s))

\* _chat_cache_key: the pinned model and the end of the conversation.
EndOf(messages) ==
  LET end == LastOf(messages, KeyTail)
  IN [i \in DOMAIN end |-> <<end[i].role, end[i].content>>]

KeyOf(model, messages) == <<model, EndOf(messages)>>

\* Where a request waits once it has its messages.
Stage(messages, rag) ==
  CASE Len(messages) > Threshold -> "compress"
    [] rag                       -> "rag"
    [] OTHER                     -> "lookup"

\* The key is computed when the lookup starts, from the messages as they are then.
Proceed(r, s, messages, stage) ==
  /\ context' = [context EXCEPT ![r] = messages]
  /\ pc' = [pc EXCEPT ![r] = stage]
  /\ key' = [key EXCEPT ![r] =
               IF stage = "lookup" THEN KeyOf(pin'[s], messages) ELSE None]

End(r, outcome) == pc' = [pc EXCEPT ![r] = outcome]

\* The assistant's turn is stored and returned.
Answer(r, s, l, content) ==
  /\ log' = [log EXCEPT ![s] = Append(l, Said("assistant", content, r))]
  /\ reply' = [reply EXCEPT ![r] = content]
  /\ End(r, "replied")

\* The times in a user's bucket that are still in the window.
RecentShort(u) == Pruned(bucket[u], Window - 1, now)
Recent(u) == Pruned(bucket[u], Window, now)
-----------------------------------------------------------------------------
Init ==
  /\ now = 0
  /\ log = [s \in Sessions |-> <<>>]
  /\ cache = << >>
  /\ pin = [s \in Sessions |-> Unpinned]
  /\ bucket = [u \in Users |-> <<>>]
  /\ admitted = {}
  /\ pc = [r \in Requests |-> "new"]
  /\ req = [r \in Requests |-> None]
  /\ context = [r \in Requests |-> <<>>]
  /\ key = [r \in Requests |-> None]
  /\ raw = [r \in Requests |-> None]
  /\ reply = [r \in Requests |-> None]

Tick ==
  /\ now < MaxTime
  /\ now' = now + 1
  /\ UNCHANGED <<log, cache, pin, bucket, admitted, pc, req, context, key, raw, reply>>

\* The time to live of a cached response is over.
Expire(k) ==
  /\ k \in DOMAIN cache
  /\ cache' = [j \in DOMAIN cache \ {k} |-> cache[j]]
  /\ UNCHANGED <<now, log, pin, bucket, admitted, pc, req, context, key, raw, reply>>

\* POST /chat pins the model it names to the session, or takes the pin off.
Pin(q) ==
  pin' = IF q.model = Keep THEN pin ELSE [pin EXCEPT ![q.session] = q.model]

\* chat() up to its first suspension.  An unsafe text is not even counted against
\* the limit; what is refused is only announced to the hooks.
ArriveUnsafe(r, q) ==
  /\ q.text \in Unsafe
  /\ End(r, "alerting")
  /\ UNCHANGED <<log, bucket, admitted, context, key, reply>>

ArriveLimitedStored(r, q) ==
  /\ q.text \notin Unsafe
  /\ Len(Recent(q.user)) >= Limit
  /\ bucket' = [bucket EXCEPT ![q.user] = Recent(q.user)]
  /\ log' = [log EXCEPT ![q.session] = Append(@, Asked(r, q.text))]
  /\ End(r, "alerting")
  /\ UNCHANGED <<admitted, context, key, reply>>
ArriveLimited(r, q) ==
  /\ q.text \notin Unsafe
  /\ Len(Recent(q.user)) >= Limit
  /\ bucket' = [bucket EXCEPT ![q.user] = Recent(q.user)]
  /\ End(r, "alerting")
  /\ UNCHANGED <<log, admitted, context, key, reply>>

\* The user's turn is stored, then the request is answered at once, handed to a
\* skill, or given the messages of its session.
ArriveAdmitted(r, q) ==
  LET stored == Append(log[q.session], Asked(r, q.text))
      recent == LastOf(stored, HistoryLimit)
  IN /\ q.text \notin Unsafe
     /\ Len(Recent(q.user)) < Limit
     /\ bucket' = [bucket EXCEPT ![q.user] = Append(Recent(q.user), now)]
     /\ admitted' = admitted \cup {<<q.user, now, r>>}
     /\ \/ /\ q.text \in Quick
           /\ Answer(r, q.session, stored, <<"quick">>)
           /\ UNCHANGED <<context, key>>
        \/ /\ q.text \in Skilled \ Quick
           /\ log' = [log EXCEPT ![q.session] = stored]
           /\ End(r, "skill")
           /\ UNCHANGED <<context, key, reply>>
        \/ /\ q.text \notin Skilled \cup Quick
           /\ log' = [log EXCEPT ![q.session] = stored]
           /\ Proceed(r, q.session, recent, Stage(recent, q.rag))
           /\ UNCHANGED reply

Arrive(r, q) ==
  /\ pc[r] = "new"
  /\ req' = [req EXCEPT ![r] = q]
  /\ Pin(q)
  /\ ArriveUnsafe(r, q) \/ ArriveLimited(r, q) \/ ArriveAdmitted(r, q)
  /\ UNCHANGED <<now, cache, raw>>

\* The hooks of SECURITY_ALERT or RATE_LIMIT_HIT have run.
Refuse(r) ==
  /\ pc[r] = "alerting"
  /\ End(r, "refused")
  /\ UNCHANGED <<now, log, cache, pin, bucket, admitted, req, context, key, raw, reply>>

\* The skill returns and its result is stored; if that is an empty text, or the skill
\* raises, the request goes on with the session as it now is: other requests may have
\* written to it since.
SkillEndsAskAgain(r) ==
  LET s      == req[r].session
      stored == Append(log[s], Asked(r, req[r].text))
      recent == LastOf(stored, HistoryLimit)
  IN /\ pc[r] = "skill"
     /\ UNCHANGED <<now, cache, pin, bucket, admitted, req, raw, reply>>
     /\ log' = [log EXCEPT ![s] = stored]
     /\ Proceed(r, s, recent, Stage(recent, req[r].rag))
SkillEnds(r) ==
  LET s      == req[r].session
      recent == LastOf(log[s], HistoryLimit)
      stored == Append(log[s], Said("assistant", Empty, r))
      blank  == LastOf(stored, HistoryLimit)
  IN /\ pc[r] = "skill"
     /\ UNCHANGED <<now, cache, pin, bucket, admitted, req, raw>>
     /\ \/ Answer(r, s, log[s], <<"skill", r>>) /\ UNCHANGED <<context, key>>
        \/ /\ log' = [log EXCEPT ![s] = stored]
           /\ Proceed(r, s, blank, Stage(blank, req[r].rag))
           /\ UNCHANGED reply
        \/ Proceed(r, s, recent, Stage(recent, req[r].rag)) /\ UNCHANGED <<log, reply>>

\* The older messages become one system message, written by the LLM or extracted.
SummarizedAnew(r) ==
  LET recent == LastOf(log[req[r].session], KeepRecent)
  IN /\ pc[r] = "compress"
     /\ UNCHANGED <<now, log, cache, pin, bucket, admitted, req, raw, reply>>
     /\ Proceed(r, req[r].session, <<Said("system", <<"summary">>, r)>> \o recent,
                IF req[r].rag THEN "rag" ELSE "lookup")
Summarized(r) ==
  LET recent == LastOf(context[r], KeepRecent)
  IN /\ pc[r] = "compress"
     /\ UNCHANGED <<now, log, cache, pin, bucket, admitted, req, raw, reply>>
     /\ Proceed(r, req[r].session, <<Said("system", <<"summary">>, r)>> \o recent,
                IF req[r].rag THEN "rag" ELSE "lookup")

\* Documents found replace the content of the last message if a user wrote it.
RagEndsStaleKey(r) ==
  LET n == Len(context[r])
  IN /\ pc[r] = "rag"
     /\ \E d \in Docs : context' =
          [context EXCEPT ![r] = [@ EXCEPT ![n].content = <<"augmented", req[r].text, d>>]]
     /\ key' = [key EXCEPT ![r] = KeyOf(pin[req[r].session], context[r])]
     /\ End(r, "lookup")
     /\ UNCHANGED <<now, log, cache, pin, bucket, admitted, req, raw, reply>>
RagEnds(r) ==
  LET n == Len(context[r])
  IN /\ pc[r] = "rag"
     /\ UNCHANGED <<now, log, cache, pin, bucket, admitted, req, raw, reply>>
     /\ \/ \E d \in Docs :
             /\ context[r][n].role = "user"
             /\ Proceed(r, req[r].session,
                  [context[r] EXCEPT ![n].content = <<"augmented", req[r].text, d>>], "lookup")
        \/ Proceed(r, req[r].session, context[r], "lookup")

\* cache.get(): a hit is stored and returned as the LLM wrote it; an empty response
\* is no hit.
Hit(r) == key[r] \in DOMAIN cache /\ cache[key[r]] # Empty

CacheHit(r) ==
  /\ pc[r] = "lookup"
  /\ Hit(r)
  /\ Answer(r, req[r].session, log[req[r].session], cache[key[r]])
  /\ UNCHANGED <<now, cache, pin, bucket, admitted, req, context, key, raw>>

CacheMiss(r) ==
  /\ pc[r] = "lookup"
  /\ ~Hit(r)
  /\ End(r, "probe")
  /\ UNCHANGED <<now, log, cache, pin, bucket, admitted, req, context, key, raw, reply>>

\* llm.is_available(): without an LLM, the analyzer answers.
ProbeEnds(r) ==
  /\ pc[r] = "probe"
  /\ \/ End(r, "llm") /\ UNCHANGED <<log, reply>>
     \/ Answer(r, req[r].session, log[req[r].session], <<"fallback", req[r].text>>)
  /\ UNCHANGED <<now, cache, pin, bucket, admitted, req, context, key, raw>>

\* llm.chat() returns an answer, which the text that no model is available counts
\* as, one with [TOOL: ...] in it, or nothing.
LlmEnds(r) ==
  /\ pc[r] = "llm"
  /\ \E response \in {<<"answer", r>>, <<"directive", r>>, Empty} :
       raw' = [raw EXCEPT ![r] = response]
  /\ End(r, "caching")
  /\ UNCHANGED <<now, log, cache, pin, bucket, admitted, req, context, key, reply>>

\* cache.set() returns; without a directive the request ends.
CacheWritten(r) ==
  /\ pc[r] = "caching"
  /\ cache' = [k \in DOMAIN cache \cup {key[r]} |-> IF k = key[r] THEN raw[r] ELSE cache[k]]
  /\ IF raw[r][1] = "directive"
     THEN End(r, "tools") /\ UNCHANGED <<log, reply>>
     ELSE Answer(r, req[r].session, log[req[r].session], raw[r])
  /\ UNCHANGED <<now, pin, bucket, admitted, req, context, key, raw>>

\* The tools named by the directives have run; their results replace them.
ToolsEnd(r) ==
  /\ pc[r] = "tools"
  /\ Answer(r, req[r].session, log[req[r].session], <<"results", r>>)
  /\ UNCHANGED <<now, cache, pin, bucket, admitted, req, context, key, raw>>

\* An exception: chat() turns it into an error text that is not stored, or it
\* leaves chat() when the cache lookup raises.
Fail(r) ==
  /\ pc[r] \in {"lookup", "probe", "llm", "caching", "tools", "streaming"}
  /\ End(r, "failed")
  /\ UNCHANGED <<now, log, cache, pin, bucket, admitted, req, context, key, raw, reply>>

\* stream_chat_tokens(): no limit, no skill, no documents, no cache; the prompt
\* goes last.
StreamStart(r, q) ==
  /\ pc[r] = "new"
  /\ ~q.rag /\ q.model = Keep
  /\ req' = [req EXCEPT ![r] = q]
  /\ context' = [context EXCEPT ![r] =
                   Append(LastOf(log[q.session], HistoryLimit), Asked(r, q.text))]
  /\ log' = [log EXCEPT ![q.session] = Append(@, Asked(r, q.text))]
  /\ End(r, "streaming")
  /\ UNCHANGED <<now, cache, pin, bucket, admitted, key, raw, reply>>

\* The last token has been sent.
StreamEnd(r) ==
  /\ pc[r] = "streaming"
  /\ \E told \in {<<"stream", r>>, Empty} : Answer(r, req[r].session, log[req[r].session], told)
  /\ UNCHANGED <<now, cache, pin, bucket, admitted, req, context, key, raw>>

InFlight(r) == pc[r] \notin {"new", "refused", "replied", "failed", "lost"}

\* The process stops and starts again.  The conversations are on disk; the cache
\* survives only in Redis.
Restart(keepCache) ==
  /\ pc' = [r \in Requests |-> IF InFlight(r) THEN "lost" ELSE pc[r]]
  /\ bucket' = [u \in Users |-> <<>>]
  /\ admitted' = {}
  /\ pin' = [s \in Sessions |-> Unpinned]
  /\ cache' = IF keepCache THEN cache ELSE << >>
  /\ UNCHANGED <<now, log, req, context, key, raw, reply>>

Serve(r) ==
  \/ Refuse(r) \/ SkillEnds(r) \/ Summarized(r) \/ RagEnds(r) \/ CacheHit(r) \/ CacheMiss(r)
  \/ ProbeEnds(r) \/ LlmEnds(r) \/ CacheWritten(r) \/ ToolsEnd(r) \/ Fail(r) \/ StreamEnd(r)

Next ==
  \/ Tick
  \/ \E k \in DOMAIN cache : Expire(k)
  \/ \E r \in Requests : Serve(r) \/ \E q \in Request : Arrive(r, q) \/ StreamStart(r, q)
  \/ \E keepCache \in BOOLEAN : Restart(keepCache)

Spec == Init /\ [][Next]_vars
-----------------------------------------------------------------------------
Turns(s, r, role) == {i \in DOMAIN log[s] : log[s][i].by = r /\ log[s][i].role = role}

\* A conversation pairs every answer with the question before it: no request is
\* stored twice or in two sessions, and none is answered that was not stored.  Only
\* after a skill that returned nothing does a second answer follow, once.
TurnsPaired ==
  \A r \in Requests, s \in Sessions :
    /\ Cardinality(Turns(s, r, "user")) <= 1
    /\ Cardinality(Turns(s, r, "assistant")) <= 2
    /\ \A i, j \in Turns(s, r, "assistant") :
         i < j => log[s][i].content = Empty /\ req[r].text \in Skilled
    /\ \A i \in Turns(s, r, "assistant") : \E j \in Turns(s, r, "user") : j < i
    /\ Turns(s, r, "user") # {} => s = req[r].session

\* What the caller is told is the last that the conversation holds of the request,
\* and only then: a refused request leaves no trace, a failed or lost one only its
\* question, and the empty turn of a skill that returned nothing.  A directive that
\* the LLM gave this very request was executed; one that the cache replays from
\* another request need not be.
ReplyStored ==
  \A r \in Requests :
    /\ pc[r] \in {"new", "alerting", "refused"} => \A s \in Sessions : Turns(s, r, "user") = {}
    /\ pc[r] = "replied" => \E s \in Sessions : Turns(s, r, "assistant") # {}
    /\ \A s \in Sessions : \A i \in Turns(s, r, "assistant") :
         IF pc[r] = "replied" /\ \A j \in Turns(s, r, "assistant") : j <= i
         THEN log[s][i].content = reply[r]
         ELSE log[s][i].content = Empty /\ req[r].text \in Skilled
    /\ reply[r] # <<"directive", r>>

\* Since the process started, no user was let through more than Limit times in
\* any Window.
WithinLimit ==
  \A u \in Users, t \in 0..MaxTime :
    Cardinality({a \in admitted : a[1] = u /\ a[2] <= t /\ t < a[2] + Window}) <= Limit

\* The model is asked about the request's own text, however many requests write
\* to the session meanwhile, unless a skill ran first and failed.
OwnTurnLast ==
  \A r \in Requests :
    pc[r] \in {"compress", "rag", "lookup", "probe", "llm", "streaming"}
      /\ (req[r].text \notin Skilled \/ pc[r] = "streaming")
    => /\ Len(context[r]) > 0
       /\ context[r][Len(context[r])].by = r

\* A cached answer is only replayed to a request whose messages end, documents
\* included, as those of the request it was generated for.
SameQuestion ==
  \A r \in Requests :
    pc[r] = "replied" /\ reply[r][1] \in {"answer", "directive"}
      => EndOf(context[r]) = EndOf(context[reply[r][2]])
=============================================================================
