----------------------------- MODULE ChatProofs -----------------------------
(***************************************************************************)
(* Proofs about Chat, for any requests, sessions, users, texts and limits. *)
(* The invariant in three parts: whose question a cached response answers, *)
(* which turns of a request its conversation holds, and what the buckets   *)
(* count.  At the end, ModelFallback, whose calls are those of the LLM.    *)
(***************************************************************************)
EXTENDS Chat, ModelFallback, SequenceLemmas

Places == {"new", "alerting", "refused", "skill", "compress", "rag", "lookup", "probe", "llm",
           "caching", "tools", "streaming", "replied", "failed", "lost"}

\* A value for each request.
OfRequests(f) == f = [r \in Requests |-> f[r]]

Types ==
  /\ log \in [Sessions -> Seq(Turn)]
  /\ pc \in [Requests -> Places]
  /\ context \in [Requests -> Seq(Turn)]
  /\ OfRequests(req) /\ OfRequests(key) /\ OfRequests(raw) /\ OfRequests(reply)
  /\ \A r \in Requests : pc[r] # "new" => req[r] \in Request

\* Where the messages of a request are final.
Settled == {"tools", "replied", "failed", "lost"}

\* A response that the LLM gave to messages with this end.
Generated(response, end) ==
  \E kind \in {"answer", "directive"}, q \in Requests :
    response = <<kind, q>> /\ pc[q] \in Settled /\ EndOf(context[q]) = end

CacheFits == \A k \in DOMAIN cache : cache[k] = Empty \/ Generated(cache[k], k[2])

\* The key of a request is that of its messages, and what it is told answers them.
QuestionFits(r) ==
  /\ pc[r] \in {"lookup", "probe", "llm", "caching"} => \E model : key[r] = <<model, EndOf(context[r])>>
  /\ pc[r] = "caching" => raw[r] \in {<<"answer", r>>, <<"directive", r>>, Empty}
  /\ pc[r] = "replied" /\ reply[r][1] \in {"answer", "directive"} =>
       Generated(reply[r], EndOf(context[r]))
  /\ reply[r] # <<"directive", r>>

\* What the messages of a request end with.
OwnTurn(r) ==
  /\ pc[r] = "skill" => req[r].text \in Skilled
  /\ pc[r] \in {"compress", "rag", "lookup", "probe", "llm", "streaming"}
       /\ (req[r].text \notin Skilled \/ pc[r] = "streaming")
     => Len(context[r]) > 0 /\ context[r][Len(context[r])].by = r

ChatInv == Types /\ CacheFits /\ \A r \in Requests : QuestionFits(r) /\ OwnTurn(r)

\* What a step of one request leaves of another.
Untouched(d) ==
  /\ pc'[d] = pc[d] /\ req'[d] = req[d] /\ context'[d] = context[d]
  /\ key'[d] = key[d] /\ raw'[d] = raw[d] /\ reply'[d] = reply[d]

\* The messages that the LLM has answered stay.
SettledStay ==
  \A q \in Requests : pc[q] \in Settled => pc'[q] \in Settled /\ context'[q] = context[q]

-----------------------------------------------------------------------------
\* What LastOf returns.
LEMMA LastOfFits ==
  ASSUME NEW S, NEW s \in Seq(S), NEW n \in Nat
  PROVE  /\ LastOf(s, n) \in Seq(S)
         /\ n > 0 /\ Len(s) > 0 =>
              /\ Len(LastOf(s, n)) > 0
              /\ LastOf(s, n)[Len(LastOf(s, n))] = s[Len(s)]
<1> DEFINE m == IF Len(s) > n THEN Len(s) - n + 1 ELSE 1
<1>1. Len(s) \in Nat /\ m \in Int /\ m >= 1 /\ \A i \in 1..Len(s) : s[i] \in S
  OBVIOUS
<1>2. PICK k \in Nat : k = Len(s)
  BY <1>1
<1>3. \A i \in m..k : s[i] \in S
  BY <1>1, <1>2
<1>4. n > 0 /\ k > 0 => m <= k
  BY <1>2
<1>5. LastOf(s, n) = SubSeq(s, m, k)
  BY <1>2 DEF LastOf
<1> HIDE DEF m
<1>6. /\ SubSeq(s, m, k) \in Seq(S)
      /\ Len(SubSeq(s, m, k)) = IF m <= k THEN k - m + 1 ELSE 0
      /\ \A i \in 1..(k - m + 1) : SubSeq(s, m, k)[i] = s[m + i - 1]
  BY <1>1, <1>3, SubSeqProperties
<1>7. ASSUME n > 0, k > 0
      PROVE  Len(SubSeq(s, m, k)) > 0 /\ SubSeq(s, m, k)[Len(SubSeq(s, m, k))] = s[k]
  <2>1. m <= k /\ k - m + 1 \in 1..(k - m + 1) /\ m + (k - m + 1) - 1 = k
    BY <1>1, <1>4, <1>7
  <2> QED
    BY <1>6, <2>1
<1> QED
  BY <1>2, <1>5, <1>6, <1>7

LEMMA StagePlaces ==
  ASSUME NEW messages, NEW rag
  PROVE  Stage(messages, rag) \in {"compress", "rag", "lookup"}
  BY DEF Stage

\* A response stays that of messages with the same end.
LEMMA GeneratedStays ==
  ASSUME SettledStay, NEW response, NEW end, Generated(response, end)
  PROVE  Generated(response, end)'
  BY DEF Generated, SettledStay

LEMMA CacheStays ==
  ASSUME CacheFits, SettledStay,
         \A k \in DOMAIN cache' : k \in DOMAIN cache /\ cache'[k] = cache[k]
  PROVE  CacheFits'
  BY GeneratedStays DEF CacheFits

LEMMA UntouchedFits ==
  ASSUME NEW d \in Requests, Untouched(d), SettledStay, QuestionFits(d), OwnTurn(d)
  PROVE  QuestionFits(d)' /\ OwnTurn(d)'
<1>1. QuestionFits(d)'
  BY GeneratedStays DEF QuestionFits, Untouched
<1>2. OwnTurn(d)'
  BY DEF OwnTurn, Untouched
<1> QED
  BY <1>1, <1>2

\* A step of one request keeps the invariant if that request fits afterwards.
LEMMA OneRequestStep ==
  ASSUME ChatInv, NEW r \in Requests, Types', \A d \in Requests \ {r} : Untouched(d),
         pc[r] \in Settled => pc'[r] \in Settled /\ context'[r] = context[r],
         CacheFits', QuestionFits(r)', OwnTurn(r)'
  PROVE  ChatInv'
<1>1. SettledStay
  BY DEF SettledStay, Untouched
<1>2. ASSUME NEW d \in Requests
      PROVE  QuestionFits(d)' /\ OwnTurn(d)'
  <2>1. CASE d = r
    BY <2>1
  <2>2. CASE d # r
    BY <1>1, <2>2, UntouchedFits DEF ChatInv
  <2> QED
    BY <2>1, <2>2
<1> QED
  BY <1>2 DEF ChatInv

\* The same of a step that leaves the cache alone.
LEMMA OneRequestStepNoCache ==
  ASSUME ChatInv, NEW r \in Requests, Types', \A d \in Requests \ {r} : Untouched(d),
         pc[r] \in Settled => pc'[r] \in Settled /\ context'[r] = context[r],
         cache' = cache, QuestionFits(r)', OwnTurn(r)'
  PROVE  ChatInv'
<1>1. SettledStay
  BY DEF SettledStay, Untouched
<1>2. CacheFits'
  BY <1>1, CacheStays DEF ChatInv
<1> QED
  BY <1>2, OneRequestStep

\* Changing the place of one request.
LEMMA Moved ==
  ASSUME Types, NEW r \in Requests, NEW place \in Places, End(r, place)
  PROVE  /\ pc' \in [Requests -> Places] /\ pc'[r] = place
         /\ \A d \in Requests \ {r} : pc'[d] = pc[d]
  BY DEF Types, End

LEMMA SaidTyped ==
  ASSUME NEW r \in Requests, NEW content \in Content, NEW role \in {"user", "assistant", "system"}
  PROVE  Said(role, content, r) \in Turn
  BY DEF Said, Turn

LEMMA AskedTyped ==
  ASSUME NEW r \in Requests, NEW text \in Texts
  PROVE  Asked(r, text) \in Turn
<1>1. <<"text", text>> \in Content
  BY DEF Content
<1> QED
  BY <1>1, SaidTyped DEF Asked

\* The assistant's turn is stored and returned.
LEMMA Answered ==
  ASSUME Types, NEW r \in Requests, NEW s \in Sessions, NEW l \in Seq(Turn), NEW content \in Content,
         Answer(r, s, l, content)
  PROVE  /\ log' \in [Sessions -> Seq(Turn)]
         /\ pc' \in [Requests -> Places] /\ pc'[r] = "replied"
         /\ OfRequests(reply') /\ reply'[r] = content
         /\ \A d \in Requests \ {r} : pc'[d] = pc[d] /\ reply'[d] = reply[d]
<1>1. Append(l, Said("assistant", content, r)) \in Seq(Turn)
  BY SaidTyped
<1>2. log' \in [Sessions -> Seq(Turn)]
  BY <1>1 DEF Types, Answer
<1>3. OfRequests(reply') /\ reply'[r] = content /\ \A d \in Requests \ {r} : reply'[d] = reply[d]
  BY DEF Types, Answer, OfRequests
<1>4. /\ pc' \in [Requests -> Places] /\ pc'[r] = "replied"
      /\ \A d \in Requests \ {r} : pc'[d] = pc[d]
  BY Moved DEF Answer, Places
<1> QED
  BY <1>2, <1>3, <1>4

\* A request has its messages, and goes on with them.
LEMMA Proceeded ==
  ASSUME Types, NEW r \in Requests, NEW s, NEW messages \in Seq(Turn),
         NEW stage \in {"compress", "rag", "lookup"}, Proceed(r, s, messages, stage)
  PROVE  /\ context' \in [Requests -> Seq(Turn)] /\ context'[r] = messages
         /\ pc' \in [Requests -> Places] /\ pc'[r] = stage
         /\ OfRequests(key')
         /\ stage = "lookup" => \E model : key'[r] = <<model, EndOf(messages)>>
         /\ \A d \in Requests \ {r} :
              pc'[d] = pc[d] /\ context'[d] = context[d] /\ key'[d] = key[d]
<1>1. /\ context' \in [Requests -> Seq(Turn)] /\ context'[r] = messages
      /\ \A d \in Requests \ {r} : context'[d] = context[d]
  BY DEF Types, Proceed
<1>2. /\ pc' \in [Requests -> Places] /\ pc'[r] = stage
      /\ \A d \in Requests \ {r} : pc'[d] = pc[d]
  BY DEF Types, Proceed, Places
<1>3. PICK k : /\ key' = [key EXCEPT ![r] = k]
               /\ stage = "lookup" => \E model : k = <<model, EndOf(messages)>>
  BY DEF Proceed, KeyOf
<1>4. OfRequests(key') /\ key'[r] = k /\ \A d \in Requests \ {r} : key'[d] = key[d]
  BY <1>3 DEF Types, OfRequests
<1> QED
  BY <1>1, <1>2, <1>3, <1>4

\* A request that is asked anew has its arguments.
LEMMA Arrived ==
  ASSUME Types, NEW r \in Requests, NEW q \in Request, req' = [req EXCEPT ![r] = q],
         \A d \in Requests \ {r} : pc'[d] = pc[d]
  PROVE  /\ OfRequests(req') /\ req'[r] = q /\ \A d \in Requests \ {r} : req'[d] = req[d]
         /\ \A d \in Requests : pc'[d] # "new" => req'[d] \in Request
<1>1. OfRequests(req') /\ req'[r] = q /\ \A d \in Requests \ {r} : req'[d] = req[d]
  BY DEF Types, OfRequests
<1> QED
  BY <1>1 DEF Types

\* The fields of a request.
LEMMA RequestTyped ==
  ASSUME NEW q \in Request
  PROVE  q.user \in Users /\ q.session \in Sessions /\ q.text \in Texts
  BY DEF Request

\* The place of a request changes, and the messages and the key do not.
LEMMA MovedTyped ==
  ASSUME Types, NEW r \in Requests, pc[r] # "new", NEW place \in Places, End(r, place),
         UNCHANGED <<log, req, context, key, raw, reply>>
  PROVE  Types' /\ pc'[r] = place /\ \A d \in Requests \ {r} : Untouched(d)
<1>1. /\ pc' \in [Requests -> Places] /\ pc'[r] = place
      /\ \A d \in Requests \ {r} : pc'[d] = pc[d]
  BY Moved
<1>2. Types'
  BY <1>1 DEF Types, OfRequests
<1> QED
  BY <1>1, <1>2 DEF Untouched

\* The first suspension of chat() is after a refusal.
LEMMA RefusalFits ==
  ASSUME ChatInv, NEW r \in Requests, NEW q \in Request, pc[r] = "new",
         req' = [req EXCEPT ![r] = q], End(r, "alerting"),
         UNCHANGED <<log, cache, context, key, raw, reply>>
  PROVE  ChatInv'
<1>1. /\ pc' \in [Requests -> Places] /\ pc'[r] = "alerting"
      /\ \A d \in Requests \ {r} : pc'[d] = pc[d]
  BY Moved DEF ChatInv, Places
<1>2. /\ OfRequests(req') /\ req'[r] = q /\ \A d \in Requests \ {r} : req'[d] = req[d]
      /\ \A d \in Requests : pc'[d] # "new" => req'[d] \in Request
  BY <1>1, Arrived DEF ChatInv
<1>3. Types'
  BY <1>1, <1>2 DEF ChatInv, Types, OfRequests
<1>4. \A d \in Requests \ {r} : Untouched(d)
  BY <1>1, <1>2 DEF Untouched
<1>5. QuestionFits(r)' /\ OwnTurn(r)'
  BY <1>1 DEF ChatInv, QuestionFits, OwnTurn
<1> QED
  BY <1>3, <1>4, <1>5, OneRequestStepNoCache DEF Settled

\* A request that is answered at once.
LEMMA QuickFits ==
  ASSUME ChatInv, NEW r \in Requests, NEW q \in Request, pc[r] = "new",
         req' = [req EXCEPT ![r] = q],
         Answer(r, q.session, Append(log[q.session], Asked(r, q.text)), <<"quick">>),
         UNCHANGED <<cache, context, key, raw>>
  PROVE  ChatInv'
<1>1. q.session \in Sessions /\ q.text \in Texts
  BY RequestTyped
<1>2. Append(log[q.session], Asked(r, q.text)) \in Seq(Turn)
  BY <1>1, AskedTyped DEF ChatInv, Types
<1>3. <<"quick">> \in Content
  BY DEF Content
<1>4. /\ log' \in [Sessions -> Seq(Turn)]
      /\ pc' \in [Requests -> Places] /\ pc'[r] = "replied"
      /\ OfRequests(reply') /\ reply'[r] = <<"quick">>
      /\ \A d \in Requests \ {r} : pc'[d] = pc[d] /\ reply'[d] = reply[d]
  BY <1>1, <1>2, <1>3, Answered DEF ChatInv
<1>5. /\ OfRequests(req') /\ req'[r] = q /\ \A d \in Requests \ {r} : req'[d] = req[d]
      /\ \A d \in Requests : pc'[d] # "new" => req'[d] \in Request
  BY <1>4, Arrived DEF ChatInv
<1>6. Types'
  BY <1>4, <1>5 DEF ChatInv, Types, OfRequests
<1>7. \A d \in Requests \ {r} : Untouched(d)
  BY <1>4, <1>5 DEF Untouched
<1>8. QuestionFits(r)' /\ OwnTurn(r)'
  <2>1. reply'[r][1] = "quick" /\ reply'[r] # <<"directive", r>>
    BY <1>4
  <2> QED
    BY <1>4, <2>1 DEF QuestionFits, OwnTurn
<1> QED
  BY <1>6, <1>7, <1>8, OneRequestStepNoCache DEF Settled

\* A request that a skill takes.
LEMMA ToSkillFits ==
  ASSUME ChatInv, NEW r \in Requests, NEW q \in Request, pc[r] = "new", q.text \in Skilled,
         req' = [req EXCEPT ![r] = q],
         log' = [log EXCEPT ![q.session] = Append(log[q.session], Asked(r, q.text))],
         End(r, "skill"), UNCHANGED <<cache, context, key, raw, reply>>
  PROVE  ChatInv'
<1>1. q.session \in Sessions /\ q.text \in Texts
  BY RequestTyped
<1>2. log' \in [Sessions -> Seq(Turn)]
  BY <1>1, AskedTyped DEF ChatInv, Types
<1>3. /\ pc' \in [Requests -> Places] /\ pc'[r] = "skill"
      /\ \A d \in Requests \ {r} : pc'[d] = pc[d]
  BY Moved DEF ChatInv, Places
<1>4. /\ OfRequests(req') /\ req'[r] = q /\ \A d \in Requests \ {r} : req'[d] = req[d]
      /\ \A d \in Requests : pc'[d] # "new" => req'[d] \in Request
  BY <1>3, Arrived DEF ChatInv
<1>5. Types'
  BY <1>2, <1>3, <1>4 DEF ChatInv, Types, OfRequests
<1>6. \A d \in Requests \ {r} : Untouched(d)
  BY <1>3, <1>4 DEF Untouched
<1>7. QuestionFits(r)' /\ OwnTurn(r)'
  BY <1>3, <1>4 DEF ChatInv, QuestionFits, OwnTurn
<1> QED
  BY <1>5, <1>6, <1>7, OneRequestStepNoCache DEF Settled

\* A request that goes on with its messages.
LEMMA ProceedFits ==
  ASSUME ChatInv, NEW r \in Requests, pc[r] \in {"new", "skill", "compress", "rag"},
         NEW s, NEW messages \in Seq(Turn), NEW stage \in {"compress", "rag", "lookup"},
         log' \in [Sessions -> Seq(Turn)], Proceed(r, s, messages, stage),
         OfRequests(req'), req'[r] \in Request, \A d \in Requests \ {r} : req'[d] = req[d],
         req'[r].text \notin Skilled => Len(messages) > 0 /\ messages[Len(messages)].by = r,
         UNCHANGED <<cache, raw, reply>>
  PROVE  ChatInv'
<1>1. /\ context' \in [Requests -> Seq(Turn)] /\ context'[r] = messages
      /\ pc' \in [Requests -> Places] /\ pc'[r] = stage
      /\ OfRequests(key')
      /\ stage = "lookup" => \E model : key'[r] = <<model, EndOf(messages)>>
      /\ \A d \in Requests \ {r} :
           pc'[d] = pc[d] /\ context'[d] = context[d] /\ key'[d] = key[d]
  BY Proceeded DEF ChatInv
<1>2. \A d \in Requests : pc'[d] # "new" => req'[d] \in Request
  BY <1>1 DEF ChatInv, Types
<1>3. Types'
  BY <1>1, <1>2 DEF ChatInv, Types, OfRequests
<1>4. \A d \in Requests \ {r} : Untouched(d)
  BY <1>1 DEF Untouched
<1>5. QuestionFits(r)'
  BY <1>1 DEF ChatInv, QuestionFits
<1>6. OwnTurn(r)'
  BY <1>1 DEF OwnTurn
<1> QED
  BY <1>3, <1>4, <1>5, <1>6, OneRequestStepNoCache DEF Settled

\* A request that is answered from what it holds.
LEMMA AnswerFits ==
  ASSUME ChatInv, NEW r \in Requests, pc[r] \notin {"new", "replied"},
         NEW content \in Content, Answer(r, req[r].session, log[req[r].session], content),
         content # <<"directive", r>>,
         content[1] \in {"answer", "directive"} => Generated(content, EndOf(context[r])),
         UNCHANGED <<cache, req, context, key, raw>>
  PROVE  ChatInv'
<1>1. req[r] \in Request /\ req[r].session \in Sessions
  BY RequestTyped DEF ChatInv, Types
<1>2. log[req[r].session] \in Seq(Turn)
  BY <1>1 DEF ChatInv, Types
<1>3. /\ log' \in [Sessions -> Seq(Turn)]
      /\ pc' \in [Requests -> Places] /\ pc'[r] = "replied"
      /\ OfRequests(reply') /\ reply'[r] = content
      /\ \A d \in Requests \ {r} : pc'[d] = pc[d] /\ reply'[d] = reply[d]
  BY <1>1, <1>2, Answered DEF ChatInv
<1>4. Types'
  BY <1>1, <1>3 DEF ChatInv, Types, OfRequests
<1>5. \A d \in Requests \ {r} : Untouched(d)
  BY <1>3 DEF Untouched
<1>6. SettledStay
  BY <1>3 DEF SettledStay, Settled
<1>7. QuestionFits(r)'
  <2>1. content[1] \in {"answer", "directive"} => Generated(content, EndOf(context[r]))'
    BY <1>6, GeneratedStays
  <2> QED
    BY <1>3, <2>1 DEF QuestionFits
<1>8. OwnTurn(r)'
  BY <1>3 DEF OwnTurn
<1> QED
  BY <1>3, <1>4, <1>5, <1>7, <1>8, OneRequestStepNoCache DEF Settled

\* A request that only changes its place.
LEMMA MoveFits ==
  ASSUME ChatInv, NEW r \in Requests, NEW place \in Places, End(r, place),
         \/ pc[r] = "alerting" /\ place = "refused"
         \/ pc[r] = "lookup" /\ place = "probe"
         \/ pc[r] = "probe" /\ place = "llm"
         \/ pc[r] \notin {"new", "replied"} /\ place = "failed",
         UNCHANGED <<log, cache, req, context, key, raw, reply>>
  PROVE  ChatInv'
<1>1. Types' /\ pc'[r] = place /\ \A d \in Requests \ {r} : Untouched(d)
  BY MovedTyped DEF ChatInv
<1>2. QuestionFits(r)' /\ OwnTurn(r)'
  BY <1>1 DEF ChatInv, QuestionFits, OwnTurn
<1> QED
  BY <1>1, <1>2, OneRequestStepNoCache DEF Settled

\* The user's turn goes last, and LastOf keeps it.
LEMMA OwnTurnKept ==
  ASSUME Types, NEW r \in Requests, NEW s \in Sessions, NEW text \in Texts
  PROVE  /\ Append(log[s], Asked(r, text)) \in Seq(Turn)
         /\ LET recent == LastOf(Append(log[s], Asked(r, text)), HistoryLimit)
            IN recent \in Seq(Turn) /\ Len(recent) > 0 /\ recent[Len(recent)].by = r
<1>1. Append(log[s], Asked(r, text)) \in Seq(Turn)
  BY AskedTyped DEF Types
<1>2. PICK stored \in Seq(Turn) : stored = Append(log[s], Asked(r, text))
  BY <1>1
<1>3. Len(stored) > 0 /\ stored[Len(stored)].by = r
  <2>1. log[s] \in Seq(Turn) /\ Asked(r, text) \in Turn
    BY AskedTyped DEF Types
  <2>2. Len(stored) = Len(log[s]) + 1 /\ stored[Len(log[s]) + 1] = Asked(r, text)
    BY <1>2, <2>1, AppendProperties
  <2>3. Asked(r, text).by = r
    BY DEF Asked, Said
  <2>4. Len(log[s]) \in Nat
    BY <2>1
  <2> QED
    BY <2>2, <2>3, <2>4
<1>4. HistoryLimit \in Nat /\ HistoryLimit > 0
  BY ChatAssumption
<1>5. /\ LastOf(stored, HistoryLimit) \in Seq(Turn) /\ Len(LastOf(stored, HistoryLimit)) > 0
      /\ LastOf(stored, HistoryLimit)[Len(LastOf(stored, HistoryLimit))] = stored[Len(stored)]
  BY <1>3, <1>4, LastOfFits
<1> QED
  BY <1>1, <1>2, <1>3, <1>5

LEMMA ArriveFits ==
  ASSUME ChatInv, NEW r \in Requests, NEW q \in Request, Arrive(r, q)
  PROVE  ChatInv'
<1>1. CASE ArriveUnsafe(r, q)
  BY <1>1, RefusalFits DEF Arrive, ArriveUnsafe
<1>2. CASE ArriveLimited(r, q)
  BY <1>2, RefusalFits DEF Arrive, ArriveLimited
<1>3. CASE ArriveAdmitted(r, q)
  <2> DEFINE stored == Append(log[q.session], Asked(r, q.text))
             recent == LastOf(stored, HistoryLimit)
  <2>1. q.session \in Sessions /\ q.text \in Texts
    BY RequestTyped
  <2>2. CASE Answer(r, q.session, stored, <<"quick">>) /\ UNCHANGED <<context, key>>
    BY <2>2, QuickFits DEF Arrive
  <2>3. CASE /\ q.text \in Skilled
             /\ log' = [log EXCEPT ![q.session] = stored]
             /\ End(r, "skill") /\ UNCHANGED <<context, key, reply>>
    BY <2>3, ToSkillFits DEF Arrive
  <2>4. CASE /\ q.text \notin Skilled
             /\ log' = [log EXCEPT ![q.session] = stored]
             /\ Proceed(r, q.session, recent, Stage(recent, q.rag)) /\ UNCHANGED reply
    <3>1. stored \in Seq(Turn)
      BY <2>1, OwnTurnKept DEF ChatInv
    <3>2. recent \in Seq(Turn) /\ Len(recent) > 0 /\ recent[Len(recent)].by = r
      BY <2>1, OwnTurnKept DEF ChatInv
    <3>3. log' \in [Sessions -> Seq(Turn)]
      BY <2>1, <2>4, <3>1 DEF ChatInv, Types
    <3>4. OfRequests(req') /\ req'[r] = q /\ \A d \in Requests \ {r} : req'[d] = req[d]
      BY DEF ChatInv, Types, OfRequests, Arrive
    <3>5. pc[r] = "new" /\ UNCHANGED <<cache, raw>>
      BY DEF Arrive
    <3>6. Stage(recent, q.rag) \in {"compress", "rag", "lookup"}
      BY StagePlaces
    <3> HIDE DEF stored, recent
    <3> QED
      BY <2>4, <3>2, <3>3, <3>4, <3>5, <3>6, ProceedFits
  <2> QED
    BY <1>3, <2>2, <2>3, <2>4 DEF ArriveAdmitted
<1> QED
  BY <1>1, <1>2, <1>3 DEF Arrive

LEMMA SkillEndsFits ==
  ASSUME ChatInv, NEW r \in Requests, SkillEnds(r)
  PROVE  ChatInv'
<1> DEFINE recent == LastOf(log[req[r].session], HistoryLimit)
<1>1. /\ pc[r] = "skill" /\ req[r] \in Request /\ req[r].session \in Sessions
      /\ req[r].text \in Skilled
  BY RequestTyped DEF ChatInv, Types, OwnTurn, SkillEnds
<1>2. CASE /\ Answer(r, req[r].session, log[req[r].session], <<"skill", r>>)
           /\ UNCHANGED <<cache, req, context, key, raw>>
  <2>1. <<"skill", r>> \in Content
    BY DEF Content
  <2>2. <<"skill", r>>[1] = "skill" /\ <<"skill", r>> # <<"directive", r>>
    OBVIOUS
  <2> QED
    BY <1>1, <1>2, <2>1, <2>2, AnswerFits
<1>3. CASE /\ Proceed(r, req[r].session, recent, Stage(recent, req[r].rag))
           /\ UNCHANGED <<log, cache, req, raw, reply>>
  <2>1. recent \in Seq(Turn)
    BY <1>1, LastOfFits, ChatAssumption DEF ChatInv, Types
  <2>2. Stage(recent, req[r].rag) \in {"compress", "rag", "lookup"}
    BY StagePlaces
  <2>3. /\ OfRequests(req') /\ req'[r] \in Request /\ req'[r].text \in Skilled
        /\ \A d \in Requests \ {r} : req'[d] = req[d]
    BY <1>1, <1>3 DEF ChatInv, Types, OfRequests
  <2>4. log' \in [Sessions -> Seq(Turn)]
    BY <1>3 DEF ChatInv, Types
  <2> HIDE DEF recent
  <2> QED
    BY <1>1, <1>3, <2>1, <2>2, <2>3, <2>4, ProceedFits
<1> DEFINE stored == Append(log[req[r].session], Said("assistant", Empty, r))
           blank  == LastOf(stored, HistoryLimit)
<1>4. CASE /\ log' = [log EXCEPT ![req[r].session] = stored]
           /\ Proceed(r, req[r].session, blank, Stage(blank, req[r].rag))
           /\ UNCHANGED <<cache, req, raw, reply>>
  <2>1. Said("assistant", Empty, r) \in Turn
    <3>1. Empty \in Content
      BY DEF Content
    <3> QED
      BY <3>1, SaidTyped
  <2>2. stored \in Seq(Turn)
    BY <1>1, <2>1, AppendProperties DEF ChatInv, Types
  <2> HIDE DEF stored
  <2>3. blank \in Seq(Turn)
    BY <2>2, LastOfFits, ChatAssumption
  <2>4. Stage(blank, req[r].rag) \in {"compress", "rag", "lookup"}
    BY StagePlaces
  <2>5. /\ OfRequests(req') /\ req'[r] \in Request /\ req'[r].text \in Skilled
        /\ \A d \in Requests \ {r} : req'[d] = req[d]
    BY <1>1, <1>4 DEF ChatInv, Types, OfRequests
  <2>6. log' \in [Sessions -> Seq(Turn)]
    BY <1>1, <1>4, <2>2 DEF ChatInv, Types
  <2> HIDE DEF blank
  <2> QED
    BY <1>1, <1>4, <2>3, <2>4, <2>5, <2>6, ProceedFits
<1> QED
  BY <1>2, <1>3, <1>4 DEF SkillEnds

\* The summary goes before the recent turns, and leaves the last one last.
LEMMA SummaryFits ==
  ASSUME NEW r \in Requests, NEW messages \in Seq(Turn)
  PROVE  LET recent == LastOf(messages, KeepRecent)
             shorter == <<Said("system", <<"summary">>, r)>> \o recent
         IN /\ shorter \in Seq(Turn)
            /\ Len(messages) > 0 /\ messages[Len(messages)].by = r =>
                 Len(shorter) > 0 /\ shorter[Len(shorter)].by = r
<1>1. PICK recent : recent = LastOf(messages, KeepRecent)
  OBVIOUS
<1>2. KeepRecent \in Nat /\ KeepRecent > 0
  BY ChatAssumption
<1>3. recent \in Seq(Turn)
  BY <1>1, <1>2, LastOfFits
<1>4. Len(messages) > 0 => Len(recent) > 0 /\ recent[Len(recent)] = messages[Len(messages)]
  BY <1>1, <1>2, LastOfFits
<1>5. PICK said \in Turn : said = Said("system", <<"summary">>, r)
  <2>1. <<"summary">> \in Content
    BY DEF Content
  <2> QED
    BY <2>1, SaidTyped
<1>6. <<said>> \o recent \in Seq(Turn)
  BY <1>3
<1>7. Len(recent) > 0 =>
        /\ Len(<<said>> \o recent) > 0
        /\ (<<said>> \o recent)[Len(<<said>> \o recent)] = recent[Len(recent)]
  <2>1. <<said>> \in Seq(Turn) /\ Len(<<said>>) = 1
    OBVIOUS
  <2>2. PICK n \in Nat : n = Len(recent)
    BY <1>3
  <2>3. Len(<<said>> \o recent) = 1 + n
    BY <1>3, <2>1, <2>2, ConcatProperties
  <2>4. n > 0 => (<<said>> \o recent)[1 + n] = recent[n]
    BY <1>3, <2>1, <2>2, ConcatProperties
  <2> QED
    BY <2>2, <2>3, <2>4
<1> QED
  BY <1>1, <1>4, <1>5, <1>6, <1>7

LEMMA SummarizedFits ==
  ASSUME ChatInv, NEW r \in Requests, Summarized(r)
  PROVE  ChatInv'
<1> DEFINE shorter == <<Said("system", <<"summary">>, r)>> \o LastOf(context[r], KeepRecent)
<1>1. pc[r] = "compress" /\ UNCHANGED <<log, cache, req, raw, reply>>
  BY DEF Summarized
<1>2. shorter \in Seq(Turn) /\
      (Len(context[r]) > 0 /\ context[r][Len(context[r])].by = r =>
         Len(shorter) > 0 /\ shorter[Len(shorter)].by = r)
  BY SummaryFits DEF ChatInv, Types
<1>3. /\ OfRequests(req') /\ req'[r] \in Request /\ log' \in [Sessions -> Seq(Turn)]
      /\ \A d \in Requests \ {r} : req'[d] = req[d]
  BY <1>1 DEF ChatInv, Types, OfRequests
<1>4. req'[r].text \notin Skilled => Len(context[r]) > 0 /\ context[r][Len(context[r])].by = r
  BY <1>1 DEF ChatInv, OwnTurn
<1>5. PICK stage \in {"compress", "rag", "lookup"} :
        Proceed(r, req[r].session, shorter, stage)
  BY DEF Summarized
<1> HIDE DEF shorter
<1> QED
  BY <1>1, <1>2, <1>3, <1>4, <1>5, ProceedFits

LEMMA RagEndsFits ==
  ASSUME ChatInv, NEW r \in Requests, RagEnds(r)
  PROVE  ChatInv'
<1>1. pc[r] = "rag" /\ UNCHANGED <<log, cache, req, raw, reply>>
  BY DEF RagEnds
<1>2. /\ OfRequests(req') /\ req'[r] \in Request /\ log' \in [Sessions -> Seq(Turn)]
      /\ \A d \in Requests \ {r} : req'[d] = req[d]
  BY <1>1 DEF ChatInv, Types, OfRequests
<1>3. req'[r].text \notin Skilled => Len(context[r]) > 0 /\ context[r][Len(context[r])].by = r
  BY <1>1 DEF ChatInv, OwnTurn
<1>4. context[r] \in Seq(Turn)
  BY DEF ChatInv, Types
<1>5. PICK messages \in Seq(Turn) :
        /\ Proceed(r, req[r].session, messages, "lookup")
        /\ Len(messages) = Len(context[r])
        /\ Len(messages) > 0 => messages[Len(messages)].by = context[r][Len(context[r])].by
  <2>1. CASE Proceed(r, req[r].session, context[r], "lookup")
    BY <1>4, <2>1
  <2>2. ASSUME NEW d \in Docs,
               Proceed(r, req[r].session,
                 [context[r] EXCEPT ![Len(context[r])].content = <<"augmented", req[r].text, d>>],
                 "lookup")
        PROVE  \E messages \in Seq(Turn) :
                 /\ Proceed(r, req[r].session, messages, "lookup")
                 /\ Len(messages) = Len(context[r])
                 /\ Len(messages) > 0 => messages[Len(messages)].by = context[r][Len(context[r])].by
    <3>1. PICK turns \in Seq(Turn) : turns = context[r]
      BY <1>4
    <3>2. PICK n \in Nat : n = Len(turns)
      OBVIOUS
    <3>3. PICK content \in Content : content = <<"augmented", req[r].text, d>>
      <4>1. req[r].text \in Texts
        BY <1>1, RequestTyped DEF ChatInv, Types
      <4> QED
        BY <4>1 DEF Content
    <3>4. \A t \in Turn : [t EXCEPT !.content = content] \in Turn
                          /\ [t EXCEPT !.content = content].by = t.by
      BY DEF Turn
    <3>5. PICK messages : messages = [turns EXCEPT ![n].content = content]
      OBVIOUS
    <3>6. messages = [i \in 1..n |-> IF i = n THEN [turns[n] EXCEPT !.content = content] ELSE turns[i]]
      <4>1. DOMAIN turns = 1..n
        BY <3>2
      <4> QED
        BY <3>5, <4>1
    <3>7. \A i \in 1..n : turns[i] \in Turn
      BY <3>2
    <3>8. \A i \in 1..n : messages[i] \in Turn /\ messages[i].by = turns[i].by
      BY <3>4, <3>6, <3>7
    <3>9. messages \in Seq(Turn) /\ Len(messages) = n
      <4>1. messages \in [1..n -> Turn]
        BY <3>6, <3>8
      <4> QED
        BY <4>1, LenProperties
    <3>10. Proceed(r, req[r].session, messages, "lookup")
      BY <2>2, <3>1, <3>2, <3>3, <3>5
    <3>11. n > 0 => messages[n].by = turns[n].by
      BY <3>8
    <3> QED
      BY <3>1, <3>2, <3>9, <3>10, <3>11
  <2> QED
    BY <2>1, <2>2 DEF RagEnds
<1> QED
  BY <1>1, <1>2, <1>3, <1>5, ProceedFits

LEMMA CacheHitFits ==
  ASSUME ChatInv, NEW r \in Requests, CacheHit(r)
  PROVE  ChatInv'
<1>1. pc[r] = "lookup" /\ key[r] \in DOMAIN cache /\ cache[key[r]] # Empty
  BY DEF CacheHit, Hit
<1>2. PICK model : key[r] = <<model, EndOf(context[r])>>
  BY <1>1 DEF ChatInv, QuestionFits
<1>3. Generated(cache[key[r]], EndOf(context[r]))
  BY <1>1, <1>2 DEF ChatInv, CacheFits
<1>4. cache[key[r]] \in Content /\ cache[key[r]] # <<"directive", r>>
  BY <1>1, <1>3 DEF Generated, Content, Settled
<1> QED
  BY <1>1, <1>3, <1>4, AnswerFits DEF CacheHit

LEMMA ProbeEndsFits ==
  ASSUME ChatInv, NEW r \in Requests, ProbeEnds(r)
  PROVE  ChatInv'
<1>1. pc[r] = "probe"
  BY DEF ProbeEnds
<1>2. CASE End(r, "llm") /\ UNCHANGED <<log, reply>>
  BY <1>1, <1>2, MoveFits DEF ProbeEnds, Places
<1>3. CASE Answer(r, req[r].session, log[req[r].session], <<"fallback", req[r].text>>)
  <2>1. req[r].text \in Texts
    BY <1>1, RequestTyped DEF ChatInv, Types
  <2>2. <<"fallback", req[r].text>> \in Content
    BY <2>1 DEF Content
  <2>3. <<"fallback", req[r].text>>[1] = "fallback" /\ <<"fallback", req[r].text>> # <<"directive", r>>
    OBVIOUS
  <2> QED
    BY <1>1, <1>3, <2>2, <2>3, AnswerFits DEF ProbeEnds
<1> QED
  BY <1>2, <1>3 DEF ProbeEnds

LEMMA LlmEndsFits ==
  ASSUME ChatInv, NEW r \in Requests, LlmEnds(r)
  PROVE  ChatInv'
<1>1. PICK response \in {<<"answer", r>>, <<"directive", r>>, Empty} :
        raw' = [raw EXCEPT ![r] = response]
  BY DEF LlmEnds
<1>2. /\ pc' \in [Requests -> Places] /\ pc'[r] = "caching"
      /\ \A d \in Requests \ {r} : pc'[d] = pc[d]
  BY Moved DEF ChatInv, LlmEnds, Places
<1>3. OfRequests(raw') /\ raw'[r] = response /\ \A d \in Requests \ {r} : raw'[d] = raw[d]
  BY <1>1 DEF ChatInv, Types, OfRequests
<1>4. pc[r] = "llm" /\ UNCHANGED <<log, cache, req, context, key, reply>>
  BY DEF LlmEnds
<1>5. Types'
  BY <1>2, <1>3, <1>4 DEF ChatInv, Types, OfRequests
<1>6. \A d \in Requests \ {r} : Untouched(d)
  BY <1>2, <1>3, <1>4 DEF Untouched
<1>7. QuestionFits(r)' /\ OwnTurn(r)'
  BY <1>2, <1>3, <1>4 DEF ChatInv, QuestionFits, OwnTurn
<1> QED
  BY <1>4, <1>5, <1>6, <1>7, OneRequestStepNoCache DEF Settled

\* The response is in the cache, and its messages are settled.
LEMMA CacheWrittenFits ==
  ASSUME ChatInv, NEW r \in Requests, CacheWritten(r)
  PROVE  ChatInv'
<1>1. pc[r] = "caching" /\ UNCHANGED <<req, context, key, raw>>
  BY DEF CacheWritten
<1>2. PICK model : key[r] = <<model, EndOf(context[r])>>
  BY <1>1 DEF ChatInv, QuestionFits
<1>3. raw[r] \in {<<"answer", r>>, <<"directive", r>>, Empty}
  BY <1>1 DEF ChatInv, QuestionFits
<1>4. req[r] \in Request /\ req[r].session \in Sessions
  BY <1>1, RequestTyped DEF ChatInv, Types
<1>5. /\ log' \in [Sessions -> Seq(Turn)]
      /\ pc' \in [Requests -> Places]
      /\ OfRequests(reply') /\ \A d \in Requests \ {r} : pc'[d] = pc[d] /\ reply'[d] = reply[d]
      /\ \/ pc'[r] = "tools" /\ reply'[r] = reply[r]
         \/ pc'[r] = "replied" /\ reply'[r] = raw[r] /\ raw[r] # <<"directive", r>>
  <2>1. CASE raw[r] = <<"directive", r>>
    <3>1. End(r, "tools") /\ UNCHANGED <<log, reply>>
      BY <1>3, <2>1 DEF CacheWritten
    <3> QED
      BY <3>1, Moved DEF ChatInv, Types, OfRequests, Places
  <2>2. CASE raw[r] \in {<<"answer", r>>, Empty}
    <3>0. raw[r][1] # "directive" /\ raw[r] # <<"directive", r>>
      BY <2>2 DEF Empty
    <3>1. Answer(r, req[r].session, log[req[r].session], raw[r])
      BY <3>0 DEF CacheWritten
    <3>2. raw[r] \in Content
      BY <1>3 DEF Content
    <3>3. log[req[r].session] \in Seq(Turn)
      BY <1>4 DEF ChatInv, Types
    <3> QED
      BY <1>4, <3>0, <3>1, <3>2, <3>3, Answered DEF ChatInv
  <2> QED
    BY <1>3, <2>1, <2>2
<1>6. Types'
  BY <1>1, <1>4, <1>5 DEF ChatInv, Types, OfRequests
<1>7. \A d \in Requests \ {r} : Untouched(d)
  BY <1>1, <1>5 DEF Untouched
<1>8. SettledStay
  BY <1>1, <1>5, <1>7 DEF SettledStay, Untouched, Settled
<1>9. (raw[r] = Empty \/ Generated(raw[r], EndOf(context[r])))'
  BY <1>1, <1>3, <1>5 DEF Generated, Settled
<1>10. CacheFits'
  <2>1. SUFFICES ASSUME NEW k \in DOMAIN cache'
                 PROVE  (cache[k] = Empty \/ Generated(cache[k], k[2]))'
    BY DEF CacheFits
  <2>2. CASE k = key[r]
    <3>1. cache'[k] = raw'[r] /\ k[2] = EndOf(context'[r])
      BY <1>1, <1>2, <2>2 DEF CacheWritten
    <3> QED
      BY <1>9, <3>1
  <2>3. CASE k # key[r]
    <3>1. k \in DOMAIN cache /\ cache'[k] = cache[k]
      BY <2>1, <2>3 DEF CacheWritten
    <3>2. cache[k] = Empty \/ Generated(cache[k], k[2])
      BY <3>1 DEF ChatInv, CacheFits
    <3> QED
      BY <1>8, <3>1, <3>2, GeneratedStays
  <2> QED
    BY <2>2, <2>3
<1>11. QuestionFits(r)'
  <2>1. pc'[r] # "caching" /\ pc'[r] \notin {"lookup", "probe", "llm"}
    BY <1>5
  <2>2. reply'[r] # <<"directive", r>>
    BY <1>3, <1>5 DEF ChatInv, QuestionFits
  <2>3. pc'[r] = "replied" => reply'[r] = raw'[r]
    BY <1>1, <1>5
  <2>4. raw'[r] # Empty /\ reply'[r] = raw'[r] => Generated(reply[r], EndOf(context[r]))'
    BY <1>1, <1>9
  <2>5. Empty[1] \notin {"answer", "directive"}
    BY DEF Empty
  <2>6. pc'[r] = "replied" /\ reply'[r][1] \in {"answer", "directive"} =>
          Generated(reply[r], EndOf(context[r]))'
    BY <2>3, <2>4, <2>5
  <2> QED
    BY <2>1, <2>2, <2>6 DEF QuestionFits
<1>12. OwnTurn(r)'
  BY <1>5 DEF OwnTurn
<1> QED
  BY <1>1, <1>5, <1>6, <1>7, <1>10, <1>11, <1>12, OneRequestStep DEF Settled

LEMMA ToolsEndFits ==
  ASSUME ChatInv, NEW r \in Requests, ToolsEnd(r)
  PROVE  ChatInv'
<1>1. <<"results", r>> \in Content
  BY DEF Content
<1>2. <<"results", r>>[1] = "results" /\ <<"results", r>> # <<"directive", r>>
  OBVIOUS
<1> QED
  BY <1>1, <1>2, AnswerFits DEF ToolsEnd

LEMMA StreamEndFits ==
  ASSUME ChatInv, NEW r \in Requests, StreamEnd(r)
  PROVE  ChatInv'
<1>1. PICK told \in {<<"stream", r>>, Empty} :
        Answer(r, req[r].session, log[req[r].session], told)
  BY DEF StreamEnd
<1>2. told \in Content
  BY DEF Content
<1>3. told[1] \in {"stream", "empty"} /\ told # <<"directive", r>>
  BY DEF Empty
<1> QED
  BY <1>1, <1>2, <1>3, AnswerFits DEF StreamEnd

LEMMA StreamStartFits ==
  ASSUME ChatInv, NEW r \in Requests, NEW q \in Request, StreamStart(r, q)
  PROVE  ChatInv'
<1>1. q.session \in Sessions /\ q.text \in Texts
  BY RequestTyped
<1>2. PICK earlier \in Seq(Turn) : earlier = LastOf(log[q.session], HistoryLimit)
  BY <1>1, LastOfFits, ChatAssumption DEF ChatInv, Types
<1>3. PICK asked \in Turn : asked = Asked(r, q.text)
  BY <1>1, AskedTyped
<1>4. log' \in [Sessions -> Seq(Turn)]
  BY <1>1, <1>3 DEF ChatInv, Types, StreamStart
<1>5. PICK messages \in Seq(Turn) : messages = Append(earlier, asked)
  BY AppendProperties
<1>6. Len(messages) > 0 /\ messages[Len(messages)] = asked
  <2>1. Len(messages) = Len(earlier) + 1 /\ messages[Len(earlier) + 1] = asked
    BY <1>5, AppendProperties
  <2>2. Len(earlier) \in Nat
    OBVIOUS
  <2> QED
    BY <2>1, <2>2
<1>7. /\ context' \in [Requests -> Seq(Turn)] /\ context'[r] = messages
      /\ \A d \in Requests \ {r} : context'[d] = context[d]
  <2>1. context' = [context EXCEPT ![r] = messages]
    BY <1>2, <1>3, <1>5 DEF StreamStart
  <2> QED
    BY <2>1 DEF ChatInv, Types
<1>8. /\ pc' \in [Requests -> Places] /\ pc'[r] = "streaming"
      /\ \A d \in Requests \ {r} : pc'[d] = pc[d]
  BY Moved DEF ChatInv, StreamStart, Places
<1>9. /\ OfRequests(req') /\ req'[r] = q /\ \A d \in Requests \ {r} : req'[d] = req[d]
      /\ \A d \in Requests : pc'[d] # "new" => req'[d] \in Request
  BY <1>8, Arrived DEF ChatInv, StreamStart
<1>10. pc[r] = "new" /\ UNCHANGED <<cache, key, raw, reply>>
  BY DEF StreamStart
<1>11. Types'
  BY <1>4, <1>7, <1>8, <1>9, <1>10 DEF ChatInv, Types, OfRequests
<1>12. \A d \in Requests \ {r} : Untouched(d)
  BY <1>7, <1>8, <1>9, <1>10 DEF Untouched
<1>13. QuestionFits(r)'
  BY <1>8, <1>10 DEF ChatInv, QuestionFits
<1>14. OwnTurn(r)'
  <2>1. asked.by = r
    BY <1>3 DEF Asked, Said
  <2> QED
    BY <1>6, <1>7, <1>8, <2>1 DEF OwnTurn
<1> QED
  BY <1>10, <1>11, <1>12, <1>13, <1>14, OneRequestStepNoCache DEF Settled

\* Nothing happens to the requests.
LEMMA RestFits ==
  ASSUME ChatInv, UNCHANGED <<log, pc, req, context, key, raw, reply>>,
         \A k \in DOMAIN cache' : k \in DOMAIN cache /\ cache'[k] = cache[k]
  PROVE  ChatInv'
<1>1. SettledStay
  BY DEF SettledStay
<1>2. CacheFits'
  BY <1>1, CacheStays DEF ChatInv
<1>3. Types'
  BY DEF ChatInv, Types, OfRequests
<1>4. ASSUME NEW d \in Requests
      PROVE  QuestionFits(d)' /\ OwnTurn(d)'
  BY <1>1, UntouchedFits DEF ChatInv, Untouched
<1> QED
  BY <1>2, <1>3, <1>4 DEF ChatInv

\* What was in flight is lost, and its messages stay.
LEMMA RestartFits ==
  ASSUME ChatInv, NEW keepCache \in BOOLEAN, Restart(keepCache)
  PROVE  ChatInv'
<1>1. UNCHANGED <<log, req, context, key, raw, reply>>
  BY DEF Restart
<1>2. \A k \in DOMAIN cache' : k \in DOMAIN cache /\ cache'[k] = cache[k]
  BY DEF Restart
<1>3. pc' \in [Requests -> Places] /\ \A d \in Requests : pc'[d] = pc[d] \/ pc'[d] = "lost"
  BY DEF Restart, ChatInv, Types, Places
<1>5. SettledStay
  BY <1>1, <1>3 DEF SettledStay, Settled
<1>6. CacheFits'
  BY <1>2, <1>5, CacheStays DEF ChatInv
<1>7. \A d \in Requests : pc[d] = "new" => pc'[d] = "new"
  BY DEF Restart, InFlight
<1>8. Types'
  BY <1>1, <1>3, <1>7 DEF ChatInv, Types, OfRequests, Restart, InFlight
<1>9. ASSUME NEW d \in Requests
      PROVE  QuestionFits(d)' /\ OwnTurn(d)'
  <2>1. CASE pc'[d] = pc[d]
    BY <1>1, <1>5, <2>1, UntouchedFits DEF ChatInv, Untouched
  <2>2. CASE pc'[d] = "lost"
    BY <1>1, <2>2 DEF ChatInv, QuestionFits, OwnTurn
  <2> QED
    BY <1>3, <2>1, <2>2
<1> QED
  BY <1>6, <1>8, <1>9 DEF ChatInv

LEMMA ChatInit == Init => ChatInv
<1> SUFFICES ASSUME Init
             PROVE  ChatInv
  OBVIOUS
<1>1. Types
  BY DEF Init, Types, OfRequests, Places
<1>2. CacheFits
  BY DEF Init, CacheFits
<1>3. ASSUME NEW r \in Requests
      PROVE  QuestionFits(r) /\ OwnTurn(r)
  <2>1. pc[r] = "new" /\ reply[r] = <<>>
    BY DEF Init, None
  <2>2. <<>> # <<"directive", r>>
    OBVIOUS
  <2> QED
    BY <2>1, <2>2 DEF QuestionFits, OwnTurn
<1> QED
  BY <1>1, <1>2, <1>3 DEF ChatInv

LEMMA ChatNext == ChatInv /\ [Next]_vars => ChatInv'
<1> SUFFICES ASSUME ChatInv, [Next]_vars
             PROVE  ChatInv'
  OBVIOUS
<1>1. CASE Tick \/ UNCHANGED vars
  BY <1>1, RestFits DEF Tick, vars
<1>2. ASSUME NEW k \in DOMAIN cache, Expire(k)
      PROVE  ChatInv'
  BY <1>2, RestFits DEF Expire
<1>3. ASSUME NEW r \in Requests, NEW q \in Request, Arrive(r, q) \/ StreamStart(r, q)
      PROVE  ChatInv'
  BY <1>3, ArriveFits, StreamStartFits
<1>4. ASSUME NEW r \in Requests, Refuse(r) \/ CacheMiss(r) \/ Fail(r)
      PROVE  ChatInv'
  BY <1>4, MoveFits DEF Refuse, CacheMiss, Fail, Places
<1>5. ASSUME NEW r \in Requests,
             SkillEnds(r) \/ Summarized(r) \/ RagEnds(r) \/ CacheHit(r) \/ ProbeEnds(r) \/ LlmEnds(r)
             \/ CacheWritten(r) \/ ToolsEnd(r) \/ StreamEnd(r)
      PROVE  ChatInv'
  BY <1>5, SkillEndsFits, SummarizedFits, RagEndsFits, CacheHitFits, ProbeEndsFits, LlmEndsFits,
     CacheWrittenFits, ToolsEndFits, StreamEndFits
<1>6. ASSUME NEW keepCache \in BOOLEAN, Restart(keepCache)
      PROVE  ChatInv'
  BY <1>6, RestartFits
<1> QED
  BY <1>1, <1>2, <1>3, <1>4, <1>5, <1>6 DEF Next, Serve

\* A request's key is that of its messages, a cached response was generated for
\* messages with the end its key has, and what is sent ends with the request's own
\* turn (OmniAgent.chat, _chat_cache_key).
THEOREM ChatInvariant == Spec => []ChatInv
<1> QED
  BY ChatInit, ChatNext, PTL DEF Spec

\* A cached answer is only replayed to a request whose messages end, documents
\* included, as those of the request it was generated for.
THEOREM QuestionAnswered == Spec => []SameQuestion
<1>1. ChatInv => SameQuestion
  BY DEF ChatInv, QuestionFits, Generated, SameQuestion
<1> QED
  BY <1>1, ChatInvariant, PTL

\* The model is asked about the request's own text, however many requests write
\* to the session meanwhile, unless a skill ran first and failed.
THEOREM OwnTextAsked == Spec => []OwnTurnLast
<1>1. ChatInv => OwnTurnLast
  BY DEF ChatInv, OwnTurn, OwnTurnLast
<1> QED
  BY <1>1, ChatInvariant, PTL

-----------------------------------------------------------------------------
\* What a conversation l holds of a request: nothing, its question, its question and
\* after it its answer, or these and between them the empty turn of its skill.
By(l, r, role) == {i \in DOMAIN l : l[i].by = r /\ l[i].role = role}
NothingOf(l, r) == By(l, r, "user") = {} /\ By(l, r, "assistant") = {}
QuestionOf(l, r) == By(l, r, "assistant") = {} /\ \E j : By(l, r, "user") = {j}
PairOf(l, r, content) ==
  \E i, j : /\ By(l, r, "user") = {j} /\ By(l, r, "assistant") = {i}
            /\ j < i /\ l[i].content = content
TripleOf(l, r, content) ==
  \E h, i, j : /\ By(l, r, "user") = {j} /\ By(l, r, "assistant") = {h, i}
               /\ j < h /\ h < i /\ l[h].content = Empty /\ l[i].content = content

\* Where a request has been stored, and not yet answered.
Asking == {"skill", "compress", "rag", "lookup", "probe", "llm", "caching", "tools", "streaming"}

\* Whether the skill of a request may have returned nothing.
Unanswered(r) ==
  \/ QuestionOf(log[req[r].session], r)
  \/ /\ PairOf(log[req[r].session], r, Empty)
     /\ req[r].text \in Skilled /\ pc[r] # "skill"

StoryFits(r) ==
  /\ \A s \in Sessions : pc[r] = "new" \/ s # req[r].session => NothingOf(log[s], r)
  /\ pc[r] \in {"alerting", "refused"} => NothingOf(log[req[r].session], r)
  /\ pc[r] \in Asking => Unanswered(r)
  /\ pc[r] = "replied" =>
       \/ PairOf(log[req[r].session], r, reply[r])
       \/ TripleOf(log[req[r].session], r, reply[r]) /\ req[r].text \in Skilled
  /\ pc[r] \in {"failed", "lost"} => NothingOf(log[req[r].session], r) \/ Unanswered(r)

\* A longer conversation holds the same of a request.
Keeps(l, longer, r) ==
  /\ NothingOf(l, r) => NothingOf(longer, r)
  /\ QuestionOf(l, r) => QuestionOf(longer, r)
  /\ \A content : PairOf(l, r, content) => PairOf(longer, r, content)
  /\ \A content : TripleOf(l, r, content) => TripleOf(longer, r, content)

StoryInv == \A r \in Requests : StoryFits(r)

-----------------------------------------------------------------------------
\* The turns of a request in a conversation with one turn more.
LEMMA ByAppended ==
  ASSUME NEW l \in Seq(Turn), NEW turn \in Turn, NEW r, NEW role
  PROVE  /\ By(l, r, role) \subseteq 1..Len(l)
         /\ \A i \in By(l, r, role) : Append(l, turn)[i] = l[i]
         /\ turn.by = r /\ turn.role = role =>
              By(Append(l, turn), r, role) = By(l, r, role) \cup {Len(l) + 1}
         /\ turn.by # r \/ turn.role # role => By(Append(l, turn), r, role) = By(l, r, role)
         /\ Append(l, turn)[Len(l) + 1] = turn
<1>1. PICK longer \in Seq(Turn) : longer = Append(l, turn)
  BY AppendProperties
<1>2. PICK n \in Nat : n = Len(l)
  OBVIOUS
<1>3. /\ DOMAIN l = 1..n /\ DOMAIN longer = 1..(n + 1)
      /\ longer[n + 1] = turn /\ \A i \in 1..n : longer[i] = l[i]
  BY <1>1, <1>2, AppendProperties, LenProperties
<1>4. 1..(n + 1) = (1..n) \cup {n + 1} /\ n + 1 \notin 1..n
  OBVIOUS
<1>5. By(l, r, role) = {i \in 1..n : l[i].by = r /\ l[i].role = role}
  BY <1>3 DEF By
<1>6. By(longer, r, role) = {i \in 1..(n + 1) : longer[i].by = r /\ longer[i].role = role}
  BY <1>3 DEF By
<1>7. turn.by = r /\ turn.role = role => By(longer, r, role) = By(l, r, role) \cup {n + 1}
  BY <1>3, <1>4, <1>5, <1>6
<1>8. turn.by # r \/ turn.role # role => By(longer, r, role) = By(l, r, role)
  BY <1>3, <1>4, <1>5, <1>6
<1> QED
  BY <1>1, <1>2, <1>3, <1>5, <1>7, <1>8

\* A turn of another request.
LEMMA OtherTurn ==
  ASSUME NEW l \in Seq(Turn), NEW turn \in Turn, NEW r, turn.by # r
  PROVE  Keeps(l, Append(l, turn), r)
<1>1. /\ By(Append(l, turn), r, "user") = By(l, r, "user")
      /\ By(Append(l, turn), r, "assistant") = By(l, r, "assistant")
      /\ \A i \in By(l, r, "assistant") : Append(l, turn)[i] = l[i]
  BY ByAppended
<1>2. PICK longer : longer = Append(l, turn)
  OBVIOUS
<1>3. \A content : PairOf(l, r, content) => PairOf(longer, r, content)
  BY <1>1, <1>2 DEF PairOf
<1>4. \A content : TripleOf(l, r, content) => TripleOf(longer, r, content)
  BY <1>1, <1>2 DEF TripleOf
<1> QED
  BY <1>1, <1>2, <1>3, <1>4 DEF Keeps, NothingOf, QuestionOf

LEMMA QuestionStored ==
  ASSUME NEW l \in Seq(Turn), NEW r \in Requests, NEW text \in Texts, NothingOf(l, r)
  PROVE  QuestionOf(Append(l, Asked(r, text)), r)
<1>1. PICK turn \in Turn : turn = Asked(r, text) /\ turn.by = r /\ turn.role = "user"
  BY AskedTyped DEF Asked, Said
<1>2. /\ By(Append(l, turn), r, "user") = By(l, r, "user") \cup {Len(l) + 1}
      /\ By(Append(l, turn), r, "assistant") = By(l, r, "assistant")
  BY <1>1, ByAppended
<1> QED
  BY <1>1, <1>2 DEF NothingOf, QuestionOf

LEMMA AnswerStored ==
  ASSUME NEW l \in Seq(Turn), NEW r \in Requests, NEW content \in Content, QuestionOf(l, r)
  PROVE  PairOf(Append(l, Said("assistant", content, r)), r, content)
<1>1. PICK turn \in Turn : /\ turn = Said("assistant", content, r) /\ turn.content = content
                           /\ turn.by = r /\ turn.role = "assistant"
  BY SaidTyped DEF Said
<1>2. PICK j : By(l, r, "user") = {j}
  BY DEF QuestionOf
<1>3. PICK n \in Nat : n = Len(l)
  OBVIOUS
<1>4. PICK longer : longer = Append(l, turn)
  OBVIOUS
<1>5. /\ By(longer, r, "user") = {j} /\ j \in 1..n
      /\ By(longer, r, "assistant") = {n + 1} /\ longer[n + 1] = turn
  <2>1. By(longer, r, "user") = By(l, r, "user") /\ By(l, r, "user") \subseteq 1..n
    <3>1. turn.role # "user"
      BY <1>1
    <3>2. By(Append(l, turn), r, "user") = By(l, r, "user") /\ By(l, r, "user") \subseteq 1..Len(l)
      BY <3>1, ByAppended
    <3> QED
      BY <1>3, <1>4, <3>2
  <2>2. By(longer, r, "assistant") = By(l, r, "assistant") \cup {n + 1} /\ longer[n + 1] = turn
    <3>1. /\ By(Append(l, turn), r, "assistant") = By(l, r, "assistant") \cup {Len(l) + 1}
          /\ Append(l, turn)[Len(l) + 1] = turn
      <4>1. turn.by = r /\ turn.role = "assistant"
        BY <1>1
      <4> QED
        BY ONLY <4>1, ByAppended, l \in Seq(Turn), turn \in Turn
    <3> QED
      BY <1>3, <1>4, <3>1
  <2>3. By(l, r, "assistant") = {}
    BY DEF QuestionOf
  <2> QED
    BY <1>2, <2>1, <2>2, <2>3
<1>6. j < n + 1
  BY <1>5
<1> QED
  BY <1>1, <1>4, <1>5, <1>6 DEF PairOf

\* An answer after the empty turn of a skill.
LEMMA AnswerStoredAgain ==
  ASSUME NEW l \in Seq(Turn), NEW r \in Requests, NEW content \in Content, PairOf(l, r, Empty)
  PROVE  TripleOf(Append(l, Said("assistant", content, r)), r, content)
<1>1. PICK turn \in Turn : /\ turn = Said("assistant", content, r) /\ turn.content = content
                           /\ turn.by = r /\ turn.role = "assistant" /\ turn.role # "user"
  BY SaidTyped DEF Said
<1>2. PICK h, j : /\ By(l, r, "user") = {j} /\ By(l, r, "assistant") = {h}
                  /\ j < h /\ l[h].content = Empty
  BY DEF PairOf
<1>3. PICK n \in Nat : n = Len(l)
  OBVIOUS
<1>4. PICK longer : longer = Append(l, turn)
  OBVIOUS
<1>5. By(longer, r, "user") = {j}
  BY <1>1, <1>2, <1>4, ByAppended
<1>6. /\ By(longer, r, "assistant") = By(l, r, "assistant") \cup {Len(l) + 1}
      /\ longer[Len(l) + 1] = turn /\ By(l, r, "assistant") \subseteq 1..Len(l)
      /\ \A i \in By(l, r, "assistant") : longer[i] = l[i]
  <2>1. turn.by = r /\ turn.role = "assistant"
    BY <1>1
  <2>2. By(Append(l, turn), r, "assistant") = By(l, r, "assistant") \cup {Len(l) + 1}
    BY ONLY <2>1, ByAppended, l \in Seq(Turn), turn \in Turn
  <2>3. By(l, r, "assistant") \subseteq 1..Len(l)
    BY ONLY ByAppended, l \in Seq(Turn), turn \in Turn
  <2>4. \A i \in 1..Len(l) : Append(l, turn)[i] = l[i]
    BY ONLY l \in Seq(Turn), turn \in Turn
  <2>5. Append(l, turn)[Len(l) + 1] = turn
    BY ONLY l \in Seq(Turn), turn \in Turn
  <2> QED
    BY ONLY <1>4, <2>2, <2>3, <2>4, <2>5
<1>7. h < n + 1 /\ longer[h] = l[h]
  BY <1>2, <1>3, <1>6
<1>8. By(longer, r, "assistant") = {h, n + 1} /\ longer[n + 1] = turn
  BY <1>2, <1>3, <1>6
<1> QED
  BY <1>1, <1>2, <1>4, <1>5, <1>7, <1>8 DEF TripleOf

-----------------------------------------------------------------------------
\* What a step that answers or asks for r leaves of another request.
LEMMA OthersStory ==
  ASSUME StoryInv, NEW r \in Requests,
         \A d \in Requests \ {r} :
           /\ pc'[d] = pc[d] /\ req'[d] = req[d] /\ reply'[d] = reply[d]
           /\ \A s \in Sessions : Keeps(log[s], log'[s], d),
         \A d \in Requests \ {r} : pc[d] # "new" => req[d].session \in Sessions,
         Types, StoryFits(r)'
  PROVE  StoryInv'
<1> SUFFICES ASSUME NEW d \in Requests
             PROVE  StoryFits(d)'
  BY DEF StoryInv
<1>1. CASE d = r
  BY <1>1
<1>2. CASE d # r
  <2>1. /\ pc'[d] = pc[d] /\ req'[d] = req[d] /\ reply'[d] = reply[d]
        /\ \A s \in Sessions : Keeps(log[s], log'[s], d)
    BY <1>2
  <2>2. StoryFits(d)
    BY DEF StoryInv
  <2>3. \A s \in Sessions : pc'[d] = "new" \/ s # req'[d].session => NothingOf(log'[s], d)
    BY <2>1, <2>2 DEF StoryFits, Keeps
  <2>4. pc[d] # "new" => Keeps(log[req[d].session], log'[req[d].session], d)
    BY <1>2, <2>1
  <2>5. pc[d] # "new" /\ Unanswered(d) => Unanswered(d)'
    BY <2>1, <2>4 DEF Unanswered, Keeps
  <2>6. pc[d] # "new" =>
          /\ NothingOf(log[req[d].session], d) => NothingOf(log'[req[d].session], d)
          /\ PairOf(log[req[d].session], d, reply[d]) => PairOf(log'[req[d].session], d, reply[d])
          /\ TripleOf(log[req[d].session], d, reply[d]) =>
               TripleOf(log'[req[d].session], d, reply[d])
    BY <2>4 DEF Keeps
  <2> QED
    BY <2>1, <2>2, <2>3, <2>5, <2>6 DEF StoryFits, Asking
<1> QED
  BY <1>1, <1>2

\* A step that writes nothing.
LEMMA StoryMoves ==
  ASSUME StoryInv, Types, NEW r \in Requests, UNCHANGED <<log, req, reply>>,
         \A d \in Requests \ {r} : pc'[d] = pc[d],
         \/ pc[r] = "alerting" /\ pc'[r] = "refused"
         \/ pc[r] \in Asking /\ pc'[r] \in (Asking \ {"skill"}) \cup {"failed"}
  PROVE  StoryInv'
<1> SUFFICES ASSUME NEW d \in Requests
             PROVE  StoryFits(d)'
  BY DEF StoryInv
<1>1. StoryFits(d)
  BY DEF StoryInv
<1>2. CASE d = r
  <2>1. Unanswered(r) /\ pc'[r] # "skill" => Unanswered(r)'
    BY DEF Unanswered
  <2> QED
    BY <1>1, <1>2, <2>1 DEF StoryFits, Asking
<1>3. CASE d # r
  BY <1>1, <1>3 DEF StoryFits, Unanswered
<1> QED
  BY <1>2, <1>3

LEMMA StoryRefused ==
  ASSUME StoryInv, Types, NEW r \in Requests, UNCHANGED <<log, reply>>, pc[r] = "new",
         req'[r].session \in Sessions, pc'[r] = "alerting",
         \A d \in Requests \ {r} : pc'[d] = pc[d] /\ req'[d] = req[d]
  PROVE  StoryInv'
<1> SUFFICES ASSUME NEW d \in Requests
             PROVE  StoryFits(d)'
  BY DEF StoryInv
<1>1. StoryFits(d)
  BY DEF StoryInv
<1>2. CASE d = r
  BY <1>1, <1>2 DEF StoryFits, Asking
<1>3. CASE d # r
  BY <1>1, <1>3 DEF StoryFits, Unanswered
<1> QED
  BY <1>2, <1>3

\* A step that only writes to one conversation, and only a turn of r.
LEMMA WritesOwn ==
  ASSUME Types, NEW r \in Requests, NEW s \in Sessions, NEW turn \in Turn, turn.by = r,
         log' = [log EXCEPT ![s] = Append(log[s], turn)]
  PROVE  /\ \A d \in Requests \ {r}, u \in Sessions : Keeps(log[u], log'[u], d)
         /\ \A u \in Sessions \ {s} : log'[u] = log[u]
         /\ log'[s] = Append(log[s], turn)
<1>1. log[s] \in Seq(Turn)
  BY DEF Types
<1>2. /\ \A u \in Sessions \ {s} : log'[u] = log[u]
      /\ log'[s] = Append(log[s], turn)
  BY DEF Types
<1>3. ASSUME NEW d \in Requests \ {r}, NEW u \in Sessions
      PROVE  Keeps(log[u], log'[u], d)
  <2>1. CASE u = s
    BY <1>1, <1>2, <2>1, OtherTurn
  <2>2. CASE u # s
    BY <1>2, <2>2 DEF Keeps
  <2> QED
    BY <2>1, <2>2
<1> QED
  BY <1>2, <1>3

LEMMA StoryAsked ==
  ASSUME StoryInv, Types, NEW r \in Requests, NEW q \in Request, pc[r] = "new",
         log' = [log EXCEPT ![q.session] = Append(log[q.session], Asked(r, q.text))],
         reply' = reply, req'[r] = q, pc'[r] \in Asking,
         \A d \in Requests \ {r} : pc'[d] = pc[d] /\ req'[d] = req[d]
  PROVE  StoryInv'
<1>1. PICK s \in Sessions : s = q.session
  BY RequestTyped
<1>2. PICK turn \in Turn : turn = Asked(r, q.text) /\ turn.by = r
  BY RequestTyped, AskedTyped DEF Asked, Said
<1>3. /\ \A d \in Requests \ {r}, u \in Sessions : Keeps(log[u], log'[u], d)
      /\ \A u \in Sessions \ {s} : log'[u] = log[u]
      /\ log'[s] = Append(log[s], turn)
  BY <1>1, <1>2, WritesOwn
<1>4. \A u \in Sessions : NothingOf(log[u], r)
  BY DEF StoryInv, StoryFits
<1>5. QuestionOf(log'[s], r)
  BY <1>1, <1>2, <1>3, <1>4, QuestionStored, RequestTyped DEF Types
<1>6. StoryFits(r)'
  BY <1>1, <1>3, <1>4, <1>5 DEF StoryFits, Unanswered, Asking
<1>7. \A d \in Requests : pc[d] # "new" => req[d].session \in Sessions
  BY RequestTyped DEF Types
<1> QED
  BY <1>3, <1>6, <1>7, OthersStory

LEMMA StoryAnswered ==
  ASSUME StoryInv, Types, NEW r \in Requests, pc[r] \in Asking, NEW content \in Content,
         Answer(r, req[r].session, log[req[r].session], content), req' = req
  PROVE  StoryInv'
<1>1. PICK s \in Sessions : s = req[r].session
  BY RequestTyped DEF Types, Asking
<1>2. PICK turn \in Turn : turn = Said("assistant", content, r) /\ turn.by = r
  BY SaidTyped DEF Said
<1>3. log' = [log EXCEPT ![s] = Append(log[s], turn)]
  BY <1>1, <1>2 DEF Answer
<1>4. /\ \A d \in Requests \ {r}, u \in Sessions : Keeps(log[u], log'[u], d)
      /\ \A u \in Sessions \ {s} : log'[u] = log[u]
      /\ log'[s] = Append(log[s], turn)
  BY <1>2, <1>3, WritesOwn
<1>5. /\ pc'[r] = "replied" /\ reply'[r] = content
      /\ \A d \in Requests \ {r} : pc'[d] = pc[d] /\ reply'[d] = reply[d]
  <2>1. log[s] \in Seq(Turn)
    BY DEF Types
  <2> QED
    BY <1>1, <2>1, Answered
<1>6. StoryFits(r)
  BY DEF StoryInv
<1>7. PairOf(log'[s], r, content) \/ (TripleOf(log'[s], r, content) /\ req[r].text \in Skilled)
  <2>1. /\ log[s] \in Seq(Turn)
        /\ QuestionOf(log[s], r) \/ (PairOf(log[s], r, Empty) /\ req[r].text \in Skilled)
    BY <1>1, <1>6 DEF StoryFits, Unanswered, Types
  <2>2. CASE QuestionOf(log[s], r)
    BY <1>2, <1>4, <2>1, <2>2, AnswerStored
  <2>3. CASE PairOf(log[s], r, Empty)
    <3>1. TripleOf(Append(log[s], Said("assistant", content, r)), r, content)
      BY <2>1, <2>3, AnswerStoredAgain
    <3>2. ~QuestionOf(log[s], r)
      BY <2>3 DEF QuestionOf, PairOf
    <3> QED
      BY <1>2, <1>4, <2>1, <3>1, <3>2
  <2> QED
    BY <2>1, <2>2, <2>3
<1>8. StoryFits(r)'
  BY <1>1, <1>4, <1>5, <1>6, <1>7 DEF StoryFits, Asking
<1>9. \A d \in Requests : pc[d] # "new" => req[d].session \in Sessions
  BY RequestTyped DEF Types
<1> QED
  BY <1>4, <1>5, <1>8, <1>9, OthersStory

\* A skill that returns nothing leaves its empty turn, and the request goes on.
LEMMA StoryBlank ==
  ASSUME StoryInv, ChatInv, NEW r \in Requests, pc[r] = "skill", UNCHANGED <<req, reply>>,
         log' = [log EXCEPT ![req[r].session] =
                   Append(log[req[r].session], Said("assistant", Empty, r))],
         NEW s, NEW messages, NEW stage, Proceed(r, s, messages, stage),
         stage \in {"compress", "rag", "lookup"}
  PROVE  StoryInv'
<1>1. Types /\ req[r].text \in Skilled
  BY DEF ChatInv, OwnTurn
<1>2. PICK u \in Sessions : u = req[r].session
  BY <1>1, RequestTyped DEF Types
<1>3. Empty \in Content
  BY DEF Content
<1>4. PICK turn \in Turn : turn = Said("assistant", Empty, r) /\ turn.by = r
  BY <1>3, SaidTyped DEF Said
<1>5. /\ \A d \in Requests \ {r}, t \in Sessions : Keeps(log[t], log'[t], d)
      /\ \A t \in Sessions \ {u} : log'[t] = log[t]
      /\ log'[u] = Append(log[u], turn)
  BY <1>1, <1>2, <1>4, WritesOwn
<1>6. pc'[r] = stage /\ \A d \in Requests \ {r} : pc'[d] = pc[d]
  BY <1>1 DEF Proceed, Types
<1>7. StoryFits(r)
  BY DEF StoryInv
<1>8. PairOf(log'[u], r, Empty)
  <2>1. QuestionOf(log[u], r) /\ log[u] \in Seq(Turn)
    BY <1>1, <1>2, <1>7 DEF StoryFits, Unanswered, Asking, Types
  <2> QED
    BY <1>3, <1>4, <1>5, <2>1, AnswerStored
<1>9. Unanswered(r)'
  BY <1>1, <1>2, <1>6, <1>8 DEF Unanswered
<1>10. StoryFits(r)'
  BY <1>2, <1>5, <1>6, <1>7, <1>9 DEF StoryFits, Asking
<1>11. \A d \in Requests : pc[d] # "new" => req[d].session \in Sessions
  BY <1>1, RequestTyped DEF Types
<1> QED
  BY <1>1, <1>5, <1>6, <1>10, <1>11, OthersStory

\* A request that is stored and answered at once.
LEMMA StoryQuick ==
  ASSUME StoryInv, Types, NEW r \in Requests, NEW q \in Request, pc[r] = "new",
         Answer(r, q.session, Append(log[q.session], Asked(r, q.text)), <<"quick">>),
         req'[r] = q, \A d \in Requests \ {r} : req'[d] = req[d]
  PROVE  StoryInv'
<1>1. PICK s \in Sessions : s = q.session
  BY RequestTyped
<1>2. PICK asked \in Turn : asked = Asked(r, q.text) /\ asked.by = r
  BY RequestTyped, AskedTyped DEF Asked, Said
<1>3. PICK content \in Content : content = <<"quick">>
  BY DEF Content
<1>4. PICK told \in Turn : told = Said("assistant", content, r) /\ told.by = r
  BY SaidTyped DEF Said
<1>5. log[s] \in Seq(Turn)
  BY DEF Types
<1>6. PICK stored \in Seq(Turn) : stored = Append(log[s], asked)
  BY <1>5, AppendProperties
<1>7. /\ log'[s] = Append(stored, told)
      /\ \A u \in Sessions \ {s} : log'[u] = log[u]
  <2>1. log' = [log EXCEPT ![s] = Append(stored, told)]
    BY <1>1, <1>2, <1>3, <1>4, <1>6 DEF Answer
  <2> QED
    BY <2>1 DEF Types
<1>8. /\ pc'[r] = "replied" /\ reply'[r] = content
      /\ \A d \in Requests \ {r} : pc'[d] = pc[d] /\ reply'[d] = reply[d]
  <2>1. Answer(r, s, stored, content)
    BY <1>1, <1>2, <1>3, <1>6
  <2> QED
    BY <2>1, Answered
<1>9. ASSUME NEW d \in Requests \ {r}, NEW u \in Sessions
      PROVE  Keeps(log[u], log'[u], d)
  <2>1. CASE u = s
    <3>1. Keeps(log[s], stored, d)
      BY <1>2, <1>5, <1>6, OtherTurn
    <3>2. Keeps(stored, Append(stored, told), d)
      BY <1>4, OtherTurn
    <3> QED
      BY <1>7, <2>1, <3>1, <3>2 DEF Keeps
  <2>2. CASE u # s
    BY <1>7, <2>2 DEF Keeps
  <2> QED
    BY <2>1, <2>2
<1>10. \A u \in Sessions : NothingOf(log[u], r)
  BY DEF StoryInv, StoryFits
<1>11. PairOf(log'[s], r, content)
  <2>1. QuestionOf(stored, r)
    BY <1>2, <1>5, <1>6, <1>10, QuestionStored, RequestTyped
  <2> QED
    BY <1>4, <1>7, <2>1, AnswerStored
<1>12. StoryFits(r)'
  BY <1>1, <1>7, <1>8, <1>10, <1>11 DEF StoryFits, Asking
<1>13. \A d \in Requests : pc[d] # "new" => req[d].session \in Sessions
  BY RequestTyped DEF Types
<1> QED
  BY <1>8, <1>9, <1>12, <1>13, OthersStory

LEMMA StoryArrive ==
  ASSUME StoryInv, ChatInv, NEW r \in Requests, NEW q \in Request,
         Arrive(r, q) \/ StreamStart(r, q)
  PROVE  StoryInv'
<1>1. /\ Types /\ pc[r] = "new" /\ req' = [req EXCEPT ![r] = q]
      /\ req'[r] = q /\ \A d \in Requests \ {r} : req'[d] = req[d]
  BY DEF ChatInv, Types, OfRequests, Arrive, StreamStart
<1>2. q.session \in Sessions
  BY RequestTyped
<1> DEFINE stored == Append(log[q.session], Asked(r, q.text))
<1>3. CASE log' = log /\ End(r, "alerting") /\ reply' = reply
  <2>1. pc'[r] = "alerting" /\ \A d \in Requests \ {r} : pc'[d] = pc[d]
    BY <1>1, <1>3, Moved DEF Places
  <2> QED
    BY <1>1, <1>2, <1>3, <2>1, StoryRefused
<1>4. CASE /\ log' = [log EXCEPT ![q.session] = stored] /\ reply' = reply
           /\ pc'[r] \in Asking /\ \A d \in Requests \ {r} : pc'[d] = pc[d]
  BY <1>1, <1>4, StoryAsked
<1>5. CASE Answer(r, q.session, stored, <<"quick">>)
  BY <1>1, <1>5, StoryQuick
<1>6. CASE ArriveUnsafe(r, q) \/ ArriveLimited(r, q)
  BY <1>3, <1>6 DEF ArriveUnsafe, ArriveLimited
<1>7. CASE StreamStart(r, q)
  <2>1. pc'[r] = "streaming" /\ \A d \in Requests \ {r} : pc'[d] = pc[d]
    BY <1>1, <1>7, Moved DEF StreamStart, Places
  <2> QED
    BY <1>4, <1>7, <2>1 DEF StreamStart, Asking
<1>8. CASE ArriveAdmitted(r, q)
  <2> DEFINE recent == LastOf(stored, HistoryLimit)
  <2>1. CASE log' = [log EXCEPT ![q.session] = stored] /\ End(r, "skill") /\ reply' = reply
    <3>1. pc'[r] = "skill" /\ \A d \in Requests \ {r} : pc'[d] = pc[d]
      BY <1>1, <2>1, Moved DEF Places
    <3> QED
      BY <1>4, <2>1, <3>1 DEF Asking
  <2>2. CASE /\ log' = [log EXCEPT ![q.session] = stored] /\ reply' = reply
             /\ Proceed(r, q.session, recent, Stage(recent, q.rag))
    <3>1. PICK stage \in {"compress", "rag", "lookup"} : stage = Stage(recent, q.rag)
      BY StagePlaces
    <3>2. pc'[r] = stage /\ \A d \in Requests \ {r} : pc'[d] = pc[d]
      BY <1>1, <2>2, <3>1 DEF Proceed, Types
    <3> QED
      BY <1>4, <2>2, <3>2 DEF Asking
  <2> QED
    BY <1>5, <1>8, <2>1, <2>2 DEF ArriveAdmitted
<1> QED
  BY <1>1, <1>6, <1>7, <1>8 DEF Arrive

\* A request that goes on from where it waits, and writes nothing.
LEMMA StoryProceeds ==
  ASSUME StoryInv, Types, NEW r \in Requests, pc[r] \in Asking, NEW s, NEW messages, NEW stage,
         Proceed(r, s, messages, stage), stage \in {"compress", "rag", "lookup"},
         UNCHANGED <<log, req, reply>>
  PROVE  StoryInv'
<1>1. pc'[r] = stage /\ \A d \in Requests \ {r} : pc'[d] = pc[d]
  BY DEF Proceed, Types
<1> QED
  BY <1>1, StoryMoves DEF Asking

LEMMA StoryServed ==
  ASSUME StoryInv, ChatInv, NEW r \in Requests, Serve(r)
  PROVE  StoryInv'
<1>1. Types
  BY DEF ChatInv
<1>2. ASSUME NEW place, End(r, place)
      PROVE  pc'[r] = place /\ \A d \in Requests \ {r} : pc'[d] = pc[d]
  BY <1>1, <1>2 DEF End, Types
<1>3. CASE Refuse(r)
  BY <1>1, <1>2, <1>3, StoryMoves DEF Refuse
<1>4. CASE SkillEnds(r)
  <2>1. <<"skill", r>> \in Content
    BY DEF Content
  <2> DEFINE s      == req[r].session
             recent == LastOf(log[s], HistoryLimit)
             stored == Append(log[s], Said("assistant", Empty, r))
             blank  == LastOf(stored, HistoryLimit)
  <2>2. CASE Answer(r, s, log[s], <<"skill", r>>)
    BY <1>1, <1>4, <2>1, <2>2, StoryAnswered DEF SkillEnds, Asking
  <2>3. CASE Proceed(r, s, recent, Stage(recent, req[r].rag)) /\ UNCHANGED <<log, reply>>
    BY <1>1, <1>4, <2>3, StoryProceeds, StagePlaces DEF SkillEnds, Asking
  <2>4. CASE /\ log' = [log EXCEPT ![s] = stored]
             /\ Proceed(r, s, blank, Stage(blank, req[r].rag))
             /\ UNCHANGED reply
    BY <1>4, <2>4, StoryBlank, StagePlaces DEF SkillEnds
  <2> QED
    BY <1>4, <2>2, <2>3, <2>4 DEF SkillEnds
<1>5. CASE Summarized(r)
  BY <1>1, <1>5, StoryProceeds DEF Summarized, Asking
<1>6. CASE RagEnds(r)
  BY <1>1, <1>6, StoryProceeds DEF RagEnds, Asking
<1>7. CASE CacheHit(r)
  <2>1. cache[key[r]] \in Content
    <3>1. Generated(cache[key[r]], key[r][2])
      BY <1>7 DEF CacheHit, Hit, ChatInv, CacheFits
    <3> QED
      BY <3>1 DEF Generated, Content
  <2> QED
    BY <1>1, <1>7, <2>1, StoryAnswered DEF CacheHit, Asking
<1>8. CASE CacheMiss(r)
  BY <1>1, <1>2, <1>8, StoryMoves DEF CacheMiss, Asking
<1>9. CASE ProbeEnds(r)
  <2>1. CASE End(r, "llm") /\ UNCHANGED <<log, reply>>
    BY <1>1, <1>2, <1>9, <2>1, StoryMoves DEF ProbeEnds, Asking
  <2>2. CASE Answer(r, req[r].session, log[req[r].session], <<"fallback", req[r].text>>)
    <3>1. req[r].text \in Texts
      BY <1>1, <1>9, RequestTyped DEF Types, ProbeEnds
    <3>2. <<"fallback", req[r].text>> \in Content
      BY <3>1 DEF Content
    <3> QED
      BY <1>1, <1>9, <2>2, <3>2, StoryAnswered DEF ProbeEnds, Asking
  <2> QED
    BY <1>9, <2>1, <2>2 DEF ProbeEnds
<1>10. CASE LlmEnds(r)
  BY <1>1, <1>2, <1>10, StoryMoves DEF LlmEnds, Asking
<1>11. CASE CacheWritten(r)
  <2>1. CASE End(r, "tools") /\ UNCHANGED <<log, reply>>
    BY <1>1, <1>2, <1>11, <2>1, StoryMoves DEF CacheWritten, Asking
  <2>2. CASE Answer(r, req[r].session, log[req[r].session], raw[r])
    <3>1. raw[r] \in Content
      <4>1. raw[r] \in {<<"answer", r>>, <<"directive", r>>, Empty}
        BY <1>11 DEF CacheWritten, ChatInv, QuestionFits
      <4> QED
        BY <4>1 DEF Content
    <3> QED
      BY <1>1, <1>11, <2>2, <3>1, StoryAnswered DEF CacheWritten, Asking
  <2> QED
    BY <1>11, <2>1, <2>2 DEF CacheWritten
<1>12. CASE ToolsEnd(r)
  <2>1. <<"results", r>> \in Content
    BY DEF Content
  <2> QED
    BY <1>1, <1>12, <2>1, StoryAnswered DEF ToolsEnd, Asking
<1>13. CASE Fail(r)
  BY <1>1, <1>2, <1>13, StoryMoves DEF Fail, Asking
<1>14. CASE StreamEnd(r)
  <2>1. <<"stream", r>> \in Content /\ Empty \in Content
    BY DEF Content
  <2> QED
    BY <1>1, <1>14, <2>1, StoryAnswered DEF StreamEnd, Asking
<1> QED
  BY <1>3, <1>4, <1>5, <1>6, <1>7, <1>8, <1>9, <1>10, <1>11, <1>12, <1>13, <1>14 DEF Serve

LEMMA StoryRest ==
  ASSUME StoryInv, UNCHANGED <<log, req, reply>>,
         \A r \in Requests :
           pc'[r] = pc[r] \/ (pc'[r] = "lost" /\ pc[r] \in Asking \cup {"alerting"})
  PROVE  StoryInv'
<1> SUFFICES ASSUME NEW r \in Requests
             PROVE  StoryFits(r)'
  BY DEF StoryInv
<1>1. StoryFits(r)
  BY DEF StoryInv
<1>2. CASE pc'[r] = pc[r]
  BY <1>1, <1>2 DEF StoryFits, Unanswered
<1>3. CASE pc'[r] = "lost" /\ pc[r] \in Asking \cup {"alerting"}
  <2>1. Unanswered(r) => Unanswered(r)'
    BY <1>3 DEF Unanswered
  <2>2. pc[r] = "alerting" => NothingOf(log[req[r].session], r)
    BY <1>1 DEF StoryFits
  <2>3. pc[r] \in Asking => Unanswered(r)
    BY <1>1 DEF StoryFits
  <2>4. \A s \in Sessions : s # req[r].session => NothingOf(log[s], r)
    BY <1>1 DEF StoryFits
  <2> QED
    BY <1>3, <2>1, <2>2, <2>3, <2>4 DEF StoryFits, Asking
<1> QED
  BY <1>2, <1>3

LEMMA StoryInit == Init => StoryInv
<1> SUFFICES ASSUME Init, NEW r \in Requests
             PROVE  StoryFits(r)
  BY DEF StoryInv
<1>1. pc[r] = "new" /\ \A s \in Sessions : log[s] = <<>>
  BY DEF Init
<1>2. NothingOf(<<>>, r)
  BY DEF NothingOf, By
<1> QED
  BY <1>1, <1>2 DEF StoryFits, Asking

LEMMA StoryNext == StoryInv /\ ChatInv /\ [Next]_vars => StoryInv'
<1> SUFFICES ASSUME StoryInv, ChatInv, [Next]_vars
             PROVE  StoryInv'
  OBVIOUS
<1>1. CASE Tick \/ UNCHANGED vars \/ \E k \in DOMAIN cache : Expire(k)
  <2>1. UNCHANGED <<log, req, reply, pc>>
    BY <1>1 DEF Tick, vars, Expire
  <2>2. \A r \in Requests : pc'[r] = pc[r]
    BY <2>1
  <2>3. UNCHANGED <<log, req, reply>>
    BY <2>1
  <2> QED
    BY <2>2, <2>3, StoryRest
<1>2. ASSUME NEW r \in Requests, NEW q \in Request, Arrive(r, q) \/ StreamStart(r, q)
      PROVE  StoryInv'
  BY <1>2, StoryArrive
<1>3. ASSUME NEW r \in Requests, Serve(r)
      PROVE  StoryInv'
  BY <1>3, StoryServed
<1>4. ASSUME NEW keepCache \in BOOLEAN, Restart(keepCache)
      PROVE  StoryInv'
  <2>1. UNCHANGED <<log, req, reply>>
    BY <1>4 DEF Restart
  <2>2. ASSUME NEW r \in Requests
        PROVE  pc'[r] = pc[r] \/ (pc'[r] = "lost" /\ pc[r] \in Asking \cup {"alerting"})
    <3>1. pc[r] \in Places
      BY DEF ChatInv, Types
    <3>2. CASE pc[r] \in {"new", "refused", "replied", "failed", "lost"}
      BY <1>4, <3>2 DEF Restart, InFlight
    <3>3. CASE pc[r] \notin {"new", "refused", "replied", "failed", "lost"}
      <4>1. pc'[r] = "lost"
        BY <1>4, <3>3 DEF Restart, InFlight
      <4>2. pc[r] \in Asking \cup {"alerting"}
        BY <3>1, <3>3 DEF Asking, Places
      <4> QED
        BY <4>1, <4>2
    <3> QED
      BY <3>2, <3>3
  <2> QED
    BY <2>1, <2>2, StoryRest
<1> QED
  BY <1>1, <1>2, <1>3, <1>4 DEF Next

\* Where a request is tells what its conversation holds of it: nothing, its question,
\* or its question and the answer it returned, and after the question the empty turn of
\* a skill that returned nothing; another conversation holds nothing
\* (MemoryDB.add_message as OmniAgent.chat calls it).
THEOREM StoryInvariant == Spec => []StoryInv
<1> QED
  BY StoryInit, StoryNext, ChatInvariant, PTL DEF Spec

\* What the conversation holds of a request, by the turns of the two roles.
LEMMA TurnsTold ==
  ASSUME StoryInv, ChatInv, NEW r \in Requests, NEW s \in Sessions, ~NothingOf(log[s], r)
  PROVE  /\ pc[r] \notin {"new", "alerting", "refused"} /\ s = req[r].session
         /\ \/ pc[r] # "replied" /\ QuestionOf(log[s], r)
            \/ pc[r] # "replied" /\ PairOf(log[s], r, Empty) /\ req[r].text \in Skilled
            \/ pc[r] = "replied" /\ PairOf(log[s], r, reply[r])
            \/ pc[r] = "replied" /\ TripleOf(log[s], r, reply[r]) /\ req[r].text \in Skilled
<1>1. StoryFits(r) /\ pc[r] \in Places
  BY DEF StoryInv, ChatInv, Types
<1>2. pc[r] # "new" /\ s = req[r].session
  BY <1>1 DEF StoryFits
<1>3. pc[r] \notin {"alerting", "refused"}
  BY <1>1, <1>2 DEF StoryFits
<1>4. pc[r] = "replied" \/ Unanswered(r)
  BY <1>1, <1>2, <1>3 DEF StoryFits, Places, Asking
<1>5. CASE pc[r] = "replied"
  BY <1>1, <1>2, <1>3, <1>5 DEF StoryFits
<1>6. CASE pc[r] # "replied"
  BY <1>2, <1>3, <1>4, <1>6 DEF Unanswered
<1> QED
  BY <1>5, <1>6

\* The positions of a conversation are numbers.
LEMMA ByNumbers ==
  ASSUME Types, NEW s \in Sessions, NEW r, NEW role
  PROVE  By(log[s], r, role) \subseteq Nat
<1>1. PICK n \in Nat : DOMAIN log[s] = 1..n
  BY LenProperties DEF Types
<1> QED
  BY <1>1 DEF By

\* A conversation pairs every answer with the question before it: no request is
\* stored twice or in two sessions, and none is answered that was not stored; only a
\* skill that returned nothing leaves a turn before the answer.
THEOREM Paired == Spec => []TurnsPaired
<1>1. StoryInv /\ ChatInv => TurnsPaired
  <2> SUFFICES ASSUME StoryInv, ChatInv, NEW r \in Requests, NEW s \in Sessions
               PROVE  /\ Cardinality(Turns(s, r, "user")) <= 1
                      /\ Cardinality(Turns(s, r, "assistant")) <= 2
                      /\ \A i, j \in Turns(s, r, "assistant") :
                           i < j => log[s][i].content = Empty /\ req[r].text \in Skilled
                      /\ \A i \in Turns(s, r, "assistant") : \E j \in Turns(s, r, "user") : j < i
                      /\ Turns(s, r, "user") # {} => s = req[r].session
    BY DEF TurnsPaired
  <2>1. /\ Turns(s, r, "user") = By(log[s], r, "user")
        /\ Turns(s, r, "assistant") = By(log[s], r, "assistant")
        /\ By(log[s], r, "user") \subseteq Nat /\ By(log[s], r, "assistant") \subseteq Nat
    BY ByNumbers DEF Turns, By, ChatInv
  <2>2. Cardinality({}) = 0 /\ \A i : Cardinality({i}) = 1
    BY FS_EmptySet, FS_Singleton
  <2>3. CASE NothingOf(log[s], r)
    BY <2>1, <2>2, <2>3 DEF NothingOf
  <2>4. ASSUME ~NothingOf(log[s], r), NEW j \in Nat, By(log[s], r, "user") = {j},
               NEW i \in Nat, By(log[s], r, "assistant") \in {{}, {i}}, j < i
        PROVE  /\ Cardinality(Turns(s, r, "user")) <= 1
               /\ Cardinality(Turns(s, r, "assistant")) <= 2
               /\ \A h, k \in Turns(s, r, "assistant") : ~(h < k)
               /\ \A k \in Turns(s, r, "assistant") : \E h \in Turns(s, r, "user") : h < k
    <3>1. Cardinality({j}) = 1 /\ Cardinality({i}) = 1
      BY <2>2
    <3> QED
      BY <2>1, <2>2, <2>4, <3>1
  <2>5. ASSUME ~NothingOf(log[s], r), QuestionOf(log[s], r)
        PROVE  \E i, j \in Nat : /\ By(log[s], r, "user") = {j}
                                 /\ By(log[s], r, "assistant") \in {{}, {i}} /\ j < i
    <3>1. PICK j : By(log[s], r, "user") = {j}
      BY <2>5 DEF QuestionOf
    <3>2. j \in Nat /\ j + 1 \in Nat /\ j < j + 1
      BY <2>1, <3>1
    <3> QED
      BY <2>5, <3>1, <3>2 DEF QuestionOf
  <2>6. ASSUME NEW content, PairOf(log[s], r, content)
        PROVE  \E i, j \in Nat : /\ By(log[s], r, "user") = {j}
                                 /\ By(log[s], r, "assistant") \in {{}, {i}} /\ j < i
    <3>1. PICK i, j : By(log[s], r, "user") = {j} /\ By(log[s], r, "assistant") = {i} /\ j < i
      BY <2>6 DEF PairOf
    <3> QED
      BY <2>1, <3>1
  <2>7. CASE TripleOf(log[s], r, reply[r]) /\ req[r].text \in Skilled
    <3>1. PICK h, i, j : /\ By(log[s], r, "user") = {j} /\ By(log[s], r, "assistant") = {h, i}
                         /\ j < h /\ h < i /\ log[s][h].content = Empty
      BY <2>7 DEF TripleOf
    <3>2. h \in Nat /\ i \in Nat /\ j \in Nat
      BY <2>1, <3>1
    <3>3. Cardinality({h, i}) = 2
      <4>1. h # i
        BY <3>1, <3>2
      <4>2. Cardinality({h}) = 1 /\ IsFiniteSet({h}) /\ i \notin {h}
        BY <4>1, FS_Singleton
      <4>3. Cardinality({h} \cup {i}) = Cardinality({h}) + 1
        BY <4>2, FS_AddElement
      <4>4. Cardinality({h} \cup {i}) = 2
        BY <4>2, <4>3
      <4>5. {h} \cup {i} = {h, i}
        OBVIOUS
      <4> QED
        BY <4>4, <4>5
    <3>8. Cardinality({j}) = 1
      BY <2>2
    <3>4. ~NothingOf(log[s], r)
      BY <3>1 DEF NothingOf
    <3>5. \A k, m \in {h, i} : k < m => k = h
      BY <3>1, <3>2
    <3>6. \A k \in {h, i} : j < k
      BY <3>1, <3>2
    <3>7. s = req[r].session
      BY <3>4, TurnsTold
    <3>9. Turns(s, r, "user") = {j} /\ Turns(s, r, "assistant") = {h, i}
      BY <2>1, <3>1
    <3>10. \A k, m \in {h, i} : k < m => log[s][k].content = Empty /\ req[r].text \in Skilled
      BY <2>7, <3>1, <3>5
    <3> QED
      BY ONLY <3>3, <3>6, <3>7, <3>8, <3>9, <3>10
  <2>8. CASE ~NothingOf(log[s], r) /\ ~TripleOf(log[s], r, reply[r])
    <3>1. s = req[r].session /\ (QuestionOf(log[s], r) \/ \E content : PairOf(log[s], r, content))
      BY <2>8, TurnsTold
    <3>2. PICK i, j \in Nat : /\ By(log[s], r, "user") = {j}
                              /\ By(log[s], r, "assistant") \in {{}, {i}} /\ j < i
      BY <2>5, <2>6, <2>8, <3>1
    <3> QED
      BY <2>4, <2>8, <3>1, <3>2
  <2>9. ASSUME TripleOf(log[s], r, reply[r])
        PROVE  req[r].text \in Skilled
    <3>1. PICK h, i, j : By(log[s], r, "assistant") = {h, i} /\ h < i /\ By(log[s], r, "user") = {j}
      BY <2>9 DEF TripleOf
    <3>2. h \in Nat /\ i \in Nat /\ h # i
      BY <2>1, <3>1
    <3>3. /\ ~NothingOf(log[s], r) /\ ~QuestionOf(log[s], r)
          /\ \A content : ~PairOf(log[s], r, content)
      BY <3>1, <3>2 DEF NothingOf, QuestionOf, PairOf
    <3> QED
      BY <3>3, TurnsTold
  <2> QED
    BY <2>3, <2>7, <2>8, <2>9
<1> QED
  BY <1>1, StoryInvariant, ChatInvariant, PTL

\* What the caller is told is the last that the conversation holds of the request, and
\* only then; a refused request leaves no trace, a failed or lost one only its question
\* and the empty turn of its skill; a directive of the LLM to this request was executed.
THEOREM ToldIsStored == Spec => []ReplyStored
<1>1. StoryInv /\ ChatInv => ReplyStored
  <2> SUFFICES ASSUME StoryInv, ChatInv, NEW r \in Requests
               PROVE  /\ pc[r] \in {"new", "alerting", "refused"} =>
                           \A s \in Sessions : Turns(s, r, "user") = {}
                      /\ pc[r] = "replied" => \E s \in Sessions : Turns(s, r, "assistant") # {}
                      /\ \A s \in Sessions : \A i \in Turns(s, r, "assistant") :
                           IF pc[r] = "replied" /\ \A j \in Turns(s, r, "assistant") : j <= i
                           THEN log[s][i].content = reply[r]
                           ELSE log[s][i].content = Empty /\ req[r].text \in Skilled
                      /\ reply[r] # <<"directive", r>>
    BY DEF ReplyStored
  <2>1. \A s \in Sessions : /\ Turns(s, r, "user") = By(log[s], r, "user")
                            /\ Turns(s, r, "assistant") = By(log[s], r, "assistant")
    BY DEF Turns, By
  <2>2. reply[r] # <<"directive", r>>
    BY DEF ChatInv, QuestionFits
  <2>3. ASSUME pc[r] \in {"new", "alerting", "refused"}, NEW s \in Sessions
        PROVE  Turns(s, r, "user") = {}
    <3>1. NothingOf(log[s], r)
      BY <2>3, TurnsTold
    <3> QED
      BY <2>1, <3>1 DEF NothingOf
  <2>4. ASSUME pc[r] = "replied"
        PROVE  \E s \in Sessions : Turns(s, r, "assistant") # {}
    <3>1. PICK s \in Sessions : s = req[r].session
      BY <2>4, RequestTyped DEF ChatInv, Types
    <3>2. PairOf(log[s], r, reply[r]) \/ TripleOf(log[s], r, reply[r])
      BY <2>4, <3>1 DEF StoryInv, StoryFits
    <3>3. By(log[s], r, "assistant") # {}
      BY <3>2 DEF PairOf, TripleOf
    <3> QED
      BY <2>1, <3>3
  <2>5. ASSUME NEW s \in Sessions, NEW i \in Turns(s, r, "assistant")
        PROVE  IF pc[r] = "replied" /\ \A j \in Turns(s, r, "assistant") : j <= i
               THEN log[s][i].content = reply[r]
               ELSE log[s][i].content = Empty /\ req[r].text \in Skilled
    <3>1. i \in By(log[s], r, "assistant") /\ By(log[s], r, "assistant") \subseteq Nat
      BY <2>1, <2>5, ByNumbers DEF ChatInv
    <3>2. ~NothingOf(log[s], r) /\ ~QuestionOf(log[s], r)
      BY <3>1 DEF NothingOf, QuestionOf
    <3>3. CASE pc[r] # "replied" /\ PairOf(log[s], r, Empty) /\ req[r].text \in Skilled
      BY <3>1, <3>3 DEF PairOf
    <3>4. CASE pc[r] = "replied" /\ PairOf(log[s], r, reply[r])
      <4>1. PICK k : By(log[s], r, "assistant") = {k} /\ log[s][k].content = reply[r]
        BY <3>4 DEF PairOf
      <4>2. i = k /\ Turns(s, r, "assistant") = {i} /\ i <= i
        BY <2>1, <3>1, <4>1
      <4> QED
        BY <3>4, <4>1, <4>2
    <3>5. CASE pc[r] = "replied" /\ TripleOf(log[s], r, reply[r]) /\ req[r].text \in Skilled
      <4>1. PICK h, k : /\ By(log[s], r, "assistant") = {h, k} /\ h < k
                        /\ log[s][h].content = Empty /\ log[s][k].content = reply[r]
        BY <3>5 DEF TripleOf
      <4>2. h \in Nat /\ k \in Nat /\ ~(k <= h) /\ h <= k /\ k <= k
        BY <3>1, <4>1
      <4>3. Turns(s, r, "assistant") = {h, k}
        BY <2>1, <4>1
      <4>4. CASE i = h
        BY <3>5, <4>1, <4>2, <4>3, <4>4
      <4>5. CASE i = k
        BY <3>5, <4>1, <4>2, <4>3, <4>5
      <4> QED
        BY <3>1, <4>1, <4>4, <4>5
    <3> QED
      BY <3>2, <3>3, <3>4, <3>5, TurnsTold
  <2> QED
    BY <2>2, <2>3, <2>4, <2>5
<1> QED
  BY <1>1, StoryInvariant, ChatInvariant, PTL

-----------------------------------------------------------------------------
\* Who counts for a user at a time.
CountedOf(u, t) == {a \in admitted : a[1] = u /\ a[2] <= t /\ Counts(a[2], Window, t)}

\* From now on, the bucket of a user counts what was admitted.
BucketFits(u) ==
  /\ Ordered(bucket[u], now)
  /\ \A t \in Nat : t >= now =>
       Cardinality(FreshAt(bucket[u], Window, t)) = Cardinality(CountedOf(u, t))

LimitInv ==
  /\ now \in Nat
  /\ bucket \in [Users -> Seq(Nat)]
  /\ \A a \in admitted : a[2] \in Nat /\ a[2] <= now /\ a[3] \in Requests /\ pc[a[3]] # "new"
  /\ \A u \in Users : BucketFits(u)
  /\ \A u \in Users, t \in Nat :
       IsFiniteSet(CountedOf(u, t)) /\ Cardinality(CountedOf(u, t)) <= Limit

LEMMA LimitBegins == Init => LimitInv
<1> SUFFICES ASSUME Init
             PROVE  LimitInv
  OBVIOUS
<1>1. now \in Nat /\ bucket \in [Users -> Seq(Nat)] /\ admitted = {}
  BY DEF Init
<1>2. \A u, t : CountedOf(u, t) = {}
  BY <1>1 DEF CountedOf
<1>3. IsFiniteSet({}) /\ Cardinality({}) = 0
  BY FS_EmptySet
<1>4. ASSUME NEW u \in Users
      PROVE  BucketFits(u)
  <2>1. bucket[u] = <<>> /\ Ordered(bucket[u], now)
    BY DEF Init, Ordered
  <2>2. \A t \in Nat : FreshAt(bucket[u], Window, t) = {}
    BY <2>1 DEF FreshAt
  <2> QED
    BY <1>2, <2>1, <2>2 DEF BucketFits
<1>5. 0 <= Limit
  BY ChatAssumption
<1> QED
  BY <1>1, <1>2, <1>3, <1>4, <1>5 DEF LimitInv

\* What the limiter keeps of a bucket is what it counts.
LEMMA RecentFits ==
  ASSUME LimitInv, NEW u \in Users
  PROVE  /\ Ordered(Recent(u), now)
         /\ Len(Recent(u)) = Cardinality(CountedOf(u, now))
         /\ \A t \in Nat : t >= now =>
              Cardinality(FreshAt(Recent(u), Window, t)) = Cardinality(CountedOf(u, t))
<1>1. Window \in Nat /\ now \in Nat /\ BucketFits(u)
  BY ChatAssumption DEF LimitInv
<1>2. /\ Ordered(Recent(u), now)
      /\ Len(Recent(u)) = Cardinality(FreshAt(bucket[u], Window, now))
      /\ \A t \in Nat : t >= now => Cardinality(FreshAt(Recent(u), Window, t)) =
                                    Cardinality(FreshAt(bucket[u], Window, t))
  BY <1>1, PrunedFits DEF BucketFits, Recent
<1> QED
  BY <1>1, <1>2 DEF BucketFits

\* Nobody is admitted, and one bucket may be pruned.
LEMMA NobodyAdmitted ==
  ASSUME LimitInv, admitted' = admitted, now' \in Nat, now' >= now,
         \A r \in Requests : pc[r] # "new" => pc'[r] # "new",
         bucket' = bucket \/ (\E u \in Users : bucket' = [bucket EXCEPT ![u] = Recent(u)])
  PROVE  LimitInv'
<1>1. \A u, t : CountedOf(u, t)' = CountedOf(u, t)
  BY DEF CountedOf
<1>2. \A a \in admitted : a[2] \in Nat /\ a[2] <= now' /\ a[3] \in Requests /\ pc'[a[3]] # "new"
  BY DEF LimitInv
<1>3. ASSUME NEW u \in Users
      PROVE  /\ bucket'[u] \in Seq(Nat) /\ Ordered(bucket'[u], now)
             /\ \A t \in Nat : t >= now =>
                  Cardinality(FreshAt(bucket'[u], Window, t)) = Cardinality(CountedOf(u, t))
  <2>1. bucket'[u] = bucket[u] \/ bucket'[u] = Recent(u)
    BY DEF LimitInv
  <2>2. CASE bucket'[u] = bucket[u]
    BY <2>2 DEF LimitInv, BucketFits
  <2>3. CASE bucket'[u] = Recent(u)
    BY <2>3, RecentFits DEF Ordered
  <2> QED
    BY <2>1, <2>2, <2>3
<1>4. bucket' \in [Users -> Seq(Nat)]
  BY <1>3 DEF LimitInv
<1>5. ASSUME NEW u \in Users
      PROVE  BucketFits(u)'
  <2>1. Ordered(bucket'[u], now')
    BY <1>3 DEF LimitInv, Ordered
  <2>2. \A t \in Nat : t >= now' => t >= now
    BY DEF LimitInv
  <2> QED
    BY <1>1, <1>3, <2>1, <2>2 DEF BucketFits
<1> QED
  BY <1>1, <1>2, <1>4, <1>5 DEF LimitInv

\* A request is admitted.
LEMMA AdmittedFits ==
  ASSUME LimitInv, NEW r \in Requests, NEW u \in Users, pc[r] = "new", pc'[r] # "new",
         \A d \in Requests : pc[d] # "new" => pc'[d] # "new",
         Len(Recent(u)) < Limit, now' = now,
         bucket' = [bucket EXCEPT ![u] = Append(Recent(u), now)],
         admitted' = admitted \cup {<<u, now, r>>}
  PROVE  LimitInv'
<1>1. now \in Nat /\ Window \in Nat \ {0} /\ Limit \in Nat
  BY ChatAssumption DEF LimitInv
<1>2. PICK new : /\ admitted' = admitted \cup {new}
                 /\ new[1] = u /\ new[2] = now /\ new[3] = r
  <2>1. <<u, now, r>>[1] = u /\ <<u, now, r>>[2] = now /\ <<u, now, r>>[3] = r
    OBVIOUS
  <2> QED
    BY <2>1
<1>3. new \notin admitted
  BY <1>2 DEF LimitInv
<1>4. \A a \in admitted' : a[2] \in Nat /\ a[2] <= now' /\ a[3] \in Requests /\ pc'[a[3]] # "new"
  <2> SUFFICES ASSUME NEW a \in admitted'
               PROVE  a[2] \in Nat /\ a[2] <= now' /\ a[3] \in Requests /\ pc'[a[3]] # "new"
    OBVIOUS
  <2>1. CASE a \in admitted
    BY <2>1 DEF LimitInv
  <2>2. CASE a = new
    BY <1>1, <1>2, <2>2
  <2> QED
    BY <1>2, <2>1, <2>2
<1>5. ASSUME NEW v, NEW t \in Nat, v # u \/ t < now \/ ~Counts(now, Window, t)
      PROVE  CountedOf(v, t)' = CountedOf(v, t)
  BY <1>1, <1>2, <1>5 DEF CountedOf
<1>6. ASSUME NEW t \in Nat, t >= now, Counts(now, Window, t)
      PROVE  CountedOf(u, t)' = CountedOf(u, t) \cup {new} /\ new \notin CountedOf(u, t)
  BY <1>1, <1>2, <1>3, <1>6 DEF CountedOf
<1>7. /\ Ordered(Recent(u), now) /\ Len(Recent(u)) = Cardinality(CountedOf(u, now))
      /\ \A t \in Nat : t >= now =>
           Cardinality(FreshAt(Recent(u), Window, t)) = Cardinality(CountedOf(u, t))
  BY RecentFits
<1>8. /\ Ordered(Append(Recent(u), now), now)
      /\ \A t \in Nat : Counts(now, Window, t) =>
           Cardinality(FreshAt(Append(Recent(u), now), Window, t)) =
             Cardinality(FreshAt(Recent(u), Window, t)) + 1
      /\ \A t \in Nat : ~Counts(now, Window, t) =>
           Cardinality(FreshAt(Append(Recent(u), now), Window, t)) =
             Cardinality(FreshAt(Recent(u), Window, t))
  BY <1>1, <1>7, LongerFits
<1>9. /\ bucket' \in [Users -> Seq(Nat)] /\ bucket'[u] = Append(Recent(u), now)
      /\ \A v \in Users : v # u => bucket'[v] = bucket[v]
  BY <1>8 DEF LimitInv, Ordered
<1>10. \A v \in Users, t \in Nat : IsFiniteSet(CountedOf(v, t))
  BY DEF LimitInv
<1>11. ASSUME NEW t \in Nat, t >= now, Counts(now, Window, t)
       PROVE  /\ IsFiniteSet(CountedOf(u, t)')
              /\ Cardinality(CountedOf(u, t)') = Cardinality(CountedOf(u, t)) + 1
  BY <1>6, <1>10, <1>11, FS_AddElement
<1>12. ASSUME NEW v \in Users
       PROVE  BucketFits(v)'
  <2>1. CASE v # u
    <3>1. \A t \in Nat : CountedOf(v, t)' = CountedOf(v, t)
      BY <1>5, <2>1
    <3> QED
      BY <1>9, <2>1, <3>1 DEF LimitInv, BucketFits
  <2>2. CASE v = u
    <3>1. ASSUME NEW t \in Nat, t >= now
          PROVE  Cardinality(FreshAt(bucket'[u], Window, t)) = Cardinality(CountedOf(u, t)')
      <4>1. CASE Counts(now, Window, t)
        BY <1>7, <1>8, <1>9, <1>11, <3>1, <4>1
      <4>2. CASE ~Counts(now, Window, t)
        <5>1. CountedOf(u, t)' = CountedOf(u, t)
          BY <1>5, <4>2
        <5> QED
          BY <1>7, <1>8, <1>9, <3>1, <4>2, <5>1
      <4> QED
        BY <4>1, <4>2
    <3> QED
      BY <1>8, <1>9, <2>2, <3>1 DEF BucketFits
  <2> QED
    BY <2>1, <2>2
<1>13. ASSUME NEW v \in Users, NEW t \in Nat
       PROVE  IsFiniteSet(CountedOf(v, t)') /\ Cardinality(CountedOf(v, t)') <= Limit
  <2>1. CASE v # u \/ t < now \/ ~Counts(now, Window, t)
    <3>1. CountedOf(v, t)' = CountedOf(v, t)
      BY <1>5, <2>1
    <3> QED
      BY <3>1 DEF LimitInv
  <2>2. CASE v = u /\ t >= now /\ Counts(now, Window, t)
    <3>1. CountedOf(u, t) \subseteq CountedOf(u, now)
      <4>1. ASSUME NEW a \in CountedOf(u, t)
            PROVE  a \in CountedOf(u, now)
        <5>1. a \in admitted /\ a[1] = u /\ Counts(a[2], Window, t) /\ a[2] \in Nat /\ a[2] <= now
          BY <4>1 DEF CountedOf, LimitInv
        <5>2. Counts(a[2], Window, now)
          BY <1>1, <2>2, <5>1 DEF Counts
        <5> QED
          BY <5>1, <5>2 DEF CountedOf
      <4> QED
        BY <4>1
    <3>2. Cardinality(CountedOf(u, t)) <= Cardinality(CountedOf(u, now))
      BY <1>1, <1>10, <3>1, FS_Subset
    <3>3. /\ Cardinality(CountedOf(u, t)) \in Nat /\ Cardinality(CountedOf(u, now)) \in Nat
      BY <1>1, <1>10, FS_CardinalityType
    <3> QED
      BY <1>1, <1>7, <1>11, <2>2, <3>2, <3>3
  <2> QED
    BY <1>1, <2>1, <2>2
<1> QED
  BY <1>1, <1>4, <1>9, <1>12, <1>13 DEF LimitInv

\* What is not new stays so.
LEMMA OnceAsked ==
  ASSUME ChatInv, [Next]_vars, NEW d \in Requests, pc[d] # "new"
  PROVE  pc'[d] # "new"
<1>1. pc \in [Requests -> Places]
  BY DEF ChatInv, Types
<1>2. ASSUME NEW r \in Requests, NEW place, End(r, place), place # "new"
      PROVE  pc'[d] # "new"
  BY <1>1, <1>2 DEF End
<1>3. ASSUME NEW r \in Requests, NEW s, NEW messages, NEW rag, Proceed(r, s, messages, Stage(messages, rag))
      PROVE  pc'[d] # "new"
  BY <1>1, <1>3, StagePlaces DEF Proceed
<1>4. ASSUME NEW r \in Requests, NEW s, NEW messages, NEW stage \in {"rag", "lookup"},
             Proceed(r, s, messages, stage)
      PROVE  pc'[d] # "new"
  BY <1>1, <1>4 DEF Proceed
<1>5. ASSUME NEW r \in Requests, NEW s, NEW l, NEW content, Answer(r, s, l, content)
      PROVE  pc'[d] # "new"
  BY <1>2, <1>5 DEF Answer
<1>6. ASSUME NEW r \in Requests, NEW q \in Request, Arrive(r, q) \/ StreamStart(r, q)
      PROVE  pc'[d] # "new"
  BY <1>2, <1>3, <1>5, <1>6
     DEF Arrive, ArriveUnsafe, ArriveLimited, ArriveAdmitted, StreamStart
<1>7. ASSUME NEW r \in Requests, Serve(r)
      PROVE  pc'[d] # "new"
  <2>1. CASE SkillEnds(r)
    BY <1>3, <1>5, <2>1 DEF SkillEnds
  <2>2. CASE Summarized(r) \/ RagEnds(r)
    BY <1>4, <2>2 DEF Summarized, RagEnds
  <2>3. CASE \/ Refuse(r) \/ CacheHit(r) \/ CacheMiss(r) \/ ProbeEnds(r) \/ LlmEnds(r)
             \/ CacheWritten(r) \/ ToolsEnd(r) \/ Fail(r) \/ StreamEnd(r)
    BY <1>2, <1>5, <2>3
       DEF Refuse, CacheHit, CacheMiss, ProbeEnds, LlmEnds, CacheWritten, ToolsEnd, Fail, StreamEnd
  <2> QED
    BY <1>7, <2>1, <2>2, <2>3 DEF Serve
<1>8. ASSUME NEW keepCache \in BOOLEAN, Restart(keepCache)
      PROVE  pc'[d] # "new"
  BY <1>8 DEF Restart, InFlight
<1>9. CASE Tick \/ UNCHANGED vars \/ \E k \in DOMAIN cache : Expire(k)
  BY <1>9 DEF Tick, vars, Expire
<1> QED
  BY <1>6, <1>7, <1>8, <1>9 DEF Next

LEMMA LimitNext == LimitInv /\ ChatInv /\ [Next]_vars => LimitInv'
<1> SUFFICES ASSUME LimitInv, ChatInv, [Next]_vars
             PROVE  LimitInv'
  OBVIOUS
<1>1. \A d \in Requests : pc[d] # "new" => pc'[d] # "new"
  BY OnceAsked
<1>2. now \in Nat
  BY DEF LimitInv
<1>3. ASSUME UNCHANGED <<bucket, admitted>>, now' \in Nat, now' >= now
      PROVE  LimitInv'
  BY <1>1, <1>3, NobodyAdmitted
<1>4. CASE Tick
  BY <1>2, <1>3, <1>4 DEF Tick
<1>5. CASE UNCHANGED vars \/ \E k \in DOMAIN cache : Expire(k)
  <2>1. UNCHANGED <<now, bucket, admitted>>
    BY <1>5 DEF vars, Expire
  <2> QED
    BY <1>2, <1>3, <2>1
<1>6. ASSUME NEW r \in Requests, NEW q \in Request, Arrive(r, q)
      PROVE  LimitInv'
  <2>1. q.user \in Users /\ pc[r] = "new" /\ now' = now
    BY <1>6, RequestTyped DEF Arrive
  <2>2. CASE ArriveUnsafe(r, q)
    BY <1>2, <1>3, <2>1, <2>2 DEF ArriveUnsafe
  <2>3. CASE ArriveLimited(r, q)
    <3>1. admitted' = admitted /\ now' \in Nat /\ now' >= now
      BY <1>2, <2>1, <2>3 DEF ArriveLimited
    <3>2. bucket' = [bucket EXCEPT ![q.user] = Recent(q.user)]
      BY <2>3 DEF ArriveLimited
    <3>3. \E u \in Users : bucket' = [bucket EXCEPT ![u] = Recent(u)]
      BY <2>1, <3>2
    <3> QED
      BY <1>1, <3>1, <3>3, NobodyAdmitted
  <2>4. CASE ArriveAdmitted(r, q)
    <3>1. /\ Len(Recent(q.user)) < Limit
          /\ bucket' = [bucket EXCEPT ![q.user] = Append(Recent(q.user), now)]
          /\ admitted' = admitted \cup {<<q.user, now, r>>}
      BY <2>4 DEF ArriveAdmitted
    <3>2. pc'[r] # "new"
      <4>1. pc \in [Requests -> Places]
        BY DEF ChatInv, Types
      <4> QED
        BY <2>4, <4>1, StagePlaces DEF ArriveAdmitted, Answer, End, Proceed
    <3> QED
      BY <1>1, <2>1, <3>1, <3>2, AdmittedFits
  <2> QED
    BY <1>6, <2>2, <2>3, <2>4 DEF Arrive
<1>7. ASSUME NEW r \in Requests, NEW q \in Request, StreamStart(r, q)
      PROVE  LimitInv'
  BY <1>2, <1>3, <1>7 DEF StreamStart
<1>8. ASSUME NEW r \in Requests, Serve(r)
      PROVE  LimitInv'
  <2>1. UNCHANGED <<now, bucket, admitted>>
    BY <1>8 DEF Serve, Refuse, SkillEnds, Summarized, RagEnds, CacheHit, CacheMiss, ProbeEnds,
                LlmEnds, CacheWritten, ToolsEnd, Fail, StreamEnd
  <2> QED
    BY <1>2, <1>3, <2>1
<1>9. ASSUME NEW keepCache \in BOOLEAN, Restart(keepCache)
      PROVE  LimitInv'
  <2>1. bucket' = [u \in Users |-> <<>>] /\ admitted' = {} /\ now' = now
    BY <1>9 DEF Restart
  <2>2. \A u, t : CountedOf(u, t)' = {}
    BY <2>1 DEF CountedOf
  <2>3. IsFiniteSet({}) /\ Cardinality({}) = 0 /\ 0 <= Limit
    BY FS_EmptySet, ChatAssumption
  <2>4. ASSUME NEW u \in Users
        PROVE  BucketFits(u)'
    <3>1. bucket'[u] = <<>> /\ Ordered(bucket'[u], now')
      BY <2>1 DEF Ordered
    <3>2. \A t \in Nat : FreshAt(bucket'[u], Window, t) = {}
      BY <3>1 DEF FreshAt
    <3> QED
      BY <2>2, <3>1, <3>2 DEF BucketFits
  <2>5. bucket' \in [Users -> Seq(Nat)] /\ now' \in Nat
    BY <1>2, <2>1
  <2> QED
    BY <2>1, <2>2, <2>3, <2>4, <2>5 DEF LimitInv
<1> QED
  BY <1>4, <1>5, <1>6, <1>7, <1>8, <1>9 DEF Next

\* The bucket of a user counts, now and later, as many admissions as there were in
\* the window, and no window holds more than Limit (SecurityToolkit.rate_check).
THEOREM LimitInvariant == Spec => []LimitInv
<1> QED
  BY LimitBegins, LimitNext, ChatInvariant, PTL DEF Spec

\* Since the process started, no user was let through more than Limit times in any
\* Window, wherever it begins.
THEOREM UsersWithinLimit == Spec => []WithinLimit
<1>1. LimitInv => WithinLimit
  <2> SUFFICES ASSUME LimitInv, NEW u \in Users, NEW t \in 0..MaxTime
               PROVE  Cardinality({a \in admitted : a[1] = u /\ a[2] <= t /\ t < a[2] + Window}) <= Limit
    BY DEF WithinLimit
  <2>1. t \in Nat /\ Window \in Nat /\ \A a \in admitted : a[2] \in Nat
    BY ChatAssumption DEF LimitInv
  <2>2. {a \in admitted : a[1] = u /\ a[2] <= t /\ t < a[2] + Window} = CountedOf(u, t)
    BY <2>1 DEF CountedOf, Counts
  <2> QED
    BY <2>1, <2>2 DEF LimitInv
<1> QED
  BY <1>1, LimitInvariant, PTL
-----------------------------------------------------------------------------
(***************************************************************************)
(* Proofs about ModelFallback, for any calls, models, chains and rankings. *)
(* A call asks no model twice, and gives up on none it could ask, since    *)
(* what failed and what is left of its attempts never meet and between     *)
(* them hold all it began with.                                            *)
(***************************************************************************)
Stages == {"new", "listing", "listed", "calling", "streaming", "answered", "broken", "exhausted"}

\* The models of a list were Ollama's at a time or later.
TrueSince(models, at) == \E p \in past : p[2] = models /\ p[1] >= at

SharedTypes ==
  /\ time \in Nat \ {0} /\ installed \subseteq ModelIds
  /\ past \subseteq Nat \X (SUBSET ModelIds) /\ <<time, installed>> \in past
  /\ listCache.models \subseteq ModelIds /\ listCache.at \in Nat
  /\ listCache.at # 0 /\ listCache.models # {} => TrueSince(listCache.models, listCache.at)
  /\ unavailable \in [ModelIds -> Nat]
  /\ pinned \in [SessionIds -> ModelIds \cup {NoModel}]
  /\ stats \in [ModelIds -> [good : Nat, bad : Nat]]

CallTypes ==
  /\ progress \in [Calls -> Stages]
  /\ decision \in [Calls -> ModelIds \cup {NoModel}]
  /\ began \in [Calls -> Nat]
  /\ list \in [Calls -> SUBSET ModelIds]
  /\ order \in [Calls -> Seq(ModelIds)] /\ failed \in [Calls -> Seq(ModelIds)]
  /\ answer \in [Calls -> ModelIds \cup {NoModel}]

\* What is in f and in s is there once.
Apart(f, s) == Different(f) /\ Different(s) /\ ToSet(f) \cap ToSet(s) = {}

\* All the models a call has, or could have, tried are among those of M.
Covered(c, M) ==
  /\ list[c] \subseteq M
  /\ list[c] = {} => ToSet(<<decision[c]>> \o Chain[decision[c]]) \subseteq M

CallFits(c) ==
  /\ began[c] <= time
  /\ progress[c] # "new" => decision[c] \in ModelIds
  /\ progress[c] \in {"new", "listing", "listed"} => failed[c] = <<>> /\ order[c] = <<>>
  /\ progress[c] \in {"new", "listing"} => list[c] = {}
  /\ progress[c] # "answered" => answer[c] = NoModel
  /\ progress[c] = "listed" /\ list[c] # {} => TrueSince(list[c], began[c])
  /\ list[c] # {} => \E p \in past : p[2] = list[c] /\ p[1] + ListTtl > began[c]
  /\ progress[c] = "streaming" => failed[c] = <<>> /\ order[c] # <<>>
  /\ progress[c] = "calling" => order[c] # <<>>
  /\ progress[c] = "exhausted" => order[c] = <<>>
  /\ Apart(failed[c], order[c])
  /\ progress[c] \in {"calling", "exhausted"} => Covered(c, ToSet(failed[c]) \cup ToSet(order[c]))

\* The calls a model answered, and those in which it raised.
Good(m) == {c \in Calls : answer[c] = m}
Bad(m) == {c \in Calls : m \in ToSet(failed[c])}
Counted(m) ==
  /\ IsFiniteSet(Good(m)) /\ stats[m].good = Cardinality(Good(m))
  /\ IsFiniteSet(Bad(m)) /\ stats[m].bad = Cardinality(Bad(m))

FallbackInv ==
  /\ SharedTypes /\ CallTypes
  /\ \A c \in Calls : CallFits(c)
  /\ \A m \in ModelIds : Counted(m)
-----------------------------------------------------------------------------
\* Distinct keeps what is in a sequence, once.
LEMMA DistinctFits ==
  ASSUME NEW X, NEW s \in Seq(X)
  PROVE  /\ Distinct(s) \in Seq(X) /\ Different(Distinct(s))
         /\ ToSet(Distinct(s)) = ToSet(s)
<1> DEFINE K == {i \in DOMAIN s : \A j \in 1..(i - 1) : s[j] # s[i]}
<1>1. K \in SUBSET DOMAIN s
  OBVIOUS
<1>2. PICK r \in Seq(X) : r = Kept(s, K)
  BY <1>1, KeptFits
<1>3. PICK f : Picks(f, r, s, K) /\ \A p, q \in DOMAIN f : p < q => f[p] < f[q]
  BY <1>1, <1>2, KeptFits
<1>4. /\ f \in [DOMAIN r -> K] /\ \A p \in DOMAIN r : r[p] = s[f[p]]
      /\ \A i \in K : \E p \in DOMAIN r : f[p] = i
      /\ \A p, q \in DOMAIN r : p < q => f[p] < f[q]
  BY <1>3 DEF Picks
<1>5. \A i \in K : i \in DOMAIN s /\ i \in Nat /\ \A j \in 1..(i - 1) : s[j] # s[i]
  OBVIOUS
<1>6. \A j \in DOMAIN s : \E i \in K : s[i] = s[j]
  <2>1. SUFFICES ASSUME NEW j \in DOMAIN s
                 PROVE  \E i \in K : s[i] = s[j]
    OBVIOUS
  <2> DEFINE L == {i \in DOMAIN s : s[i] = s[j]}
  <2>2. L \in SUBSET DOMAIN s /\ L # {}
    BY <2>1
  <2>3. PICK i \in L : \A k \in L : i <= k
    BY <2>2, ForemostFits
  <2>4. i \in DOMAIN s /\ s[i] = s[j]
    BY <2>3
  <2>5. ASSUME NEW k \in 1..(i - 1)
        PROVE  s[k] # s[i]
    <3>1. k \in DOMAIN s /\ ~(i <= k)
      BY <2>4
    <3> QED
      BY <2>3, <2>4, <3>1
  <2> QED
    BY <2>4, <2>5
<1> HIDE DEF K
<1>7. ASSUME NEW p \in DOMAIN r, NEW q \in DOMAIN r, p < q
      PROVE  r[p] # r[q]
  <2>1. f[p] \in K /\ f[q] \in K /\ f[p] < f[q] /\ f[p] \in DOMAIN s /\ f[q] \in Nat
    BY <1>4, <1>5, <1>7
  <2>2. f[p] \in 1..(f[q] - 1)
    BY <2>1
  <2> QED
    BY <1>4, <1>5, <2>1, <2>2
<1>8. ToSet(r) = ToSet(s)
  BY <1>4, <1>5, <1>6 DEF ToSet
<1>9. r = Distinct(s)
  BY <1>2 DEF K, Distinct
<1> QED
  BY <1>2, <1>7, <1>8, <1>9 DEF Different

\* A sequence of SetToSeqs holds what is in the set, once.
LEMMA SetToSeqsFits ==
  ASSUME NEW S, IsFiniteSet(S), NEW s \in SetToSeqs(S)
  PROVE  s \in Seq(S) /\ Different(s) /\ ToSet(s) = S
<1>1. PICK n \in Nat : n = Cardinality(S)
  BY FS_CardinalityType
<1>2. s \in [1..n -> S] /\ \A i, j \in 1..n : i # j => s[i] # s[j]
  BY <1>1 DEF SetToSeqs, IsInjective
<1>3. IsFiniteSet(1..n) /\ Cardinality(1..n) = n
  BY FS_Interval
<1>4. s \in Injection(1..n, S)
  BY <1>2 DEF Injection, IsInjective
<1>5. s \in Surjection(1..n, S)
  BY <1>1, <1>3, <1>4, FS_Injection
<1>6. ToSet(s) = S
  BY <1>2, <1>5 DEF Surjection, ToSet
<1>7. s \in Seq(S)
  BY <1>2
<1>8. Different(s)
  BY <1>2 DEF Different
<1> QED
  BY <1>6, <1>7, <1>8

\* The attempts of a call: its chain and every model it takes to be available, once.
LEMMA AttemptOrdersFit ==
  ASSUME NEW m \in ModelIds, NEW A \in SUBSET ModelIds,
         NEW s \in AttemptOrders(m, A)
  PROVE  /\ s \in Seq(ModelIds) /\ Different(s) /\ A \subseteq ToSet(s)
         /\ ToSet(<<m>> \o Chain[m]) \subseteq ToSet(s)
<1>1. Chain[m] \in Seq(ModelIds) /\ IsFiniteSet(ModelIds)
  BY FallbackAssumption
<1>2. PICK t \in Seq(ModelIds) : t = <<m>> \o Chain[m]
  <2>1. <<m>> \in Seq(ModelIds)
    OBVIOUS
  <2> QED
    BY <1>1, <2>1, ConcatProperties
<1>3. PICK chain \in Seq(ModelIds) :
        chain = Distinct(<<m>> \o Chain[m]) /\ Different(chain) /\ ToSet(chain) = ToSet(t)
  BY <1>2, DistinctFits
<1> DEFINE more == A \ ToSet(chain)
<1>4. PICK r \in SetToSeqs(more) : s = chain \o r
  BY <1>3 DEF AttemptOrders
<1>5. IsFiniteSet(more) /\ more \subseteq ModelIds
  BY <1>1, FS_Subset
<1> HIDE DEF more
<1>6. r \in Seq(more) /\ Different(r) /\ ToSet(r) = more
  BY <1>5, SetToSeqsFits
<1>7. r \in Seq(ModelIds)
  BY <1>5, <1>6, ToSetFacts
<1>8. ToSet(chain) \cap ToSet(r) = {}
  BY <1>6 DEF more
<1>9. s \in Seq(ModelIds) /\ Different(s) /\ ToSet(s) = ToSet(chain) \cup ToSet(r)
  <2>1. /\ chain \o r \in Seq(ModelIds) /\ Different(chain \o r)
        /\ ToSet(chain \o r) = ToSet(chain) \cup ToSet(r)
    <3>1. chain \in Seq(ModelIds) /\ Different(chain)
      BY <1>3
    <3>2. Different(r)
      BY <1>6
    <3> QED
      BY ONLY <3>1, <3>2, <1>7, <1>8, ConcatDifferent
  <2> QED
    BY <1>4, <2>1
<1> QED
  BY <1>2, <1>3, <1>6, <1>9 DEF more
-----------------------------------------------------------------------------
\* What the loop of attempts leaves of s when A is what Ollama has: it skips only
\* models that are not there.
Skips(s, A, r) ==
  /\ r \in Seq(ModelIds) /\ ToSet(r) \subseteq ToSet(s)
  /\ Different(s) => Different(r)
  /\ \A m \in ToSet(s) : m \in ToSet(r) \/ (A # {} /\ m \notin A)

LEMMA AdvanceFits ==
  ASSUME SharedTypes, CallTypes, NEW c \in Calls,
         NEW s \in Seq(ModelIds), NEW A \in SUBSET ModelIds, Advance(c, s, A)
  PROVE  /\ unavailable' \in [ModelIds -> Nat]
         /\ \E r \in Seq(ModelIds) :
              /\ Skips(s, A, r) /\ order' = [order EXCEPT ![c] = r]
              /\ progress' = [progress EXCEPT ![c] = IF r = <<>> THEN "exhausted" ELSE "calling"]
<1> DEFINE fit == {i \in DOMAIN s : A = {} \/ s[i] \in A}
           n == IF fit = {} THEN Len(s) + 1 ELSE Foremost(fit)
<1>1. PICK m \in Nat : m = Len(s) /\ DOMAIN s = 1..m
  OBVIOUS
<1>2. /\ order' = [order EXCEPT ![c] = SubSeq(s, n, Len(s))]
      /\ progress' = [progress EXCEPT ![c] = IF fit = {} THEN "exhausted" ELSE "calling"]
  BY DEF Advance
<1>3. unavailable' \in [ModelIds -> Nat]
  <2>1. \E Q : unavailable' = [x \in ModelIds |-> IF x \in Q THEN time + Cooldown ELSE unavailable[x]]
    BY DEF Advance
  <2>2. Cooldown \in Nat /\ time \in Nat /\ unavailable \in [ModelIds -> Nat]
    BY FallbackAssumption DEF SharedTypes
  <2> QED
    BY <2>1, <2>2
<1>40. /\ \A i : i \in fit <=> i \in DOMAIN s /\ (A = {} \/ s[i] \in A)
       /\ fit = {} => n = Len(s) + 1
       /\ fit # {} => n = Foremost(fit)
  OBVIOUS
<1> HIDE DEF fit, n
<1>4. PICK k \in 0..m : /\ n = k + 1 /\ \A i \in 1..k : A # {} /\ s[i] \notin A
                        /\ fit = {} <=> k = m
  <2>1. CASE fit = {}
    <3>1. n = m + 1 /\ \A i \in 1..m : A # {} /\ s[i] \notin A
      BY <1>1, <1>40, <2>1
    <3> QED
      BY <2>1, <3>1
  <2>2. CASE fit # {}
    <3>1. fit \in SUBSET DOMAIN s
      BY <1>40
    <3>20. Foremost(fit) \in fit /\ \A j \in fit : Foremost(fit) <= j
      BY <2>2, <3>1, ForemostFits
    <3>2. n \in fit /\ \A j \in fit : n <= j
      BY <1>40, <2>2, <3>20
    <3>3. n \in 1..m
      BY <1>1, <3>1, <3>2
    <3>4. ASSUME NEW i \in 1..(n - 1)
          PROVE  A # {} /\ s[i] \notin A
      <4>1. i \in DOMAIN s /\ ~(n <= i)
        BY <1>1, <3>3
      <4> QED
        BY <1>40, <3>2, <4>1
    <3>5. PICK k \in Nat : k = n - 1
      BY <3>3
    <3>6. k \in 0..m /\ n = k + 1 /\ k # m
      BY <3>3, <3>5
    <3> QED
      BY <2>2, <3>4, <3>5, <3>6
  <2> QED
    BY <2>1, <2>2
<1>5. PICK r : r = SubSeq(s, k + 1, Len(s))
  OBVIOUS
<1>6. k \in 0..Len(s)
  BY <1>1
<1>7. /\ r \in Seq(ModelIds) /\ Len(r) = Len(s) - k /\ ToSet(r) \subseteq ToSet(s)
      /\ Different(s) => Different(r)
      /\ \A x \in ToSet(s) : x \in ToSet(r) \/ \E i \in 1..k : s[i] = x
  <2>1. IsEnd(ModelIds, s, k, r)
    BY <1>5, <1>6, EndDifferent
  <2> QED
    BY <2>1 DEF IsEnd
<1>8. Skips(s, A, r)
  BY <1>4, <1>7 DEF Skips
<1>9. r = <<>> <=> fit = {}
  BY <1>1, <1>4, <1>7
<1>10. order' = [order EXCEPT ![c] = r]
  BY <1>2, <1>4, <1>5
<1>11. progress' = [progress EXCEPT ![c] = IF r = <<>> THEN "exhausted" ELSE "calling"]
  BY <1>2, <1>9
<1> QED
  BY <1>3, <1>7, <1>8, <1>10, <1>11

\* The models it puts to rest are not among those of A.
Rested(A) ==
  \A m \in ModelIds :
    unavailable'[m] = unavailable[m] \/ (A # {} /\ m \notin A /\ unavailable'[m] = time + Cooldown)

LEMMA AdvanceRests ==
  ASSUME SharedTypes, NEW c \in Calls,
         NEW s \in Seq(ModelIds), NEW A \in SUBSET ModelIds, Advance(c, s, A)
  PROVE  Rested(A)
<1> DEFINE fit == {i \in DOMAIN s : A = {} \/ s[i] \in A}
           n == IF fit = {} THEN Len(s) + 1 ELSE Foremost(fit)
<1>1. PICK len \in Nat : len = Len(s) /\ DOMAIN s = 1..len
  OBVIOUS
<1>2. unavailable' = [x \in ModelIds |-> IF x \in ToSet(SubSeq(s, 1, n - 1))
                                        THEN time + Cooldown ELSE unavailable[x]]
  BY DEF Advance
<1>3. /\ \A i : i \in fit <=> i \in 1..len /\ (A = {} \/ s[i] \in A)
      /\ fit = {} => n = len + 1
      /\ fit # {} => n = Foremost(fit)
  BY <1>1
<1> HIDE DEF fit, n
<1>4. n \in 1..(len + 1) /\ \A j \in fit : n <= j
  <2>1. CASE fit # {}
    <3>1. fit \in SUBSET DOMAIN s
      BY <1>1, <1>3
    <3>2. Foremost(fit) \in fit /\ \A j \in fit : Foremost(fit) <= j
      BY <2>1, <3>1, ForemostFits
    <3> QED
      BY <1>1, <1>3, <2>1, <3>2
  <2> QED
    BY <1>3, <2>1
<1>5. ASSUME NEW m \in ToSet(SubSeq(s, 1, n - 1))
      PROVE  A # {} /\ m \notin A
  <2>1. PICK k \in Nat : k = n - 1 /\ k <= len
    BY <1>4
  <2>2. /\ SubSeq(s, 1, k) \in Seq(ModelIds) /\ Len(SubSeq(s, 1, k)) = k
        /\ \A i \in 1..k : SubSeq(s, 1, k)[i] = s[i]
    BY <1>1, <2>1
  <2>3. PICK i \in 1..k : m = s[i]
    BY <1>5, <2>1, <2>2 DEF ToSet
  <2>4. i \in 1..len /\ i \notin fit
    BY <1>4, <2>1
  <2> QED
    BY <1>3, <2>3, <2>4
<1> QED
  BY <1>2, <1>5 DEF Rested

\* route() takes a model.
LEMMA RouteFits ==
  ASSUME SharedTypes, CallTypes, NEW c \in Calls, NEW s \in SessionIds,
         NEW ranking \in Rankings, Route(c, s, ranking)
  PROVE  \E m \in ModelIds :
           /\ decision' = [decision EXCEPT ![c] = m]
           /\ pinned[s] = m \/ m = Default \/ ~Resting(m)
<1>1. Default \in ModelIds /\ ranking \in Seq(ModelIds) /\ NoModel \notin ModelIds
  BY FallbackAssumption
<1>2. CASE pinned[s] # NoModel
  BY <1>2 DEF SharedTypes, Route
<1>3. CASE pinned[s] = NoModel
  <2> DEFINE fit == {i \in DOMAIN ranking : ~Resting(ranking[i])}
  <2>1. CASE fit = {}
    BY <1>1, <1>3, <2>1 DEF Route, Best
  <2>2. CASE fit # {}
    <3>1. Foremost(fit) \in fit
      BY <1>1, <2>2, ForemostFits
    <3>2. PICK m : m = ranking[Foremost(fit)]
      OBVIOUS
    <3>3. m \in ModelIds /\ ~Resting(m)
      BY <1>1, <3>1, <3>2
    <3>4. Best(ranking) = m
      BY <2>2, <3>2 DEF Best
    <3>5. decision' = [decision EXCEPT ![c] = m]
      BY <1>3, <3>4 DEF Route
    <3> QED
      BY <3>3, <3>5
  <2> QED
    BY <2>1, <2>2
<1> QED
  BY <1>2, <1>3
-----------------------------------------------------------------------------
\* A call that does not take the step.
LEMMA CallStays ==
  ASSUME NEW d \in Calls, CallFits(d), began[d] \in Nat, time \in Nat, time' \in Nat,
         time <= time', past \subseteq past',
         progress'[d] = progress[d], decision'[d] = decision[d], began'[d] = began[d],
         list'[d] = list[d], order'[d] = order[d], failed'[d] = failed[d], answer'[d] = answer[d]
  PROVE  CallFits(d)'
<1>1. Apart(failed'[d], order'[d])
  BY DEF CallFits
<1>2. progress'[d] \in {"calling", "exhausted"} =>
        Covered(d, ToSet(failed[d]) \cup ToSet(order[d]))
  BY DEF CallFits
<1>3. Covered(d, ToSet(failed[d]) \cup ToSet(order[d])) =>
        Covered(d, ToSet(failed[d]) \cup ToSet(order[d]))'
  <2>1. list'[d] = list[d] /\ decision'[d] = decision[d] /\ failed'[d] = failed[d] /\ order'[d] = order[d]
    OBVIOUS
  <2> QED
    BY ONLY <2>1 DEF Covered, ToSet
<1>4. list'[d] # {} => \E p \in past' : p[2] = list'[d] /\ p[1] + ListTtl > began'[d]
  BY DEF CallFits
<1>5. progress'[d] = "listed" /\ list'[d] # {} => \E p \in past' : p[2] = list'[d] /\ p[1] >= began'[d]
  BY DEF CallFits, TrueSince
<1>6. /\ began'[d] <= time'
      /\ progress'[d] # "new" => decision'[d] \in ModelIds
      /\ progress'[d] \in {"new", "listing", "listed"} => failed'[d] = <<>> /\ order'[d] = <<>>
      /\ progress'[d] \in {"new", "listing"} => list'[d] = {}
      /\ progress'[d] # "answered" => answer'[d] = NoModel
      /\ progress'[d] = "streaming" => failed'[d] = <<>> /\ order'[d] # <<>>
      /\ progress'[d] = "calling" => order'[d] # <<>>
      /\ progress'[d] = "exhausted" => order'[d] = <<>>
  BY DEF CallFits
<1> QED
  BY <1>1, <1>2, <1>3, <1>4, <1>5, <1>6 DEF CallFits, TrueSince, Apart, ToSet, Different

LEMMA CountsStay ==
  ASSUME NEW m \in ModelIds, Counted(m), answer' = answer, failed' = failed, stats'[m] = stats[m]
  PROVE  Counted(m)'
<1>1. Good(m)' = Good(m) /\ Bad(m)' = Bad(m)
  BY DEF Good, Bad, ToSet
<1> QED
  BY <1>1 DEF Counted

\* A step of one call.
LEMMA CallStep ==
  ASSUME FallbackInv, NEW c \in Calls, SharedTypes', CallTypes', time' = time, past' = past,
         \A d \in Calls : d # c =>
           /\ progress'[d] = progress[d] /\ decision'[d] = decision[d] /\ began'[d] = began[d]
           /\ list'[d] = list[d] /\ order'[d] = order[d] /\ failed'[d] = failed[d]
           /\ answer'[d] = answer[d],
         CallFits(c)', \A m \in ModelIds : Counted(m)'
  PROVE  FallbackInv'
<1>1. ASSUME NEW d \in Calls, d # c
      PROVE  CallFits(d)'
  <2>1. began[d] \in Nat /\ time \in Nat /\ time' \in Nat /\ time <= time' /\ past \subseteq past'
    BY DEF FallbackInv, CallTypes, SharedTypes
  <2> QED
    BY <1>1, <2>1, CallStays DEF FallbackInv
<1> QED
  BY <1>1 DEF FallbackInv

\* The steps that are no call's: what was true of a list stays so.
LEMMA OutsideStep ==
  ASSUME FallbackInv, SharedTypes', time <= time', past \subseteq past',
         UNCHANGED <<stats, progress, decision, began, list, order, failed, answer>>
  PROVE  FallbackInv'
<1>1. CallTypes'
  BY DEF FallbackInv, CallTypes
<1>2. ASSUME NEW d \in Calls
      PROVE  CallFits(d)'
  <2>1. began[d] \in Nat /\ time \in Nat /\ time' \in Nat
    BY DEF FallbackInv, CallTypes, SharedTypes
  <2> QED
    BY <2>1, CallStays DEF FallbackInv
<1>3. \A m \in ModelIds : Counted(m)'
  BY CountsStay DEF FallbackInv
<1> QED
  BY <1>1, <1>2, <1>3 DEF FallbackInv

LEMMA OutsideKeeps ==
  ASSUME FallbackInv,
         \/ TimePasses
         \/ \E m \in ModelIds : Install(m)
         \/ \E s \in SessionIds, m \in ModelIds \cup {NoModel} : PinModel(s, m)
  PROVE  FallbackInv'
<1> USE DEF FallbackInv
<1>1. CASE TimePasses
  <2>1. time' = time + 1 /\ past' = past \cup {<<time + 1, installed>>} /\ installed' = installed
        /\ UNCHANGED <<listCache, unavailable, pinned, stats>>
        /\ UNCHANGED <<stats, progress, decision, began, list, order, failed, answer>>
    BY <1>1 DEF TimePasses
  <2>2. SharedTypes'
    BY <2>1 DEF SharedTypes, TrueSince
  <2> QED
    BY <2>1, <2>2, OutsideStep DEF SharedTypes
<1>2. ASSUME NEW m \in ModelIds, Install(m)
      PROVE  FallbackInv'
  <2>1. installed' \subseteq ModelIds /\ past' = past \cup {<<time, installed'>>} /\ time' = time
        /\ UNCHANGED <<listCache, unavailable, pinned, stats>>
        /\ UNCHANGED <<stats, progress, decision, began, list, order, failed, answer>>
    BY <1>2 DEF Install, SharedTypes
  <2>2. SharedTypes'
    BY <2>1 DEF SharedTypes, TrueSince
  <2> QED
    BY <2>1, <2>2, OutsideStep DEF SharedTypes
<1>3. ASSUME NEW s \in SessionIds, NEW m \in ModelIds \cup {NoModel}, PinModel(s, m)
      PROVE  FallbackInv'
  <2>1. pinned' = [pinned EXCEPT ![s] = m] /\ past' = past /\ time' = time
        /\ UNCHANGED <<installed, listCache, unavailable, stats>>
        /\ UNCHANGED <<stats, progress, decision, began, list, order, failed, answer>>
    BY <1>3 DEF PinModel
  <2>2. SharedTypes'
    BY <2>1 DEF SharedTypes, TrueSince
  <2> QED
    BY <2>1, <2>2, OutsideStep DEF SharedTypes
<1> QED
  BY <1>1, <1>2, <1>3
-----------------------------------------------------------------------------
\* The attempts begin: on every model the call takes to be available, or its chain.
Begun(c, m, A) ==
  /\ unavailable' \in [ModelIds -> Nat] /\ list' = [list EXCEPT ![c] = A]
  /\ \E r \in Seq(ModelIds) :
       /\ Different(r) /\ A \subseteq ToSet(r)
       /\ A = {} => ToSet(<<m>> \o Chain[m]) \subseteq ToSet(r)
       /\ order' = [order EXCEPT ![c] = r]
       /\ progress' = [progress EXCEPT ![c] = IF r = <<>> THEN "exhausted" ELSE "calling"]

LEMMA ExecuteFits ==
  ASSUME SharedTypes, CallTypes, NEW c \in Calls, NEW m \in ModelIds,
         NEW A \in SUBSET ModelIds, Execute(c, m, A)
  PROVE  Begun(c, m, A)
<1>1. PICK s \in AttemptOrders(m, A) : Advance(c, s, A)
  BY DEF Execute
<1>2. /\ s \in Seq(ModelIds) /\ Different(s) /\ A \subseteq ToSet(s)
      /\ ToSet(<<m>> \o Chain[m]) \subseteq ToSet(s)
  BY <1>1, AttemptOrdersFit
<1>3. unavailable' \in [ModelIds -> Nat] /\
      \E r \in Seq(ModelIds) :
        /\ Skips(s, A, r) /\ order' = [order EXCEPT ![c] = r]
        /\ progress' = [progress EXCEPT ![c] = IF r = <<>> THEN "exhausted" ELSE "calling"]
  BY <1>1, <1>2, AdvanceFits
<1>4. PICK r \in Seq(ModelIds) :
        /\ Skips(s, A, r) /\ order' = [order EXCEPT ![c] = r]
        /\ progress' = [progress EXCEPT ![c] = IF r = <<>> THEN "exhausted" ELSE "calling"]
  BY <1>3
<1>5. /\ Different(r) /\ A \subseteq ToSet(r)
      /\ A = {} => ToSet(<<m>> \o Chain[m]) \subseteq ToSet(r)
  BY <1>2, <1>4 DEF Skips
<1>6. list' = [list EXCEPT ![c] = A]
  BY DEF Execute
<1> QED
  BY <1>3, <1>4, <1>5, <1>6 DEF Begun

LEMMA ExecuteKeeps ==
  ASSUME FallbackInv, NEW c \in Calls, NEW m \in ModelIds,
         NEW A \in SUBSET ModelIds, Execute(c, m, A), NEW t \in Nat, t <= time,
         failed[c] = <<>>, answer[c] = NoModel,
         decision' = [decision EXCEPT ![c] = m], began' = [began EXCEPT ![c] = t],
         A # {} => \E p \in past : p[2] = A /\ p[1] + ListTtl > t,
         UNCHANGED shared, UNCHANGED <<stats, failed, answer>>,
         listCache'.models \subseteq ModelIds, listCache'.at \in Nat,
         listCache'.at # 0 /\ listCache'.models # {} => TrueSince(listCache'.models, listCache'.at)
  PROVE  FallbackInv'
<1>0. Begun(c, m, A)
  BY ExecuteFits DEF FallbackInv
<1> USE DEF FallbackInv
<1>1. UNCHANGED <<time, installed, pinned, past, stats, failed, answer>>
  BY DEF shared
<1>2. unavailable' \in [ModelIds -> Nat] /\ list' = [list EXCEPT ![c] = A]
  BY <1>0 DEF Begun
<1>3. PICK r \in Seq(ModelIds) :
        /\ Different(r) /\ A \subseteq ToSet(r)
        /\ A = {} => ToSet(<<m>> \o Chain[m]) \subseteq ToSet(r)
        /\ order' = [order EXCEPT ![c] = r]
        /\ progress' = [progress EXCEPT ![c] = IF r = <<>> THEN "exhausted" ELSE "calling"]
  BY ONLY <1>0 DEF Begun
<1>4. SharedTypes'
  BY <1>1, <1>2 DEF SharedTypes, TrueSince
<1>5. CallTypes'
  BY <1>1, <1>2, <1>3 DEF CallTypes, Stages
<1>6. /\ progress'[c] = IF r = <<>> THEN "exhausted" ELSE "calling"
      /\ decision'[c] = m /\ began'[c] = t /\ list'[c] = A /\ order'[c] = r
      /\ failed'[c] = <<>> /\ answer'[c] = NoModel
  BY <1>1, <1>2, <1>3 DEF CallTypes
<1>7. \A d \in Calls : d # c =>
        /\ progress'[d] = progress[d] /\ decision'[d] = decision[d] /\ began'[d] = began[d]
        /\ list'[d] = list[d] /\ order'[d] = order[d] /\ failed'[d] = failed[d]
        /\ answer'[d] = answer[d]
  BY <1>1, <1>2, <1>3 DEF CallTypes
<1>8. CallFits(c)'
  <2>1. Apart(failed'[c], order'[c])
    BY <1>3, <1>6, ToSetFacts DEF Apart, Different
  <2>2. Covered(c, ToSet(failed[c]) \cup ToSet(order[c]))'
    <3>1. /\ list'[c] \subseteq ToSet(order'[c])
          /\ list'[c] = {} => ToSet(<<decision'[c]>> \o Chain[decision'[c]]) \subseteq ToSet(order'[c])
      BY <1>3, <1>6
    <3> QED
      BY <3>1 DEF Covered, ToSet
  <2>3. \E p \in past' : list'[c] # {} => p[2] = list'[c] /\ p[1] + ListTtl > began'[c]
    BY <1>1, <1>6 DEF SharedTypes
  <2>4. progress'[c] \in {"exhausted", "calling"}
    BY <1>6
  <2>5. progress'[c] = "calling" => order'[c] # <<>>
    BY <1>6
  <2>6. progress'[c] = "exhausted" => order'[c] = <<>>
    BY <1>6
  <2>7. began'[c] <= time' /\ decision'[c] \in ModelIds /\ answer'[c] = NoModel
    BY <1>1, <1>6
  <2> QED
    BY <2>1, <2>2, <2>3, <2>4, <2>5, <2>6, <2>7 DEF CallFits, Apart, ToSet, Different
<1>9. \A x \in ModelIds : Counted(x)'
  BY <1>1, CountsStay
<1> QED
  BY <1>1, <1>4, <1>5, <1>7, <1>8, <1>9, CallStep

LEMMA ChatKeeps ==
  ASSUME FallbackInv, NEW c \in Calls, NEW s \in SessionIds,
         NEW ranking \in Rankings, Chat(c, s, ranking)
  PROVE  FallbackInv'
<1> USE DEF FallbackInv
<1>1. PICK m \in ModelIds : decision' = [decision EXCEPT ![c] = m]
  BY RouteFits DEF Chat
<1>2. /\ progress[c] = "new" /\ began' = [began EXCEPT ![c] = time]
      /\ UNCHANGED shared /\ UNCHANGED <<listCache, stats, failed, answer>>
  BY DEF Chat
<1>3. UNCHANGED <<time, installed, pinned, past>>
  BY <1>2 DEF shared
<1>4. failed[c] = <<>> /\ order[c] = <<>> /\ list[c] = {} /\ answer[c] = NoModel
  BY <1>2 DEF CallFits
<1>5. CASE listCache.at # 0 /\ time - listCache.at < ListTtl
  <2>1. Execute(c, m, listCache.models)
    BY <1>1, <1>5 DEF Chat, CallTypes
  <2>2. listCache.models # {} =>
          \E p \in past : p[2] = listCache.models /\ p[1] + ListTtl > time
    <3>1. SUFFICES ASSUME listCache.models # {}
                   PROVE  \E p \in past : p[2] = listCache.models /\ p[1] + ListTtl > time
      OBVIOUS
    <3>2. PICK p \in past : p[2] = listCache.models /\ p[1] >= listCache.at
      BY <1>5, <3>1 DEF SharedTypes, TrueSince
    <3>3. p[1] \in Nat /\ listCache.at \in Nat /\ time \in Nat /\ ListTtl \in Nat
      BY FallbackAssumption DEF SharedTypes
    <3>4. p[1] + ListTtl > time
      BY <1>5, <3>2, <3>3
    <3> QED
      BY <3>2, <3>4
  <2>3. /\ listCache.models \in SUBSET ModelIds /\ listCache'.models \subseteq ModelIds /\ listCache'.at \in Nat
        /\ listCache'.at # 0 /\ listCache'.models # {} => TrueSince(listCache'.models, listCache'.at)
    BY <1>2 DEF SharedTypes
  <2>4. time \in Nat /\ time <= time
    BY DEF SharedTypes
  <2> QED
    BY <1>1, <1>2, <1>4, <2>1, <2>2, <2>3, <2>4, ExecuteKeeps
<1>6. CASE ~(listCache.at # 0 /\ time - listCache.at < ListTtl)
  <2>1. progress' = [progress EXCEPT ![c] = "listing"] /\ UNCHANGED <<list, order, unavailable>>
    BY <1>6 DEF Chat
  <2>2. SharedTypes'
    BY <1>2, <1>3, <2>1 DEF SharedTypes, TrueSince
  <2>3. CallTypes'
    BY <1>1, <1>2, <2>1 DEF CallTypes, Stages, SharedTypes
  <2>4. /\ progress'[c] = "listing" /\ decision'[c] = m /\ began'[c] = time /\ list'[c] = {}
        /\ order'[c] = <<>> /\ failed'[c] = <<>> /\ answer'[c] = NoModel
    BY <1>1, <1>2, <1>4, <2>1 DEF CallTypes
  <2>5. \A d \in Calls : d # c =>
          /\ progress'[d] = progress[d] /\ decision'[d] = decision[d] /\ began'[d] = began[d]
          /\ list'[d] = list[d] /\ order'[d] = order[d] /\ failed'[d] = failed[d]
          /\ answer'[d] = answer[d]
    BY <1>1, <1>2, <2>1 DEF CallTypes
  <2>6. CallFits(c)'
    <3>1. Apart(failed'[c], order'[c])
      BY <2>4 DEF Apart, ToSet, Different
    <3>2. time' \in Nat /\ time' = time
      BY <1>3 DEF SharedTypes
    <3> QED
      BY <2>4, <3>1, <3>2 DEF CallFits, Apart, ToSet, Different
  <2>7. \A x \in ModelIds : Counted(x)'
    BY <1>2, CountsStay
  <2> QED
    BY <1>3, <2>2, <2>3, <2>5, <2>6, <2>7, CallStep
<1> QED
  BY <1>5, <1>6

LEMMA ListedKeeps ==
  ASSUME FallbackInv, NEW c \in Calls, Listed(c)
  PROVE  FallbackInv'
<1> USE DEF FallbackInv
<1>1. /\ progress[c] = "listing" /\ progress' = [progress EXCEPT ![c] = "listed"]
      /\ list' = [list EXCEPT ![c] = installed] \/ list' = list
      /\ UNCHANGED <<time, installed, pinned, past>>
      /\ UNCHANGED <<listCache, unavailable, stats, decision, began, order, failed, answer>>
  BY DEF Listed, shared
<1>2. SharedTypes'
  BY <1>1 DEF SharedTypes, TrueSince
<1>3. CallTypes'
  BY <1>1 DEF CallTypes, Stages, SharedTypes
<1>4. /\ progress'[c] = "listed" /\ failed'[c] = <<>> /\ order'[c] = <<>> /\ answer'[c] = NoModel
      /\ decision'[c] \in ModelIds /\ began'[c] = began[c] /\ began[c] <= time /\ time' = time
      /\ list'[c] = {} \/ list'[c] = installed
  BY <1>1 DEF CallTypes, CallFits
<1>5. \A d \in Calls : d # c =>
        /\ progress'[d] = progress[d] /\ decision'[d] = decision[d] /\ began'[d] = began[d]
        /\ list'[d] = list[d] /\ order'[d] = order[d] /\ failed'[d] = failed[d]
        /\ answer'[d] = answer[d]
  BY <1>1 DEF CallTypes
<1>6. CallFits(c)'
  <2>1. Apart(failed'[c], order'[c])
    BY <1>4 DEF Apart, ToSet, Different
  <2>2. list'[c] # {} => \E p \in past' : p[2] = list'[c] /\ p[1] >= began'[c]
    BY <1>1, <1>4 DEF SharedTypes
  <2>3. list'[c] # {} => \E p \in past' : p[2] = list'[c] /\ p[1] + ListTtl > began'[c]
    <3>1. SUFFICES ASSUME list'[c] # {}
                   PROVE  \E p \in past' : p[2] = list'[c] /\ p[1] + ListTtl > began'[c]
      OBVIOUS
    <3>2. <<time, installed>> \in past' /\ list'[c] = installed
      BY <1>1, <1>4, <3>1 DEF SharedTypes
    <3>3. time \in Nat /\ ListTtl \in Nat \ {0} /\ began'[c] \in Nat
      BY <1>3, FallbackAssumption DEF SharedTypes, CallTypes
    <3>4. time + ListTtl > began'[c]
      BY <1>4, <3>3
    <3> QED
      BY <3>2, <3>4
  <2> QED
    BY <1>4, <2>1, <2>2, <2>3 DEF CallFits, TrueSince, Apart, ToSet, Different
<1>7. \A x \in ModelIds : Counted(x)'
  BY <1>1, CountsStay
<1> QED
  BY <1>1, <1>2, <1>3, <1>5, <1>6, <1>7, CallStep

LEMMA KeepListKeeps ==
  ASSUME FallbackInv, NEW c \in Calls, KeepList(c)
  PROVE  FallbackInv'
<1> USE DEF FallbackInv
<1>1. /\ progress[c] = "listed" /\ Execute(c, decision[c], list[c])
      /\ UNCHANGED shared /\ UNCHANGED <<stats, decision, began, failed, answer>>
      /\ listCache'.models = list[c] /\ listCache'.at = began[c]
  BY DEF KeepList
<1>2. /\ decision[c] \in ModelIds /\ list[c] \in SUBSET ModelIds /\ began[c] \in Nat
      /\ began[c] <= time /\ failed[c] = <<>> /\ answer[c] = NoModel
      /\ list[c] # {} => TrueSince(list[c], began[c])
      /\ list[c] # {} => \E p \in past : p[2] = list[c] /\ p[1] + ListTtl > began[c]
  BY <1>1 DEF CallTypes, CallFits
<1>3. decision' = [decision EXCEPT ![c] = decision[c]] /\ began' = [began EXCEPT ![c] = began[c]]
  BY <1>1 DEF CallTypes
<1>4. /\ listCache'.models \subseteq ModelIds /\ listCache'.at \in Nat
      /\ listCache'.at # 0 /\ listCache'.models # {} => TrueSince(listCache'.models, listCache'.at)
  BY <1>1, <1>2
<1> QED
  BY <1>1, <1>2, <1>3, <1>4, ExecuteKeeps

\* record_call() counts one more call of a model.
LEMMA RecordedFits ==
  ASSUME SharedTypes, NEW m \in ModelIds, NEW kind \in {"good", "bad"}, Recorded(m, kind)
  PROVE  /\ stats' \in [ModelIds -> [good : Nat, bad : Nat]]
         /\ \A x \in ModelIds : x # m => stats'[x] = stats[x]
         /\ kind = "good" => stats'[m].good = stats[m].good + 1 /\ stats'[m].bad = stats[m].bad
         /\ kind = "bad" => stats'[m].bad = stats[m].bad + 1 /\ stats'[m].good = stats[m].good
<1>1. PICK v : v = stats[m] /\ v \in [good : Nat, bad : Nat]
  BY DEF SharedTypes
<1>2. PICK w : w = [v EXCEPT ![kind] = v[kind] + 1]
  OBVIOUS
<1>3. /\ w \in [good : Nat, bad : Nat]
      /\ kind = "good" => w.good = v.good + 1 /\ w.bad = v.bad
      /\ kind = "bad" => w.bad = v.bad + 1 /\ w.good = v.good
  BY <1>1, <1>2
<1>4. stats' = [stats EXCEPT ![m] = w]
  BY <1>1, <1>2 DEF Recorded
<1> QED
  BY <1>1, <1>3, <1>4 DEF SharedTypes

\* A call answered: its model has one answer more.
LEMMA AnswerCounts ==
  ASSUME FallbackInv, NEW c \in Calls, NEW m \in ModelIds, Recorded(m, "good"),
         answer[c] = NoModel, NoModel \notin ModelIds, answer' = [answer EXCEPT ![c] = m], failed' = failed
  PROVE  \A x \in ModelIds : Counted(x)'
<1>1. SUFFICES ASSUME NEW x \in ModelIds
               PROVE  Counted(x)'
  OBVIOUS
<1>2. Counted(x) /\ Bad(x)' = Bad(x)
  BY DEF FallbackInv, Bad, ToSet
<1>3. /\ \A y \in ModelIds : y # m => stats'[y] = stats[y]
      /\ stats'[m].good = stats[m].good + 1 /\ stats'[m].bad = stats[m].bad
  BY RecordedFits DEF FallbackInv
<1>4. CASE x # m
  <2>1. Good(x)' = Good(x)
    BY <1>4 DEF Good, FallbackInv, CallTypes
  <2> QED
    BY <1>2, <1>3, <1>4, <2>1 DEF Counted
<1>5. CASE x = m
  <2>1. Good(m)' = Good(m) \cup {c} /\ c \notin Good(m)
    BY DEF Good, FallbackInv, CallTypes
  <2>2. IsFiniteSet(Good(m) \cup {c}) /\ Cardinality(Good(m) \cup {c}) = Cardinality(Good(m)) + 1
    BY <1>2, <1>5, <2>1, FS_AddElement DEF Counted
  <2> QED
    BY <1>2, <1>3, <1>5, <2>1, <2>2 DEF Counted
<1> QED
  BY <1>4, <1>5

\* A model raised in a call in which it had not.
LEMMA RaiseCounts ==
  ASSUME FallbackInv, NEW c \in Calls, NEW m \in ModelIds, Recorded(m, "bad"),
         m \notin ToSet(failed[c]), failed' = [failed EXCEPT ![c] = Append(failed[c], m)],
         answer' = answer
  PROVE  \A x \in ModelIds : Counted(x)'
<1>1. SUFFICES ASSUME NEW x \in ModelIds
               PROVE  Counted(x)'
  OBVIOUS
<1>2. Counted(x) /\ Good(x)' = Good(x)
  BY DEF FallbackInv, Good
<1>3. /\ \A y \in ModelIds : y # m => stats'[y] = stats[y]
      /\ stats'[m].bad = stats[m].bad + 1 /\ stats'[m].good = stats[m].good
  BY RecordedFits DEF FallbackInv
<1>4. failed[c] \in Seq(ModelIds) /\ Different(failed[c])
  BY DEF FallbackInv, CallTypes, CallFits, Apart
<1>5. ToSet(Append(failed[c], m)) = ToSet(failed[c]) \cup {m}
  BY <1>4, AppendDifferent
<1>6. Bad(x)' = {d \in Calls : x \in ToSet(failed'[d])}
  BY DEF Bad, ToSet
<1>7. ToSet(failed'[c]) = ToSet(failed[c]) \cup {m} /\ \A d \in Calls : d # c => failed'[d] = failed[d]
  BY <1>5 DEF FallbackInv, CallTypes
<1>8. CASE x # m
  <2>1. Bad(x)' = Bad(x)
    BY <1>6, <1>7, <1>8 DEF Bad
  <2> QED
    BY <1>2, <1>3, <1>8, <2>1 DEF Counted
<1>9. CASE x = m
  <2>1. Bad(m)' = Bad(m) \cup {c} /\ c \notin Bad(m)
    BY <1>6, <1>7, <1>9 DEF Bad
  <2>2. IsFiniteSet(Bad(m) \cup {c}) /\ Cardinality(Bad(m) \cup {c}) = Cardinality(Bad(m)) + 1
    BY <1>2, <1>9, <2>1, FS_AddElement DEF Counted
  <2> QED
    BY <1>2, <1>3, <1>9, <2>1, <2>2 DEF Counted
<1> QED
  BY <1>8, <1>9
-----------------------------------------------------------------------------
LEMMA AnswersKeeps ==
  ASSUME FallbackInv, NEW c \in Calls, Answers(c)
  PROVE  FallbackInv'
<1> USE DEF FallbackInv
<1>1. PICK m : m = Head(order[c])
  OBVIOUS
<1>2. /\ progress[c] = "calling" /\ progress' = [progress EXCEPT ![c] = "answered"]
      /\ answer' = [answer EXCEPT ![c] = m] /\ Recorded(m, "good")
      /\ unavailable' = [unavailable EXCEPT ![m] = 0]
      /\ UNCHANGED <<time, installed, pinned, past>>
      /\ UNCHANGED <<listCache, decision, began, list, order, failed>>
  BY <1>1 DEF Answers, shared
<1>3. order[c] \in Seq(ModelIds) /\ order[c] # <<>> /\ answer[c] = NoModel /\ NoModel \notin ModelIds
  BY <1>2, FallbackAssumption DEF CallTypes, CallFits
<1>4. m \in ModelIds
  BY <1>1, <1>3, HeadDifferent
<1>5. SharedTypes'
  <2>1. stats' \in [ModelIds -> [good : Nat, bad : Nat]]
    BY <1>2, <1>4, RecordedFits
  <2> QED
    BY <1>2, <1>4, <2>1 DEF SharedTypes, TrueSince
<1>6. CallTypes'
  BY <1>2, <1>4 DEF CallTypes, Stages
<1>7. /\ progress'[c] = "answered" /\ decision'[c] = decision[c] /\ decision[c] \in ModelIds
      /\ began'[c] = began[c] /\ began[c] <= time /\ list'[c] = list[c]
      /\ order'[c] = order[c] /\ failed'[c] = failed[c]
      /\ list[c] # {} => \E p \in past : p[2] = list[c] /\ p[1] + ListTtl > began[c]
      /\ Apart(failed[c], order[c])
  BY <1>2 DEF CallTypes, CallFits
<1>8. \A d \in Calls : d # c =>
        /\ progress'[d] = progress[d] /\ decision'[d] = decision[d] /\ began'[d] = began[d]
        /\ list'[d] = list[d] /\ order'[d] = order[d] /\ failed'[d] = failed[d]
        /\ answer'[d] = answer[d]
  BY <1>2 DEF CallTypes
<1>9. CallFits(c)'
  <2>1. Apart(failed'[c], order'[c])
    BY <1>7
  <2>2. list'[c] # {} => \E p \in past' : p[2] = list'[c] /\ p[1] + ListTtl > began'[c]
    BY <1>2, <1>7
  <2>3. began'[c] <= time' /\ decision'[c] \in ModelIds /\ progress'[c] = "answered"
    BY <1>2, <1>7
  <2> QED
    BY <2>1, <2>2, <2>3 DEF CallFits, Apart, ToSet, Different
<1>10. \A x \in ModelIds : Counted(x)'
  BY <1>2, <1>3, <1>4, AnswerCounts
<1> QED
  BY <1>2, <1>5, <1>6, <1>8, <1>9, <1>10, CallStep

LEMMA RaisesKeeps ==
  ASSUME FallbackInv, NEW c \in Calls, Raises(c)
  PROVE  FallbackInv'
<1> USE DEF FallbackInv
<1>1. PICK m : m = Head(order[c])
  OBVIOUS
<1>2. PICK s : s = Tail(order[c])
  OBVIOUS
<1>3. PICK f : f = Append(failed[c], m)
  OBVIOUS
<1>4. /\ progress[c] = "calling" /\ failed' = [failed EXCEPT ![c] = Append(failed[c], m)]
      /\ Recorded(m, "bad") /\ Advance(c, s, list[c])
      /\ UNCHANGED <<time, installed, pinned, past>>
      /\ UNCHANGED <<listCache, decision, began, list, answer>>
  BY <1>1, <1>2 DEF Raises, shared
<1>5. /\ order[c] \in Seq(ModelIds) /\ order[c] # <<>> /\ failed[c] \in Seq(ModelIds)
      /\ Apart(failed[c], order[c]) /\ list[c] \in SUBSET ModelIds
      /\ Covered(c, ToSet(failed[c]) \cup ToSet(order[c]))
  BY <1>4 DEF CallTypes, CallFits
<1>6. /\ m \in ModelIds /\ s \in Seq(ModelIds) /\ ToSet(order[c]) = {m} \cup ToSet(s)
      /\ Different(s) /\ m \notin ToSet(s)
  BY <1>1, <1>2, <1>5, HeadDifferent DEF Apart
<1>7. m \notin ToSet(failed[c]) /\ Different(failed[c]) /\ ToSet(failed[c]) \cap ToSet(s) = {}
  BY <1>5, <1>6 DEF Apart
<1>8. f \in Seq(ModelIds) /\ Different(f) /\ ToSet(f) = ToSet(failed[c]) \cup {m}
  BY <1>3, <1>5, <1>6, <1>7, AppendDifferent
<1>9. unavailable' \in [ModelIds -> Nat]
  BY <1>4, <1>5, <1>6, AdvanceFits
<1>10. PICK r \in Seq(ModelIds) :
         /\ Skips(s, list[c], r) /\ order' = [order EXCEPT ![c] = r]
         /\ progress' = [progress EXCEPT ![c] = IF r = <<>> THEN "exhausted" ELSE "calling"]
  BY <1>4, <1>5, <1>6, AdvanceFits
<1>11. SharedTypes'
  <2>1. stats' \in [ModelIds -> [good : Nat, bad : Nat]]
    BY <1>4, <1>6, RecordedFits
  <2> QED
    BY <1>4, <1>9, <2>1 DEF SharedTypes, TrueSince
<1>12. CallTypes'
  BY <1>3, <1>4, <1>8, <1>10 DEF CallTypes, Stages
<1>13. /\ progress'[c] = (IF r = <<>> THEN "exhausted" ELSE "calling")
       /\ decision'[c] = decision[c] /\ decision[c] \in ModelIds
       /\ began'[c] = began[c] /\ began[c] <= time /\ list'[c] = list[c]
       /\ order'[c] = r /\ failed'[c] = f /\ answer'[c] = NoModel
       /\ list[c] # {} => \E p \in past : p[2] = list[c] /\ p[1] + ListTtl > began[c]
  BY <1>3, <1>4, <1>10 DEF CallTypes, CallFits
<1>14. \A d \in Calls : d # c =>
         /\ progress'[d] = progress[d] /\ decision'[d] = decision[d] /\ began'[d] = began[d]
         /\ list'[d] = list[d] /\ order'[d] = order[d] /\ failed'[d] = failed[d]
         /\ answer'[d] = answer[d]
  BY <1>4, <1>10 DEF CallTypes
<1>15. Apart(f, r)
  BY <1>6, <1>7, <1>8, <1>10 DEF Apart, Skips
<1>16. Covered(c, ToSet(f) \cup ToSet(r))
  BY <1>5, <1>6, <1>8, <1>10 DEF Covered, Skips
<1>17. CallFits(c)'
  <2>1. Covered(c, ToSet(failed[c]) \cup ToSet(order[c]))'
    <3>1. Covered(c, ToSet(failed'[c]) \cup ToSet(order'[c]))
      BY <1>13, <1>16
    <3> QED
      BY <1>13, <3>1 DEF Covered, ToSet
  <2>2. Apart(failed'[c], order'[c])
    BY <1>13, <1>15
  <2>3. progress'[c] \in {"exhausted", "calling"}
    BY <1>13
  <2>4. progress'[c] = "calling" => order'[c] # <<>>
    BY <1>13
  <2>5. progress'[c] = "exhausted" => order'[c] = <<>>
    BY <1>13
  <2> QED
    BY <1>4, <1>13, <2>1, <2>2, <2>3, <2>4, <2>5 DEF CallFits, Apart, ToSet, Different
<1>18. \A x \in ModelIds : Counted(x)'
  BY <1>4, <1>6, <1>7, RaiseCounts
<1> QED
  BY <1>4, <1>11, <1>12, <1>14, <1>17, <1>18, CallStep

LEMMA StreamKeeps ==
  ASSUME FallbackInv, NEW c \in Calls, NEW s \in SessionIds,
         NEW ranking \in Rankings, Stream(c, s, ranking)
  PROVE  FallbackInv'
<1> USE DEF FallbackInv
<1>1. PICK m \in ModelIds : decision' = [decision EXCEPT ![c] = m]
  BY RouteFits DEF Stream
<1>2. /\ progress[c] = "new" /\ progress' = [progress EXCEPT ![c] = "streaming"]
      /\ order' = [order EXCEPT ![c] = <<decision'[c]>>]
      /\ UNCHANGED <<time, installed, pinned, past>>
      /\ UNCHANGED <<listCache, unavailable, stats, began, list, failed, answer>>
  BY DEF Stream, shared
<1>3. decision'[c] = m /\ <<m>> \in Seq(ModelIds) /\ order' = [order EXCEPT ![c] = <<m>>]
  BY <1>1, <1>2 DEF CallTypes
<1>4. SharedTypes'
  BY <1>2 DEF SharedTypes, TrueSince
<1>5. CallTypes'
  BY <1>1, <1>2, <1>3 DEF CallTypes, Stages
<1>6. /\ progress'[c] = "streaming" /\ order'[c] = <<m>> /\ failed'[c] = <<>> /\ answer'[c] = NoModel
      /\ list'[c] = {} /\ began'[c] = began[c] /\ began[c] <= time
  BY <1>2, <1>3 DEF CallTypes, CallFits
<1>7. \A d \in Calls : d # c =>
        /\ progress'[d] = progress[d] /\ decision'[d] = decision[d] /\ began'[d] = began[d]
        /\ list'[d] = list[d] /\ order'[d] = order[d] /\ failed'[d] = failed[d]
        /\ answer'[d] = answer[d]
  BY <1>1, <1>2, <1>3 DEF CallTypes
<1>8. CallFits(c)'
  <2>1. Apart(failed'[c], order'[c])
    BY <1>6 DEF Apart, ToSet, Different
  <2>2. order'[c] # <<>>
    BY <1>6
  <2> QED
    BY <1>2, <1>3, <1>6, <2>1, <2>2 DEF CallFits, Apart, ToSet, Different
<1>9. \A x \in ModelIds : Counted(x)'
  BY <1>2, CountsStay
<1> QED
  BY <1>2, <1>4, <1>5, <1>7, <1>8, <1>9, CallStep

LEMMA StreamEndsKeeps ==
  ASSUME FallbackInv, NEW c \in Calls, StreamEnds(c)
  PROVE  FallbackInv'
<1> USE DEF FallbackInv
<1>1. PICK m : m = Head(order[c])
  OBVIOUS
<1>2. /\ progress[c] = "streaming"
      /\ \/ Recorded(m, "good") /\ answer' = [answer EXCEPT ![c] = m] /\ failed' = failed
         \/ Recorded(m, "bad") /\ failed' = [failed EXCEPT ![c] = <<m>>] /\ answer' = answer
      /\ progress' = [progress EXCEPT ![c] = IF answer'[c] = NoModel THEN "broken" ELSE "answered"]
      /\ order' = [order EXCEPT ![c] = <<>>]
      /\ UNCHANGED <<time, installed, pinned, past>>
      /\ UNCHANGED <<listCache, unavailable, decision, began, list>>
  BY <1>1 DEF StreamEnds, shared
<1>3. /\ order[c] \in Seq(ModelIds) /\ order[c] # <<>> /\ failed[c] = <<>>
      /\ answer[c] = NoModel /\ NoModel \notin ModelIds
  BY <1>2, FallbackAssumption DEF CallTypes, CallFits
<1>4. m \in ModelIds
  BY <1>1, <1>3, HeadDifferent
<1>5. PICK f : f = Append(<<>>, m) /\ f = <<m>> /\ f \in Seq(ModelIds) /\ Different(f)
  <2>1. <<m>> = Append(<<>>, m) /\ <<m>> \in Seq(ModelIds)
    BY <1>4
  <2>2. Different(<<m>>)
    BY DEF Different
  <2> QED
    BY <2>1, <2>2
<1>6. stats' \in [ModelIds -> [good : Nat, bad : Nat]]
  BY <1>2, <1>4, RecordedFits
<1>7. SharedTypes'
  BY <1>2, <1>6 DEF SharedTypes, TrueSince
<1>8. CallTypes'
  <2>1. progress' \in [Calls -> Stages]
    BY <1>2 DEF CallTypes, Stages
  <2>2. answer' \in [Calls -> ModelIds \cup {NoModel}] /\ failed' \in [Calls -> Seq(ModelIds)]
    <3>1. failed' = failed \/ failed' = [failed EXCEPT ![c] = f]
      BY <1>2, <1>5
    <3>2. answer' = answer \/ answer' = [answer EXCEPT ![c] = m]
      BY <1>2
    <3>3. failed' \in [Calls -> Seq(ModelIds)]
      BY <1>5, <3>1 DEF CallTypes
    <3>4. answer' \in [Calls -> ModelIds \cup {NoModel}]
      BY <1>4, <3>2 DEF CallTypes
    <3> QED
      BY <3>3, <3>4
  <2>3. order' \in [Calls -> Seq(ModelIds)]
    BY <1>2 DEF CallTypes
  <2> QED
    BY <1>2, <2>1, <2>2, <2>3 DEF CallTypes
<1>9. /\ progress'[c] \in {"broken", "answered"}
      /\ progress'[c] # "answered" => answer'[c] = NoModel
      /\ decision'[c] = decision[c] /\ decision[c] \in ModelIds
      /\ began'[c] = began[c] /\ began[c] <= time /\ list'[c] = list[c] /\ order'[c] = <<>>
      /\ failed'[c] = <<>> \/ failed'[c] = f
      /\ list[c] # {} => \E p \in past : p[2] = list[c] /\ p[1] + ListTtl > began[c]
  BY <1>2, <1>3, <1>5 DEF CallTypes, CallFits
<1>10. \A d \in Calls : d # c =>
         /\ progress'[d] = progress[d] /\ decision'[d] = decision[d] /\ began'[d] = began[d]
         /\ list'[d] = list[d] /\ order'[d] = order[d] /\ failed'[d] = failed[d]
         /\ answer'[d] = answer[d]
  BY <1>2 DEF CallTypes
<1>11. Apart(failed'[c], order'[c])
  BY <1>5, <1>9 DEF Apart, ToSet, Different
<1>12. CallFits(c)'
  <2>1. list'[c] # {} => \E p \in past' : p[2] = list'[c] /\ p[1] + ListTtl > began'[c]
    BY <1>2, <1>9
  <2>2. began'[c] <= time' /\ decision'[c] \in ModelIds
    BY <1>2, <1>9
  <2>3. progress'[c] \notin {"new", "listing", "listed", "streaming", "calling", "exhausted"}
    BY <1>9
  <2>4. progress'[c] # "answered" => answer'[c] = NoModel
    BY <1>9
  <2> QED
    BY <1>11, <2>1, <2>2, <2>3, <2>4 DEF CallFits, Apart, ToSet, Different
<1>13. \A x \in ModelIds : Counted(x)'
  <2>1. m \notin ToSet(failed[c])
    BY <1>3, ToSetFacts
  <2>2. CASE Recorded(m, "good") /\ answer' = [answer EXCEPT ![c] = m] /\ failed' = failed
    BY <1>3, <1>4, <2>2, AnswerCounts
  <2>3. CASE Recorded(m, "bad") /\ failed' = [failed EXCEPT ![c] = <<m>>] /\ answer' = answer
    <3>1. failed' = [failed EXCEPT ![c] = Append(failed[c], m)]
      BY <1>3, <1>5, <2>3
    <3> QED
      BY <1>4, <2>1, <2>3, <3>1, RaiseCounts
  <2> QED
    BY <1>2, <2>2, <2>3
<1> QED
  BY <1>2, <1>7, <1>8, <1>10, <1>12, <1>13, CallStep
-----------------------------------------------------------------------------
\* Whatever calls overlap and whatever models come and go: what failed in a call and
\* what it has left are apart and cover what it began with, a list is true of a time
\* not long before the call, and the counters count (MultiModelClient, ModelRouter).
THEOREM FallbackInvariant == FallbackSpec => []FallbackInv
<1>1. FallbackInit => FallbackInv
  <2> SUFFICES ASSUME FallbackInit
               PROVE  FallbackInv
    OBVIOUS
  <2>1. NoModel \notin ModelIds
    BY FallbackAssumption
  <2>2. SharedTypes
    BY DEF FallbackInit, SharedTypes
  <2>3. CallTypes
    BY DEF FallbackInit, CallTypes, Stages
  <2>4. ASSUME NEW c \in Calls
        PROVE  CallFits(c)
    <3>1. /\ progress[c] = "new" /\ began[c] = 0 /\ time = 1 /\ list[c] = {} /\ order[c] = <<>>
          /\ failed[c] = <<>> /\ answer[c] = NoModel
      BY DEF FallbackInit
    <3>2. Apart(failed[c], order[c])
      BY <3>1 DEF Apart, ToSet, Different
    <3> QED
      BY <3>1, <3>2 DEF CallFits
  <2>5. ASSUME NEW m \in ModelIds
        PROVE  Counted(m)
    <3>1. Good(m) = {} /\ Bad(m) = {}
      BY <2>1, ToSetFacts DEF Good, Bad, FallbackInit
    <3> QED
      BY <3>1, FS_EmptySet DEF Counted, FallbackInit
  <2> QED
    BY <2>2, <2>3, <2>4, <2>5 DEF FallbackInv
<1>2. FallbackInv /\ [FallbackNext]_(fallbackVars) => FallbackInv'
  <2> SUFFICES ASSUME FallbackInv, [FallbackNext]_(fallbackVars)
               PROVE  FallbackInv'
    OBVIOUS
  <2>1. CASE UNCHANGED fallbackVars
    <3>1. UNCHANGED <<time, installed, listCache, unavailable, pinned, past>>
          /\ UNCHANGED <<stats, progress, decision, began, list, order, failed, answer>>
      BY <2>1 DEF fallbackVars
    <3>2. SharedTypes'
      BY <3>1 DEF FallbackInv, SharedTypes, TrueSince
    <3>3. time <= time' /\ past \subseteq past'
      BY <3>1 DEF FallbackInv, SharedTypes
    <3> QED
      BY <3>1, <3>2, <3>3, OutsideStep
  <2>2. CASE \/ TimePasses
             \/ \E m \in ModelIds : Install(m)
             \/ \E s \in SessionIds, m \in ModelIds \cup {NoModel} : PinModel(s, m)
    BY <2>2, OutsideKeeps
  <2>3. CASE \E c \in Calls, s \in SessionIds, ranking \in Rankings :
               Chat(c, s, ranking) \/ Stream(c, s, ranking)
    BY <2>3, ChatKeeps, StreamKeeps
  <2>4. CASE \E c \in Calls : Attempts(c)
    BY <2>4, ListedKeeps, KeepListKeeps, AnswersKeeps, RaisesKeeps, StreamEndsKeeps DEF Attempts
  <2> QED
    BY <2>1, <2>2, <2>3, <2>4 DEF FallbackNext
<1> QED
  BY <1>1, <1>2, PTL DEF FallbackSpec

\* No call asks a model twice, and one gives up only when every model it took to be
\* available raised, or, without a list, its whole chain (_execute_with_fallback).
THEOREM ModelsAskedOnce == FallbackSpec => []EveryModelOnce
<1>1. FallbackInv => EveryModelOnce
  <2> SUFFICES ASSUME FallbackInv, NEW c \in Calls
               PROVE  /\ IsInjective(failed[c] \o order[c])
                      /\ progress[c] = "exhausted" =>
                           /\ list[c] \subseteq ToSet(failed[c])
                           /\ list[c] = {} => ToSet(<<decision[c]>> \o Chain[decision[c]])
                                                \subseteq ToSet(failed[c])
    BY DEF EveryModelOnce, IsInjective
  <2>1. failed[c] \in Seq(ModelIds) /\ order[c] \in Seq(ModelIds) /\ Apart(failed[c], order[c])
    BY DEF FallbackInv, CallTypes, CallFits
  <2>2. PICK r \in Seq(ModelIds) : r = failed[c] \o order[c] /\ Different(r)
    <3>1. failed[c] \o order[c] \in Seq(ModelIds) /\ Different(failed[c] \o order[c])
      BY <2>1, ConcatDifferent DEF Apart
    <3> QED
      BY <3>1
  <2>3. \A a, b \in DOMAIN r : r[a] = r[b] => a = b
    <3>1. SUFFICES ASSUME NEW a \in DOMAIN r, NEW b \in DOMAIN r, a # b
                   PROVE  r[a] # r[b]
      OBVIOUS
    <3>2. a < b \/ b < a
      BY <3>1
    <3> QED
      BY <2>2, <3>2 DEF Different
  <2>4. progress[c] = "exhausted" =>
          ToSet(order[c]) = {} /\ Covered(c, ToSet(failed[c]) \cup ToSet(order[c]))
    BY ToSetFacts DEF FallbackInv, CallFits
  <2>5. progress[c] = "exhausted" =>
          /\ list[c] \subseteq ToSet(failed[c])
          /\ list[c] = {} => ToSet(<<decision[c]>> \o Chain[decision[c]]) \subseteq ToSet(failed[c])
    BY <2>4 DEF Covered
  <2> QED
    BY <2>2, <2>3, <2>5 DEF IsInjective
<1> QED
  BY <1>1, FallbackInvariant, PTL

\* The counters of a model are those of its calls, however these overlap (record_call).
THEOREM CountersOfCalls == FallbackSpec => []StatsMatch
<1>1. FallbackInv => StatsMatch
  BY DEF FallbackInv, Counted, Good, Bad, StatsMatch
<1> QED
  BY <1>1, FallbackInvariant, PTL

\* The list a call works on was Ollama's less than ListTtl before the call or after it
\* began, in whatever order concurrent requests for it come back (_list_ollama_models).
THEOREM ListsRecent == FallbackSpec => []ListFresh
<1>1. FallbackInv => ListFresh
  BY DEF FallbackInv, CallFits, ListFresh
<1> QED
  BY <1>1, FallbackInvariant, PTL

\* What is past is not yet to come, and the models that rest were missing.
RestsInv == (\A p \in past : p[1] <= time) /\ RestsForAbsence

\* The attempts put to rest only what Ollama's list lacks.
LEMMA RestedFits ==
  ASSUME FallbackInv, RestsInv, NEW A, Rested(A), UNCHANGED <<time, past>>,
         A # {} => \E p \in past : p[2] = A
  PROVE  RestsInv'
<1>1. ASSUME NEW m \in ModelIds, unavailable'[m] # 0
      PROVE  \E p \in past : m \notin p[2] /\ p[1] + Cooldown <= unavailable'[m]
  <2>1. CASE unavailable'[m] = unavailable[m]
    BY <1>1, <2>1 DEF RestsInv, RestsForAbsence
  <2>2. CASE A # {} /\ m \notin A /\ unavailable'[m] = time + Cooldown
    <3>1. PICK p \in past : p[2] = A
      BY <2>2
    <3>2. p[1] \in Nat /\ p[1] <= time /\ time \in Nat /\ Cooldown \in Nat
      BY <3>1, FallbackAssumption DEF RestsInv, FallbackInv, SharedTypes
    <3> QED
      BY <2>2, <3>1, <3>2
  <2> QED
    BY <1>1, <2>1, <2>2 DEF Rested
<1> QED
  BY <1>1 DEF RestsInv, RestsForAbsence

\* What starts no cooldown.
LEMMA NoneRested ==
  ASSUME FallbackInv, RestsInv, past \subseteq past',
         \A p \in past' : p[1] <= time',
         \A m \in ModelIds : unavailable'[m] \in {0, unavailable[m]}
  PROVE  RestsInv'
  BY DEF RestsInv, RestsForAbsence

\* A call has its list from Ollama, or from a call that had it from there.
LEMMA AttemptsRest ==
  ASSUME FallbackInv, RestsInv, NEW c \in Calls, NEW s \in Seq(ModelIds), NEW A \in SUBSET ModelIds,
         Advance(c, s, A), UNCHANGED <<time, past>>,
         A # {} => \E p \in past : p[2] = A
  PROVE  RestsInv'
<1>1. Rested(A)
  BY AdvanceRests DEF FallbackInv
<1> QED
  BY <1>1, RestedFits

LEMMA ExecuteRests ==
  ASSUME FallbackInv, RestsInv, NEW c \in Calls, NEW m \in ModelIds, NEW A \in SUBSET ModelIds,
         Execute(c, m, A), UNCHANGED <<time, past>>,
         A # {} => \E p \in past : p[2] = A
  PROVE  RestsInv'
<1>1. PICK s \in AttemptOrders(m, A) : Advance(c, s, A)
  BY DEF Execute
<1>2. s \in Seq(ModelIds)
  BY <1>1, AttemptOrdersFit
<1> QED
  BY <1>1, <1>2, AttemptsRest

\* A model rests only if Ollama was without it before, whichever calls raise, find no list,
\* or start and lift cooldowns by lists of their own (mark_unavailable, mark_available).
THEOREM RestsAreForAbsence == FallbackSpec => []RestsForAbsence
<1>1. FallbackInit => RestsInv
  BY DEF FallbackInit, RestsInv, RestsForAbsence
<1>2. ASSUME FallbackInv, RestsInv, [FallbackNext]_fallbackVars
      PROVE  RestsInv'
  <2> USE <1>2
  <2>0. time \in Nat /\ \A p \in past : p[1] \in Nat /\ p[1] <= time
    BY DEF FallbackInv, SharedTypes, RestsInv
  <2>1. CASE TimePasses \/ \E m \in ModelIds : Install(m)
    <3>1. /\ past \subseteq past' /\ \A p \in past' : p \in past \/ p[1] <= time'
          /\ time <= time' /\ time' \in Nat /\ unavailable' = unavailable
      BY <2>0, <2>1 DEF TimePasses, Install
    <3> QED
      BY <2>0, <3>1, NoneRested
  <2>2. ASSUME NEW c \in Calls, NEW s \in SessionIds, NEW ranking \in Rankings, Chat(c, s, ranking)
        PROVE  RestsInv'
    <3>1. UNCHANGED <<time, past>>
      BY <2>2 DEF Chat, shared
    <3>2. CASE unavailable' = unavailable
      BY <2>0, <3>1, <3>2, NoneRested
    <3>3. CASE listCache.at # 0 /\ Execute(c, decision'[c], listCache.models)
      <4>1. PICK m \in ModelIds : decision' = [decision EXCEPT ![c] = m]
        BY <2>2, RouteFits DEF Chat, FallbackInv
      <4>2. decision'[c] = m /\ listCache.models \in SUBSET ModelIds
        BY <4>1 DEF FallbackInv, SharedTypes, CallTypes
      <4>3. listCache.models # {} => \E p \in past : p[2] = listCache.models
        BY <3>3 DEF FallbackInv, SharedTypes, TrueSince
      <4> QED
        BY <3>1, <3>3, <4>2, <4>3, ExecuteRests
    <3> QED
      BY <2>2, <3>2, <3>3 DEF Chat
  <2>3. ASSUME NEW c \in Calls, KeepList(c)
        PROVE  RestsInv'
    <3>1. UNCHANGED <<time, past>> /\ Execute(c, decision[c], list[c]) /\ progress[c] = "listed"
      BY <2>3 DEF KeepList, shared
    <3>2. decision[c] \in ModelIds /\ list[c] \in SUBSET ModelIds
      BY <3>1 DEF FallbackInv, CallTypes, CallFits
    <3>3. list[c] # {} => \E p \in past : p[2] = list[c]
      BY DEF FallbackInv, CallFits
    <3> QED
      BY <3>1, <3>2, <3>3, ExecuteRests
  <2>4. ASSUME NEW c \in Calls, Raises(c)
        PROVE  RestsInv'
    <3>1. UNCHANGED <<time, past>> /\ Advance(c, Tail(order[c]), list[c]) /\ progress[c] = "calling"
      BY <2>4 DEF Raises, shared
    <3>2. order[c] \in Seq(ModelIds) /\ order[c] # <<>> /\ list[c] \in SUBSET ModelIds
      BY <3>1 DEF FallbackInv, CallTypes, CallFits
    <3>3. Tail(order[c]) \in Seq(ModelIds)
      BY <3>2
    <3>4. list[c] # {} => \E p \in past : p[2] = list[c]
      BY DEF FallbackInv, CallFits
    <3> QED
      BY <3>1, <3>2, <3>3, <3>4, AttemptsRest
  <2>5. ASSUME NEW c \in Calls, Answers(c)
        PROVE  RestsInv'
    <3>1. UNCHANGED <<time, past>> /\ unavailable' = [unavailable EXCEPT ![Head(order[c])] = 0]
      BY <2>5 DEF Answers, shared
    <3>2. \A m \in ModelIds : unavailable'[m] \in {0, unavailable[m]}
      BY <3>1 DEF FallbackInv, SharedTypes
    <3> QED
      BY <2>0, <3>1, <3>2, NoneRested
  <2>6. CASE UNCHANGED <<time, past, unavailable>>
    BY <2>0, <2>6, NoneRested
  <2> QED
    BY <2>1, <2>2, <2>3, <2>4, <2>5, <2>6
    DEF FallbackNext, Attempts, PinModel, Stream, Listed, StreamEnds, shared, fallbackVars
<1>3. RestsInv => RestsForAbsence
  BY DEF RestsInv
<1> QED
  BY <1>1, <1>2, <1>3, FallbackInvariant, PTL DEF FallbackSpec
=============================================================================
