# OMNI-Agent: verification project

TLA+ specifications of the parts of OMNI-Agent (`src/agent/*.py`, `src/main.py`) that keep
state while other work runs beside them, TLC configurations that check them on small instances,
and proofs that the TLA+ proof system (TLAPS) checks for every instance.

OMNI-Agent is one Python process around one asyncio event loop. Nothing is preempted between two
`await`s that suspend, so the interesting behaviours are what other requests do *at* an await:
they write to the same conversation, change a cache, replace a tool, publish to a queue, cancel a
task. In every module one action is the code between two awaits that suspend; what runs in one go
in the code is one step in the model, and what is split in the code is split in the model.

Contents: [the system](#the-system) · [the modules](#the-modules) · [the runs](#the-runs) ·
[fairness](#fairness) · [the proofs](#the-proofs) ·
[what the models leave out](#what-the-models-leave-out) ·
[divergences](#divergences-between-code-and-documentation) · [plan](#plan)

## The system

Components on the runtime path, the state they keep, and what makes each hard.

| component (file) | state | operations | hard part | correct when |
|---|---|---|---|---|
| chat orchestrator (`core.py`, with `summarizer.py`, `memory.py`) | conversations (SQLite), response cache, rate buckets, session pins | `chat`, `stream_chat_tokens` | ten awaits per request, shared conversation, restarts | every stored answer follows its question, what the caller gets is what is stored last, a cached answer fits the question |
| event bus (`streaming.py`) | history, one queue and filter per subscriber | `publish`, `subscribe`, `listen`, `unsubscribe`, SSE handlers | slow readers, full queues, disconnects | order, filters, no silent loss, the history has no gaps |
| cache (`cache.py`) | `_MemoryStore` dictionaries or Redis; counters, sessions | get, set, delete, expire, incr, keys, size, flush, `rate_check`, `update_session` | lazy expiry, two backends that should look the same, read-merge-write with awaits between | the memory store does and returns what Redis would, but for named calls; limits hold; an update is lost only to one that overlaps it |
| hooks (`hooks.py`) | hook lists per event, wildcard list | `on`, `on_any`, `off`, `emit` | lists change while an emission awaits a handler | priority order, nobody skipped, one-shot hooks go |
| tool registry (`tools_registry.py`) | tools by name with counters, middleware stamps, audit log | `register`, `enable`, `disable`, `call` | a tool is replaced or switched while a call of it waits | counters, audit trail, confirmation, limit |
| model client and router (`multi_model_client.py`, `model_router.py`) | list cache, cooldowns, statistics, pins | `chat`, `chat_stream`, `route`, fallback loop | a stale list, concurrent calls, models that come and go | every model tried once, statistics right, a model rests only because it was absent |
| pipeline (`pipeline.py`) | the run's results and context | `run`, `run_by_name`, `_execute_step` | timeouts, threads that outlive them, retries | verdict matches the results, every run ends |
| tracing (`tracing.py`) | spans, current trace id, a context variable | `start_span`, `async_span`, `clear` | shared trace id, task-local span, timeouts | a span is in its parent's trace, blocks nest |
| cron scheduler (`scheduler.py`) | jobs, last runs | add/remove/enable/disable, the loop | next time from now or last run | due jobs are launched |
| heartbeat (`scheduler.py`) | health checks, `last_status` | `register_check`, start, stop, the loop | checks that raise or await, the set of checks growing meanwhile | the status is true, the passes go on |
| authentication (`auth.py`, `main.py`) | keys and blacklist (SQLite), windows per user | bootstrap, issue, revoke, `authenticate`, `check_rate_limit`, session scoping | handlers wait for bodies between admission and effect, restarts, several roles of a user | one bootstrap, what was revoked stays out, limits hold, users see their own sessions and name them again |
| workflow engine (`workflow.py`) | specifications and compiled pipelines | handlers and conditions of steps, run on the pipeline executor | a step runs another pipeline, timeouts cancel it; blank outputs | no nested run left behind, memory holds what the steps said |
| notifications (`notifications.py`) | channels, history, windows | `send`, `send_all` | one window per channel, failing channels | not modelled |
| config manager, sandbox, skills, personas, RAG, knowledge graph | versions; sessions; statistics; index | see each file | mostly sequential | not modelled |

Not on the runtime path, or without state another actor sees: document generation, export,
prompt templates, structured output, evaluation, collaboration, front ends (CLI, Telegram,
dashboard), and about 150 dormant enterprise modules (`docs/adr` ADR-002 says nothing in the
runtime imports them). `PROJECT.json` lists each with its reason.

How they interact. `main.py` routes HTTP requests to `OmniAgent` (`core.py`). A chat runs
security checks, the rate limit, hooks, a skill, history compression, RAG, the cache, the model
client with its router, and the tool registry, in that order, and stores question and answer in
the memory database. The SSE endpoints read the event bus. Hooks are awaited inside the emitter's
request. Every HTTP request first passes the middleware of `auth.py`, and what it names as its
session is scoped to the user. A workflow is compiled to a pipeline whose handlers call tools, the
LLM, the memory and other pipelines on the same executor. Spans are opened around all of this.

## The modules

| module | models | extends / instances |
|---|---|---|
| `EventBus` | `EventBus` and the `/stream/events`, `/stream/traces` handlers | |
| `Chat` | `OmniAgent.chat` and `stream_chat_tokens` with conversation, cache, rate limit, pins | |
| `ExpiringStore` | what `cache.py` expects of a store: keys that vanish on time | |
| `CacheStore` | `_MemoryStore`, shown to implement it but for named calls | `INSTANCE ExpiringStore` |
| `RateCheck` | `CacheClient.rate_check` on either backend | |
| `CacheClient` | the same beside the session calls of `CacheClient` | extends `RateCheck` |
| `Hooks` | `HookSystem` with overlapping emissions | |
| `ToolRegistry` | `ToolRegistry.call`, its callers and its limiting middleware | |
| `ModelFallback` | `MultiModelClient.chat`, `chat_stream` and the router's shared state | |
| `Pipeline` | one `PipelineExecutor.run` | |
| `Workflow` | a workflow on the executor, and the pipeline one of its steps runs | extends `Pipeline`, `INSTANCE Pipeline` for the nested run |
| `Auth` | `AuthManager`, its middleware and handlers, the command line's bootstrap | |
| `Heartbeat` | `HeartbeatMonitor` | |
| `Tracing` | `Tracer` as concurrent tasks use it | |
| `CronScheduler` | `Scheduler` with croniter installed | |
| `Windows` | sliding windows of call times, as three limiters prune them | extended by `Chat`, `ToolRegistry`, `Auth` |
| `Ranks` | sorting and filtering a list by position | extended by `Hooks`, `ModelFallback` |
| `MC…` | the instance of each that TLC checks | the module |
| `SequenceLemmas` | lemmas about `Windows`, `Ranks` and sequences without repetition | `Windows`, `Ranks` |
| `ObservabilityProofs` | theorems about event bus, tracing, hooks, heartbeat | `EventBus`, `Tracing`, `Hooks`, `Heartbeat` |
| `ChatProofs` | theorems about chats and the model client they call | `Chat`, `ModelFallback` |
| `CacheProofs` | theorems about the store, the rate check and sessions | `CacheStore`, `CacheClient` |
| `ToolRegistryProofs`, `AuthProofs`, `PipelineProofs` | theorems | the module |
| `WorkflowProofs` | theorems | `Workflow`, `PipelineProofs`, and `INSTANCE PipelineProofs` for the nested run |

`PROJECT.json` maps every definition to the lines it translates. Conventions: variables carry the
names of the attributes they stand for, unless another module that the same proofs extend has the
name (then also the specification has a name of its own: `HooksSpec`, `HeartSpec`…); a variable marked "(for the properties)" is a history
variable no guard reads; an operator whose name extends that of the definition after it
(`OfferFront`, `RaisesBreak`, `CloseSpanErrorCurrent`…) is a plausible bug of that definition, unused
by the specification, with which a run is shown to notice the difference.

**EventBus.** A message is its position in `log`. `Publish` is one step because `publish()` never
awaits: it appends to the history, halves it when too long, drops the oldest entry of every full
queue and enqueues. A handler waits in `queue.get()` (`Take`) and in the socket write (`Write`);
`Close` is its `finally` block, reached by the deadline, a failed write or cancellation.

**Chat.** `Arrive` is everything up to the first suspension: pin, injection check, rate limit,
question stored, quick answer. Then one action per await: skill, compression, RAG, cache lookup,
availability probe, LLM, cache write, tools. Awaited calls may raise (`Fail`); `Restart` drops all
that is not in SQLite (or Redis). Contents are tuples that say what a text is and which request it
came from, so "the answer to my question" can be stated without texts. `Empty` is the one text
that control depends on: a skill that returns it has its turn stored, but `chat()` tests the
result's truth and goes on; a cached response that is empty is a miss. The key of the response
cache is computed as `_chat_cache_key` does, from the pin and the end of the messages *as
compression and RAG left them*.

**CacheStore / ExpiringStore.** The abstract store forgets a dead key at once; the memory store
when somebody looks. The refinement mapping shows only the live entries (`Shown`, `Until`) and
what the last call returned (`got`). Three calls are named `Careless` because they do not look
first and leave other entries than Redis would: `set` without a ttl over an entry that has one,
`incr` and `expire` on a dead entry. Three more are named `Misreported`: with a dead entry about,
`keys` and `size` (both `Sweep`) forget one while they iterate over the dictionary that holds it,
which raises, and `delete` reports a dead entry as removed; what the store shows stays right.
Everything else is a step of the abstract store with the result it has there. `exists` is `Get`
without the value; `keys` is called without a pattern.

**RateCheck / CacheClient.** One key's counter and its expiry, renewed by every check, on Redis
(dead keys vanish) or in memory (dead keys count on until a sweep). Beside it one session:
`update_session` is one step (`Update`) on the memory store, whose coroutines never suspend, and
two (`Read`, `Write`) on Redis. Each caller sets a field of its own, so a field that is missing
tells whose update was lost; `owed` holds the fields that no overlapping update may excuse.

**Hooks.** An emission sorts and copies the list, then awaits one handler after the other
(`Continue`), skipping those disabled by then; one-shot hooks are removed by *name* at the end.

**ToolRegistry.** `tools` keeps every object ever registered, because a call holds on to the
object it found: `Found` is what the dictionary holds *now*, `tool[c]` what the call holds.
`Call` is everything up to the first await including the limiting middleware, whose stamps are
cut to the window in the same step. Other middlewares may be coroutines, so calls wait in
`screening`; `Begin` counts, logs and starts the function. `Cancelled` is a `CancelledError`, which
`call()` does not catch. The audit callback is taken to work.

**ModelFallback.** A call is routed, reads the list of installed models through a cache that
concurrent calls refill in any order (`Listed` is when Ollama answers, `KeepList` when the call
resumes), then tries one model after the other; models not in the list are rested, not called.
The scoring of models is a ranking, its inputs being the task.

**Pipeline.** One run over steps with a condition, a thread, retries and each `on_error` policy.
A timed-out coroutine is gone; a timed-out thread runs on (`threads`) and its return value must
go nowhere.

**Workflow.** `WorkflowCompiler` makes every step of a workflow a coroutine handler of a pipeline,
so `Workflow` extends `Pipeline` and conjoins to its actions what the handlers do: run a tool once
per attempt, save to the memory, run another pipeline (`Nested`, a second instance of `Pipeline`).
Conditions are no longer free: `Has` is `_build_condition`, with outputs that may be blank. A
timeout or a cancellation cancels the nested run in the same step (`StopNested`), since
`wait_for` waits until the handler is cancelled. Registration and compilation await nothing and
are over before a run; the output keys of the steps are taken to differ.

**Auth.** The handlers of `/auth/*` and `/chat` await the request's body after the middleware has
admitted the request, so a client is `doing` something between `Begins` and the step that does it;
`RevokeKey` has no body and is one step; what the other handlers of an administrator do is chosen
as they go on (`manage`), since they do not look at who asked. A credential (`cred`) is a key's
secret, or a token and a spelling of its signature: two tokens made in one second for the same user
and role are the same, but `verify_jwt` decodes the signature (whose last character has unused
bits) while the blacklist holds the text it was revoked with. The id of a user or of a session is
the sequence of its parts between colons, so that `owned:a:b:api` is read by `SessionOwner` as
`session_owner` reads it, owned by `a`, though `OwnedBy` made it for `a:b`, and `Visible` matches
prefixes up to a colon. The command line bootstraps only while the server is down.

**Heartbeat.** A pass (`Begins` to `PublishStatus`) holds the thread but for the checks that are
coroutine functions. Iterating over the dictionary of checks raises when it has grown
(`IterationFails`), which nothing catches.

**Tracing.** The context variable is per task, copied by `Spawn`; `shared` is
`_current_trace_id`, which all tasks write. `TimeOut` is what `asyncio.wait_for` does on the
Python 3.12+ that CI and the Dockerfile use: it cancels inline, `CancelledError` passes the
`except Exception` of `_safe_async_context`, so the inner blocks vanish without ending their
spans or resetting the variable. `hit` records where that happened.

**CronScheduler.** A cron expression is a period; a time unit is the ten-second pause of the loop.

## The runs

Every passing run explores its whole (bounded) state space.

| run | instance and bounds | shows |
|---|---|---|
| `event_bus` | 2 clients, 2 kinds, 2 tags, queue 2, history 2, 3 messages | order, filters, loss accounting, newest kept, gapless history, every owed message is handled |
| `chat` | 2 requests, 1 user, 2 sessions; a question, a greeting, a skill, an attack; empty results and responses; limit 1, threshold 1 | pairing, stored = returned, limit, own question last, cache answers fit |
| `cache_store` | 2 keys, 2 values, ttl 1–2, time 4, counter 3 | live entries stay; the refinement of `ExpiringStore` but for `Careless` and `Misreported` |
| `cache_client` | limit 2, window 2, 5 checks, 2 callers of one session of ttl 1, time 6, both backends | never over the limit; on Redis a wait is honoured; updates are lost only to overlapping ones |
| `hooks` | a wildcard, a one-shot hook and its namesake, 2 emissions | order, nobody skipped and spent hooks gone |
| `tool_registry` | 3 calls, a tool replaced once, limit 1 per window 2, time 3 | counters, audit, confirmation, limit |
| `model_fallback` | 3 models, 2 calls, a pin, list ttl 1, cooldown 1, time 2 | nothing untried, nothing twice, statistics, fresh list, cooldowns begin with an absence |
| `workflow` | 4 steps: a tool (1 retry, skipped), a pipeline (1 retry), a memory step, a structured step; conditions on the tool's output; nested: a threaded step with 1 retry and a conditional one | verdicts, contexts, attempts, no orphans, memory, termination |
| `auth` | users `a` and `a:b`, other ids `b` and `a:c`, 3 session ids to ask for, 3 roles with limits 0, 2 and 1 per window 1, 2 clients, 2 keys that never expire, 1 token of life 1 in 2 spellings, 2 counted requests, 1 session, time 2 | one bootstrap, revocation, windows, who sees whose sessions |
| `heartbeat` | 2 checks at the start, one that awaits, a third that awaits registered at any time; every outcome, webhook on | truthful status, passes go on |
| `tracing` | 2 tasks, 4 spans, history 3, 2 traces | traces, parents, ends, nesting |
| `cron_times` | 1 job of period 3, time 10 | **violation**: a job that never ran is never launched |

Why the bounds are enough. A full queue needs two messages to be dropped and kept at once
(`MaxQueue` 2, 3 messages); halving needs a history of 2 and a third message. Two requests meet
in every pair of awaits, in one session or two; a limit of 1 is reached by the second. Two keys
tell "the entry asked for" from "another", two ttls an early from a late death, four ticks let an
entry die, be revived and die again. Time 6 with window 2 holds several windows and a boundary
between them, and several lives of a session. Three hooks hold each kind and a shared name; two emissions overlap in every way. Two
bodies awaited at once let each kind of handler overtake each other one; two counted requests
fill the larger limit, or count one of a chatter against the reader of the same user; two spellings
of a signature tell the one revoked from another; the prefix of `a` fits what `a:b` owns; two keys let one be revoked before the
other bootstraps. Three checks are one before, one under and one after the await; a workflow of
four steps has each kind of step once, and a nested run that is retried, threaded and cancelled.
Three calls of one tool let one wait while another fills the limiter and the tool is replaced.
Three models hold a fallback, a default and one outside the chain. Four spans nest two deep in
each of two tasks and overflow a history of three. Requests, emissions, calls and tasks that the
modules never tell apart are symmetric, except in runs with liveness. `CHECK_DEADLOCK FALSE` is
set where the system may really stop: the bounded inputs are used up and nothing is in flight.

The properties aim at the hazards listed in `PROJECT.json`. Each was seen to fail when the code it
guards is changed the way a bug would change it.

## Fairness

* `EventBus`: weak fairness of `Take` (the event loop resumes a handler whose `get()` is ready) and
  of the end of a write (the client reads or the connection breaks). None of publishers,
  subscribers or disconnects. With it every message owed to a subscriber is taken, dropped from a
  full queue, or its stream ends.
* `Workflow` (and `Pipeline` alone): weak fairness of the run's own steps: every attempt has a
  timeout, and conditions and hooks are assumed to return (nothing in the code bounds them). None
  of cancellation or of abandoned threads.
* `Heartbeat`: weak fairness of the loop. The one check that awaits asks Ollama through a session
  with a total timeout of 120 seconds, the webhook has one of 5. `HeartbeatGoesOn` excuses a
  heartbeat that is stopped and one in the middle of whose pass a check was added.
* All other specifications are safety only and assume no fairness.

## The proofs

Checked by TLAPS from nothing, for every value of the constants that satisfies the named
assumption of the module (`BusAssumption`, `StoreAssumption`, `ChatAssumption`…). The theorems use
the specifications as they stand, bounds included; as the bounds are arbitrary numbers, a proof
covers runs of any length.

What is assumed of constants beyond their types: windows, limits and times to live are positive; the
set of models is finite; the markers for "no model" and "nothing read" are no model and no caller;
queues hold something and histories two entries; a conversation's history is read longer than the
threshold of compression, which keeps at least as many messages as the cache key is made of (the
defaults of the code); `MemoryTrue` asks that each step of a workflow reads what an earlier one
leaves, as those of the instance do.

Every safety property of every passing run is stated by a theorem. Each rests on an inductive
invariant that says more than the property. What it adds, and why:

**SequenceLemmas** (613 obligations). The lemmas that the rest shares. *Windows*: the times of a
window are in order, so those that count are an end of it; pruning it, now or later, leaves what
counts at any later time, and one more call adds one. *Ranks*: sorting the places of a finite list
by a strict total order gives each exactly one place (`PlaceFacts`, `RankedFits`), so that a
sorted or filtered list holds what it should, in the order it should. *Sequences without
repetition*: appending, concatenating and taking the head or an end keep them so.

**ObservabilityProofs** (2458 obligations).

* `EventBus`. `BusInv`: for every client, what was written precedes what is being written, which
  precedes the queue, and whatever was seen or dropped lies before the queue; the three together
  are exactly what the client is owed; the history is a gapless tail. `InOrder` says nothing of
  what is still queued; this is what is added. It gives `TypeCorrect`, `ResponsesInOrder`,
  `ResponsesWithinRequest`, `NothingLostSilently`, `OnlyOldestDropped` and `HistoryIsRecent`.
* `Tracing`. `TraceInv`: whatever a task has current, or comes back to when it leaves a block, is a
  span of its own kin (its own task or one its context was copied from), and every span's parent
  is older, kin and in the same trace. Kin only grows and spans never change task, trace or
  parent, so one lemma serves all steps. It gives `SpansShareTrace` and `ParentsAreKin`, timeouts
  included. `NestInv`: the blocks of a task hold its own spans, none twice, and the first was
  entered in the span the task's context began with; a task that has not begun has none. Without
  these, leaving a block could end a span that another block still holds. It gives `NestingKept`.
* `Hooks`. `HooksInv`: what an emission has called and what it has left are one list that rises in
  priority and repeats nothing; hooks registered meanwhile are none of it. It also says that the
  hooks awake since the emission began are among the two, and that one-shot hooks of emissions
  that are over are registered nowhere. It gives `CallsInOrder` and `AllAwakeCalled`.
* `Heartbeat`. `HeartInv`: as the status is published in one step, its truth is an invariant of the
  pass: what it has noted, it noted of the checks in their places while it was true. It gives the
  action property `StatusIsTrue`.

**ChatProofs** (3162 obligations). Three invariants of `Chat`, each for one question, and one of
`ModelFallback`.

* `ChatInv`: a request's key is that of its messages, a cached response was generated for messages
  with the end its key has, and what is sent ends with the request's own turn. `SameQuestion` says
  nothing of entries that nobody has hit yet. It gives `QuestionAnswered` and `OwnTextAsked`.
* `StoryInv`: where a request is tells what its conversation holds of it — nothing, its question, or
  its question and then the answer it returned, between them the empty turn of a skill that returned
  nothing — and other conversations hold nothing of it. A longer conversation holds the same, so what other requests store meanwhile does no harm. It gives
  `Paired` and `ToldIsStored`, restarts included.
* `LimitInv`: a bucket counts, now *and at any later time*, the admissions that count then.
  `WithinLimit` alone does not say how much of the bucket will be left when time moves. It gives
  `UsersWithinLimit`.
* `FallbackInv`: what a call has asked and what it has left repeat nothing, do not meet, and cover
  what it began with; a list in the cache, or on its way to it, was Ollama's at its time or later;
  the counters of a model count the calls that it answered or failed. It gives `ModelsAskedOnce`,
  `CountersOfCalls` and `ListsRecent`. `RestsInv` adds to `RestsForAbsence` that no list is from the
  future: a list that a call holds, however old, then justifies each cooldown that the call begins.
  It gives `RestsAreForAbsence`.

**CacheProofs** (955 obligations).

* `CacheStore`. `Paired`: no expiry without a value. Needed because a value stored anew would else
  inherit the expiry of a dead one. It gives `TypeCorrect`, `OnlyDeadForgotten` (an action
  property) and `FallsBackTransparently`: every step of the memory store, results included, maps
  to a step, or a stutter, of `ExpiringStore`, unless it is careless or misreports.
* `RateCheck`. `RateInv`: the counter counts the checks since the one before its present life, which
  lies a window before all of them; so a window that holds checks of the present life holds no
  others. It gives `LimitHolds` on either backend and `WaitersLetIn` on Redis.
* Sessions. `SessionInv` relates what each caller has read to what is still owed. It gives
  `UpdatesStay`.

**ToolRegistryProofs** (1178 obligations). `RegInv`: what the audit log holds of a call follows from
where the call is, and a call past the checks holds a tool that exists and that it may run.
The audit property alone is not inductive (nothing would exclude a second `execution` entry), nor
is the confirmation property (it says nothing of a call that has not run yet); `ToolsKept` — no
step moves a tool or changes whether it asks for confirmation — carries both past
registrations and switches. It gives `AuditKept` and `ConfirmedOnly`, and with sets of calls that
grow by one at a time, `CountsOfOwnRuns`. `LimiterInv` is to the limiter what `LimitInv` is to
chats; it gives `LimitKept`.

**AuthProofs** (718 obligations). `AuthInv`: only the operator of the command line chooses a secret,
so two keys can share one only if both come from the bootstrap, and then one is revoked; the keys
of a lost secret are all revoked, a lost spelling of a token is on the blacklist. `BootstrapOnce` does not say
which keys may share a secret, and without that revoking one key would not lose the other.
The keys change in three ways only (a key is added, one is revoked, tokens are lost), each a
lemma, and every action of `Next` is shown to be one of them. It gives `CredentialsFit`,
`OneBootstrap` and `RevokedForGood`. `SessionsStay` has an invariant of its own, `SessionsFit`: the
ids of sessions begin with the prefix of who chatted in them, and waiting chats are of users who
have ids (`IdAssumption`: an id has parts, and a user's is not empty). It rests on lemmas about
prefixes of sequences: two prefixes of one id are prefixes of one another, and `SessionOwner` reads
back an owner of one part. `RequestsFit` says of each user's window what it counts now and
later, whatever roles its requests have; it gives `WithinHour`.

**PipelineProofs** (141 obligations). `RunInv`: a run that goes on has steps left and no verdict;
only the step that has just succeeded may have an output before its result. Every way of
finishing a step goes through one lemma, `RecordFits`. It gives `RunsFit`, `RunVerdict` and
`RunOutputs` for the executor alone, with any handlers.

**WorkflowProofs** (402 obligations). Each action of a workflow is a step of the executor or leaves
the run alone (`OuterStep`), and begins, takes a step of, or cancels the nested run (`NestedStep`).
So `WorkflowIsRun` shows that a workflow implements a run of the executor (`Spec` of `Pipeline`, the
refinement mapping being the identity), and `RunInv` holds of both runs (`BothRunsFit`), the proofs
about the nested one being an instance of `PipelineProofs`. It gives `VerdictsTrue` and
`OutputsOfSuccess`; `NoOrphanRuns` is inductive as it stands. `MemoryInv` adds to `MemoryMatches`
that a step's condition holds until its handler returns, and that what was saved belongs to steps
with a result or to the one that has just succeeded; it gives `MemoryTrue`.

Only model-checked: liveness (`EventuallyHandled`, `EveryRunEnds`, `HeartbeatGoesOn`), since it
needs `ENABLED`; and the counterexample of `cron_times`, which a proof has no use for.

## What the models leave out

* Texts, prompts, JSON, metrics and logs, except where a property tells them apart.
* `Chat`: skill matching, personas, fact extraction, the text of summaries. External calls return
  anything or raise; the hooks a chat announces itself to are not composed with `Hooks`.
* `ToolRegistry`: argument schemas (a call is valid or not), the built-in tools' functions,
  `call_batch` (several calls). The limiting middleware is optional in the code and present in the
  model; `add()` of a prepared tool is `Register`; `skip_middleware` is used by nobody.
* `ModelFallback`: scoring, `chat_parallel`, `embed`, probes, an explicit `model=`.
* `Pipeline`: `input_map`, what handlers write to their copy of the context, the built-in pipelines.
* `Workflow`: parsing, echo and transform steps with their expression evaluator, the built-in
  workflows themselves (the instance has the shape of one of them).
* `Auth`: requests without valid credentials (they change nothing), key usage counts, the audit
  callback, two processes on one database at the same time.
* `CacheClient`: JSON, publish and subscribe, LLM responses (they are in `Chat`).
* `Hooks`: `emit_sync`, results of handlers. `Tracing`: attributes, events, synchronous and LLM
  spans, the exporter, statistics.
* `EventBus`: heartbeats of the SSE streams, and payloads.

## Divergences between code and documentation

Shown by a run:

* **A new cron job never runs** (`cron_times`). Its next time is counted from the moment the loop
  looks, so it is always in the future.

Seen while modelling, without a run:

* A cached reply carries tool directives: `core.py` caches the text of the LLM before its
  directives are executed, and a hit is stored and returned as it is. `ReplyStored` claims
  execution only for the request that the LLM answered.
* A skill that returns an empty text leaves an empty turn of the assistant in the conversation, and
  the request goes on to the LLM and stores a second answer (`core.py:308`, `core.py:389`); if it
  then fails, the empty turn stays.
* `CacheClient` "transparently falls back to `_MemoryStore`", but `keys()` and `size()` of that
  raise `RuntimeError` when an entry is dead (`cache.py:64`, `cache.py:74`), so `GET /cache/stats`
  fails, and `delete()` reports a dead entry as removed.
* A revoked token is honoured under another spelling of its signature, as the blacklist compares
  texts (`auth.py:366`, `auth.py:374`) and `verify_jwt` bytes (`auth.py:129`).
* Keys can be made for user ids with a colon (`auth.py:790`). Then user `a` sees the sessions of
  user `a:b` (`auth.py:255`), and `a:b` is refused its own ids (`auth.py:242`).
* The fallback loop never looks at cooldowns: a model that rests by the time of its turn is asked.
* `retry_after` is not honoured in memory: `rate_check` counts before it asks whether the counter is
  dead and renews the expiry even when it denies, so a denied key stays denied until a sweep.
  `RetryHonoured` is claimed for Redis.
* Concurrent `update_session` calls on Redis lose each other's fields.
* An expired key counts as active for `is_bootstrapped`; revoking every key opens the bootstrap
  again; a restart forgets the request windows.
* A workflow step of a pipeline that failed succeeds, with the context of the failed run; a tool
  whose step times out after it ran is run again by the retry.
* A health check registered while the heartbeat awaits another ends the heartbeat for good.
* `PipelineStep`'s comment says the context is shared across all steps and handlers write their
  outputs there; each handler gets a copy, so only `output_key` reaches later steps.
* A one-shot hook may be called by two overlapping emissions; its removal by name takes others of
  that name; a cancelled emission leaves its spent hooks in place.
* A timed-out thread of a pipeline step runs beside its retry.
* Since `new_trace` is called only when there is no trace id yet, all requests of a process share
  one trace.
* A span a timeout went through stays pending and becomes the parent of what its task opens next.
* A tool disabled or made stricter while a call of it waits in a middleware still runs; refusals
  by middlewares and by the endpoint are not in the audit log.

## Plan

Done: event bus, chat, cache with its abstract store, rate check and sessions, hooks, tool
registry, model fallback, pipeline and the workflows composed from it, tracing, cron scheduler,
heartbeat, authentication; a theorem for every safety property the passing runs check.

Next, by importance:

1. Proofs: that `Chat` is a refinement of a conversation that grows by a question or by the answer
   to one; that `EventBus` implements one lossy queue per subscriber.
2. Composition of `Chat`'s stream with `EventBus`, and of `Chat`'s admission with `Auth`.
3. `Notifier` (dispatch with windows and retries, a channel removed meanwhile).
4. `ConfigManager` versions and rollback, `Sandbox` sessions, skill statistics.
5. The knowledge graph's path search and RAG's index as pure operators against reference
   definitions.
