------------------------------ MODULE Workflow -------------------------------
(***************************************************************************)
(* A workflow of agent/workflow.py as WorkflowCompiler hands it to the     *)
(* pipeline executor: Pipeline, with the handlers and conditions of its    *)
(* steps, and a step that runs another pipeline.  The handlers are         *)
(* coroutine functions, those of the nested pipeline need not be.          *)
(***************************************************************************)
EXTENDS Pipeline

CONSTANTS
  Action,   \* of each step: "tool", "llm", "structured", "memory" or "pipeline"
  Needs,    \* the step whose output key is the condition; 0, none
  Reads,    \* the step whose output the handler reads; 0, none
  NestedN, NestedConditional, NestedSync, NestedMaxRetries, NestedOnError

ASSUME WorkflowAssumption ==
  /\ Sync = {}
  /\ Needs \in [Steps -> 0..N] /\ Conditional = {k \in Steps : Needs[k] # 0}
  /\ Reads \in [Steps -> 0..N]
  /\ Action \in [Steps -> {"tool", "llm", "structured", "memory", "pipeline"}]
  /\ NestedN \in Nat
  /\ NestedConditional \subseteq 1..NestedN /\ NestedSync \subseteq 1..NestedN
  /\ NestedMaxRetries \in [1..NestedN -> Nat]
  /\ NestedOnError \in [1..NestedN -> {"fail", "skip", "retry"}]

VARIABLES
  given,     \* the keys that the caller's context or the defaults hold
  blank,     \* the steps whose output is empty
  ran,       \* the <<step, attempt>> whose tool ran, or whose nested run began
  saved,     \* what steps left in the memory: [step, value],
  npc, nstatus, nsteps, ncontext, nattempt, nthreads  \* of the nested run, as above

own == <<given, blank, ran, saved>>
inner == <<npc, nstatus, nsteps, ncontext, nattempt>>
allVars == <<vars, own, inner, nthreads>>

Nested == INSTANCE Pipeline WITH
  N <- NestedN, Conditional <- NestedConditional, Sync <- NestedSync,
  MaxRetries <- NestedMaxRetries, OnError <- NestedOnError,
  pc <- npc, status <- nstatus, steps <- nsteps, context <- ncontext,
  attempt <- nattempt, threads <- nthreads

\* _build_condition(), and the test of a structured step for its input.
HasMissingOnly(k) == k \in DOMAIN context \cup given
Has(k) == (k \in DOMAIN context \ blank) \/ (k \in given \ DOMAIN context)

\* _render_template(): the output of a step, what the caller gave in its place, or the
\* placeholder, which is left.
Rendered(k) ==
  IF k \in DOMAIN context THEN context[k] ELSE IF k \in given THEN <<0, k>> ELSE <<>>

NestedOver == npc \in {"returned", "cancelled"}
Trying(action) == pc = "trying" /\ Action[Step] = action
-----------------------------------------------------------------------------
WorkflowInit ==
  /\ Init
  /\ given \in SUBSET Steps /\ blank = {}
  /\ ran = {} /\ saved = {}
  /\ npc = "cancelled"  \* none is under way
  /\ nstatus = "running" /\ nsteps = <<>> /\ ncontext = << >> /\ nattempt = 0
  /\ nthreads = {}

\* The condition is told by the context, and raises nothing.
Conditioned ==
  /\ Condition
  /\ steps' = steps <=> Has(Needs[Step])
  /\ UNCHANGED <<own, inner, nthreads>>

\* The steps of the executor that know nothing of the handlers.
Moves ==
  /\ Announced \/ Paused \/ Told \/ Reported
  /\ UNCHANGED <<own, inner, nthreads>>

\* tool_registry.call() runs the tool, once for the attempt.
ToolRuns ==
  /\ Trying("tool") /\ <<Step, attempt>> \notin ran
  /\ ran' = ran \cup {<<Step, attempt>>}
  /\ UNCHANGED <<vars, given, blank, saved, inner, nthreads>>

\* run_by_name() on a copy of the context.
NestedBegins ==
  /\ Trying("pipeline") /\ <<Step, attempt>> \notin ran
  /\ ran' = ran \cup {<<Step, attempt>>}
  /\ npc' = IF NestedN = 0 THEN "returned"
            ELSE IF 1 \in NestedConditional THEN "condition" ELSE "announcing"
  /\ nstatus' = IF NestedN = 0 THEN "success" ELSE "running"
  /\ nsteps' = <<>> /\ ncontext' = << >> /\ nattempt' = 0
  /\ UNCHANGED <<vars, given, blank, saved, nthreads>>

NestedRuns ==
  /\ Trying("pipeline") /\ <<Step, attempt>> \in ran
  /\ Nested!Run
  /\ UNCHANGED <<vars, own>>

NestedThreadEnds ==
  /\ \E t \in nthreads : Nested!ThreadEnds(t)
  /\ UNCHANGED <<vars, own>>

\* A handler returns; a text may be empty, an output of a tool or a schema None.  A
\* nested run that failed is returned from as one that succeeded.
HandlerReturns ==
  /\ Returns
  /\ Action[Step] \in {"tool", "structured"} \/ context' # context
  /\ Action[Step] \in {"tool", "pipeline"} => <<Step, attempt>> \in ran
  /\ Action[Step] = "pipeline" => npc = "returned"
  /\ Action[Step] = "structured" => Has(Reads[Step])
  /\ \/ UNCHANGED blank
     \/ /\ Action[Step] \in {"tool", "llm", "structured"} /\ context' # context
        /\ blank' = blank \cup {Step}
  /\ saved' = IF Action[Step] = "memory"
              THEN saved \cup {[step |-> Step, value |-> Rendered(Reads[Step])]} ELSE saved
  /\ UNCHANGED <<given, ran, inner, nthreads>>

\* A handler raises: what a tool did stays done, save_memory() has done nothing, and a
\* nested pipeline raises only when there is none of that name.
HandlerRaises ==
  /\ Raises
  /\ Action[Step] = "pipeline" => <<Step, attempt>> \notin ran
  /\ UNCHANGED <<own, inner, nthreads>>

\* wait_for() cancels the handler and with it the nested run; saving awaits nothing.
StopNestedNot == UNCHANGED <<inner, nthreads>>
StopNested ==
  IF Trying("pipeline") /\ <<Step, attempt>> \in ran /\ ~NestedOver
  THEN Nested!Cancel ELSE UNCHANGED <<inner, nthreads>>

HandlerTimesOut ==
  /\ TimesOut
  /\ Action[Step] # "memory"
  /\ StopNested
  /\ UNCHANGED own

\* The request that runs the workflow is cancelled.
WorkflowCancel ==
  /\ Cancel
  /\ StopNested
  /\ UNCHANGED own

Progress ==
  \/ Conditioned \/ Moves \/ ToolRuns \/ NestedBegins \/ NestedRuns
  \/ HandlerReturns \/ HandlerRaises \/ HandlerTimesOut

WorkflowNext == Progress \/ NestedThreadEnds \/ WorkflowCancel

WorkflowSpec == WorkflowInit /\ [][WorkflowNext]_allVars

\* As for Pipeline: every step has a timeout.
FairWorkflow == WorkflowSpec /\ WF_allVars(Progress)
-----------------------------------------------------------------------------
\* The verdicts of both runs are those of their results.
Verdicts == Verdict /\ Nested!Verdict

\* Both contexts hold outputs of successful steps only, whatever becomes of the
\* threads and nested runs that a timeout or a cancellation left behind.
SuccessfulOutputs == OnlySuccessOutputs /\ Nested!OnlySuccessOutputs

\* A nested run is never under way but for the attempt that awaits it: none outlives a
\* timeout, a retry, the end of its step or the cancellation of the request.
NoOrphans == ~NestedOver => Trying("pipeline") /\ <<Step, attempt>> \in ran

\* A memory step saved what it was asked to, just when it is said to have succeeded: an
\* output that the context still holds or the caller's, and never an empty one or a
\* placeholder if its condition is the key it reads.
MemoryMatches ==
  /\ \A k \in DOMAIN steps :
       Action[k] = "memory" => (steps[k] = "success" <=> \E m \in saved : m.step = k)
  /\ \A m \in saved :
       /\ m.value = Rendered(Reads[m.step])
       /\ Needs[m.step] = Reads[m.step] /\ Reads[m.step] # 0 =>
            m.value # <<>> /\ Reads[m.step] \notin blank
=============================================================================
