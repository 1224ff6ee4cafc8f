------------------------------- MODULE Pipeline -----------------------------
(***************************************************************************)
(* PipelineExecutor.run of agent/pipeline.py: one run, its steps in turn,  *)
(* with conditions, timeouts and retries.  A timed-out handler that is not *)
(* a coroutine function keeps its thread.  Each step works on a copy of    *)
(* the context; what a handler writes there, and input_map, are left out.  *)
(***************************************************************************)
EXTENDS Naturals, Sequences, FiniteSets

CONSTANTS
  N,            \* the number of steps
  Conditional,  \* the steps with a condition
  Sync,         \* the steps whose handler runs in a thread
  MaxRetries,   \* max_retries of each step
  OnError       \* on_error of each step

Steps == 1..N

ASSUME PipelineAssumption ==
  /\ N \in Nat
  /\ Conditional \subseteq Steps /\ Sync \subseteq Steps
  /\ MaxRetries \in [Steps -> Nat]
  /\ OnError \in [Steps -> {"fail", "skip", "retry"}]

VARIABLES
  pc,       \* what the run awaits
  status,   \* run.status
  steps,    \* run.steps: the statuses of the results
  context,  \* run.context: output_key |-> output, an output is <<step, attempt>>
  attempt,
  threads   \* the <<step, attempt>> whose handler was abandoned and still runs

vars == <<pc, status, steps, context, attempt, threads>>

With(f, k, v) == [j \in DOMAIN f \cup {k} |-> IF j = k THEN v ELSE f[j]]

\* The step being executed.
Step == Len(steps) + 1
-----------------------------------------------------------------------------
\* A step starts with its condition, or with the announcement to the hooks.
Enter(k) == pc' = IF k \in Conditional THEN "condition" ELSE "announcing"

\* A result is recorded: the run goes on, or ends.
RecordGoOn(result) ==
  /\ steps' = Append(steps, result)
  /\ IF Step = N
     THEN status' = "success" /\ pc' = "returned"
     ELSE Enter(Step + 1) /\ UNCHANGED status
Record(result) ==
  /\ steps' = Append(steps, result)
  /\ IF result = "failed"
     THEN status' = "failed" /\ pc' = "returned"
     ELSE IF Step = N
          THEN status' = "success" /\ pc' = "returned"
          ELSE Enter(Step + 1) /\ UNCHANGED status

Init ==
  /\ steps = <<>> /\ context = << >>
  /\ status = IF N = 0 THEN "success" ELSE "running"
  /\ pc = IF N = 0 THEN "returned" ELSE IF 1 \in Conditional THEN "condition" ELSE "announcing"
  /\ attempt = 0
  /\ threads = {}

\* A condition that is false skips the step; one that raises does not.
Condition ==
  /\ pc = "condition"
  /\ \/ Record("skipped")
     \/ pc' = "announcing" /\ UNCHANGED <<status, steps>>
  /\ UNCHANGED <<context, attempt, threads>>

\* The hooks have run: the handler is called, on a copy of the context.
Announced ==
  /\ pc = "announcing"
  /\ attempt' = 0
  /\ pc' = "trying"
  /\ UNCHANGED <<status, steps, context, threads>>

\* The output goes under output_key unless it is None.
Returns ==
  /\ pc = "trying"
  /\ \/ context' = With(context, Step, <<Step, attempt>>)
     \/ UNCHANGED context
  /\ pc' = "telling"
  /\ UNCHANGED <<status, steps, attempt, threads>>

\* The next attempt, or none.
GiveUpRetryForever ==
  /\ pc' = IF OnError[Step] = "retry" \/ attempt < MaxRetries[Step] THEN "pausing" ELSE "reporting"
  /\ attempt' = IF attempt < MaxRetries[Step] THEN attempt + 1 ELSE attempt
GiveUp ==
  /\ pc' = IF attempt < MaxRetries[Step] THEN "pausing" ELSE "reporting"
  /\ attempt' = attempt + 1

Raises ==
  /\ pc = "trying"
  /\ GiveUp
  /\ UNCHANGED <<status, steps, context, threads>>

\* A coroutine is cancelled, a thread cannot be.
TimesOutKept ==
  /\ pc = "trying"
  /\ context' = IF Step \in Sync THEN With(context, Step, <<Step, attempt>>) ELSE context
  /\ GiveUp
  /\ threads' = IF Step \in Sync THEN threads \cup {<<Step, attempt>>} ELSE threads
  /\ UNCHANGED <<status, steps>>
TimesOut ==
  /\ pc = "trying"
  /\ GiveUp
  /\ threads' = IF Step \in Sync THEN threads \cup {<<Step, attempt>>} ELSE threads
  /\ UNCHANGED <<status, steps, context>>

\* The delay before a retry is over.
Paused ==
  /\ pc = "pausing"
  /\ pc' = "trying"
  /\ UNCHANGED <<status, steps, context, attempt, threads>>

\* The hooks have been told of the result.
Told ==
  /\ pc = "telling"
  /\ Record("success")
  /\ UNCHANGED <<context, attempt, threads>>

Reported ==
  /\ pc = "reporting"
  /\ Record(IF OnError[Step] = "skip" THEN "skipped" ELSE "failed")
  /\ UNCHANGED <<context, attempt, threads>>

\* The task that runs the pipeline is cancelled: CancelledError is not caught.
Cancel ==
  /\ pc # "returned" /\ pc # "cancelled"
  /\ pc' = "cancelled"
  /\ threads' = IF pc = "trying" /\ Step \in Sync THEN threads \cup {<<Step, attempt>>} ELSE threads
  /\ UNCHANGED <<status, steps, context, attempt>>

\* An abandoned handler is over: nobody waits for what it returns.
ThreadEnds(t) ==
  /\ t \in threads
  /\ threads' = threads \ {t}
  /\ UNCHANGED <<pc, status, steps, context, attempt>>

Run == Condition \/ Announced \/ Returns \/ Raises \/ TimesOut \/ Paused \/ Told \/ Reported

Next == Run \/ Cancel \/ \E t \in threads : ThreadEnds(t)

Spec == Init /\ [][Next]_vars

\* Every step has a timeout, and the hooks and the conditions return.
FairSpec == Spec /\ WF_vars(Run)
-----------------------------------------------------------------------------
\* The verdict is that of the results: a run succeeds when every step has one and
\* none failed, and fails with the last result it has, which is the only failed one; no
\* step is tried more often than its retries allow.
Verdict ==
  /\ pc \in {"trying", "pausing"} => attempt <= MaxRetries[Step]
  /\ pc = "returned" => status \in {"success", "failed"}
  /\ status = "success" => Len(steps) = N
  /\ \A k \in DOMAIN steps :
       steps[k] = "failed" <=> (status = "failed" /\ k = Len(steps))

\* The context holds outputs of steps that succeeded and of no others, whatever
\* an abandoned attempt of a skipped step returns later.
OnlySuccessOutputs ==
  \A k \in DOMAIN context :
    IF k \in DOMAIN steps THEN steps[k] = "success" ELSE pc \in {"telling", "cancelled"}

\* A run whose task is not cancelled returns.
EveryRunEnds == <>(pc \in {"returned", "cancelled"})
=============================================================================
