--------------------------- MODULE WorkflowProofs ---------------------------
(***************************************************************************)
(* Proofs about Workflow, for any steps of it and of the pipeline it runs. *)
(* What PipelineProofs says of a run holds of both: a workflow takes no    *)
(* step that the executor does not.                                        *)
(***************************************************************************)
EXTENDS Workflow, PipelineProofs

NestedProofs == INSTANCE PipelineProofs WITH
  N <- NestedN, Conditional <- NestedConditional, Sync <- NestedSync,
  MaxRetries <- NestedMaxRetries, OnError <- NestedOnError,
  pc <- npc, status <- nstatus, steps <- nsteps, context <- ncontext,
  attempt <- nattempt, threads <- nthreads

\* The nested run is the same run in both instances of Pipeline.
LEMMA SameRun ==
  /\ Nested!Run <=> NestedProofs!Run
  /\ Nested!Cancel <=> NestedProofs!Cancel
<1>1. Nested!Condition <=> NestedProofs!Condition
  BY DEF Nested!Condition, NestedProofs!Condition, Nested!Record, NestedProofs!Record, Nested!Enter, NestedProofs!Enter, Nested!Step, NestedProofs!Step
<1>2. Nested!Announced <=> NestedProofs!Announced
  BY DEF Nested!Announced, NestedProofs!Announced
<1>3. Nested!Returns <=> NestedProofs!Returns
  BY DEF Nested!Returns, NestedProofs!Returns, Nested!With, NestedProofs!With, Nested!Step, NestedProofs!Step
<1>4. Nested!Raises <=> NestedProofs!Raises
  BY DEF Nested!Raises, NestedProofs!Raises, Nested!GiveUp, NestedProofs!GiveUp, Nested!Step, NestedProofs!Step
<1>5. Nested!TimesOut <=> NestedProofs!TimesOut
  BY DEF Nested!TimesOut, NestedProofs!TimesOut, Nested!GiveUp, NestedProofs!GiveUp, Nested!Step, NestedProofs!Step
<1>6. Nested!Paused <=> NestedProofs!Paused
  BY DEF Nested!Paused, NestedProofs!Paused
<1>7. Nested!Told <=> NestedProofs!Told
  BY DEF Nested!Told, NestedProofs!Told, Nested!Record, NestedProofs!Record, Nested!Enter, NestedProofs!Enter, Nested!Step, NestedProofs!Step
<1>8. Nested!Reported <=> NestedProofs!Reported
  BY DEF Nested!Reported, NestedProofs!Reported, Nested!Record, NestedProofs!Record, Nested!Enter, NestedProofs!Enter, Nested!Step, NestedProofs!Step
<1>9. Nested!Cancel <=> NestedProofs!Cancel
  BY DEF Nested!Cancel, NestedProofs!Cancel, Nested!Step, NestedProofs!Step
<1> QED
  BY <1>1, <1>2, <1>3, <1>4, <1>5, <1>6, <1>7, <1>8, <1>9 DEF Nested!Run, NestedProofs!Run

\* The pipeline that is run is one.
LEMMA NestedAssumption == NestedProofs!PipelineAssumption
  BY WorkflowAssumption DEF NestedProofs!PipelineAssumption, NestedProofs!Steps

\* The nested run keeps its invariant, whatever of it the workflow runs or cancels.
LEMMA NestedKeeps ==
  ASSUME NestedProofs!RunInv, [Nested!Run \/ Nested!Cancel]_inner
  PROVE  NestedProofs!RunInv'
  BY NestedProofs!RunKeeps, SameRun, NestedAssumption
  DEF inner, NestedProofs!PipelineAssumption, NestedProofs!Steps

\* A nested run that begins, and one that has not.
LEMMA NestedInitFits ==
  ASSUME WorkflowInit
  PROVE  NestedProofs!RunInv
  BY WorkflowAssumption
  DEF WorkflowInit, NestedProofs!RunInv, NestedProofs!Underway, NestedProofs!Verdict,
      NestedProofs!Output, NestedProofs!Result, NestedProofs!Ended, NestedProofs!Step

LEMMA NestedBeginsFits ==
  ASSUME NestedBegins
  PROVE  NestedProofs!RunInv'
  BY WorkflowAssumption
  DEF NestedBegins, NestedProofs!RunInv, NestedProofs!Underway, NestedProofs!Verdict,
      NestedProofs!Output, NestedProofs!Result, NestedProofs!Ended, NestedProofs!Step

\* What each action of a workflow is to the executor.
LEMMA OuterStep ==
  ASSUME [WorkflowNext]_allVars
  PROVE  Run \/ Cancel \/ UNCHANGED vars
<1>1. ASSUME Conditioned \/ Moves \/ HandlerReturns \/ HandlerRaises \/ HandlerTimesOut
      PROVE  Run
  BY <1>1 DEF Conditioned, Moves, HandlerReturns, HandlerRaises, HandlerTimesOut, Run
<1>2. ASSUME ToolRuns \/ NestedBegins \/ NestedRuns \/ NestedThreadEnds
      PROVE  UNCHANGED vars
  BY <1>2 DEF ToolRuns, NestedBegins, NestedRuns, NestedThreadEnds, vars
<1> QED
  BY <1>1, <1>2 DEF WorkflowNext, Progress, WorkflowCancel, allVars

\* And to the nested run.
LEMMA NestedStep ==
  ASSUME [WorkflowNext]_allVars
  PROVE  NestedBegins \/ [Nested!Run \/ Nested!Cancel]_inner
<1>1. ASSUME Conditioned \/ Moves \/ ToolRuns \/ HandlerReturns \/ HandlerRaises
      PROVE  UNCHANGED inner
  BY <1>1 DEF Conditioned, Moves, ToolRuns, HandlerReturns, HandlerRaises
<1>2. ASSUME HandlerTimesOut \/ WorkflowCancel
      PROVE  Nested!Cancel \/ UNCHANGED inner
  BY <1>2 DEF HandlerTimesOut, WorkflowCancel, StopNested
<1>3. ASSUME NestedThreadEnds
      PROVE  UNCHANGED inner
  BY <1>3 DEF NestedThreadEnds, Nested!ThreadEnds, inner
<1> QED
  BY <1>1, <1>2, <1>3 DEF WorkflowNext, Progress, NestedRuns, allVars

WorkflowInv == RunInv /\ NestedProofs!RunInv

\* The inductive invariant: that of a run, of both runs.
THEOREM BothRunsFit == WorkflowSpec => []WorkflowInv
<1>1. WorkflowInit => WorkflowInv
  BY RunBegins, NestedInitFits DEF WorkflowInit, WorkflowInv
<1>2. ASSUME WorkflowInv, [WorkflowNext]_allVars
      PROVE  WorkflowInv'
  <2>1. [Run \/ Cancel]_<<pc, status, steps, context, attempt>>
    BY <1>2, OuterStep DEF vars
  <2>2. RunInv'
    BY <1>2, <2>1, RunKeeps DEF WorkflowInv
  <2>3. NestedProofs!RunInv'
    BY <1>2, NestedStep, NestedBeginsFits, NestedKeeps DEF WorkflowInv
  <2> QED
    BY <2>2, <2>3 DEF WorkflowInv
<1> QED
  BY <1>1, <1>2, PTL DEF WorkflowSpec

\* A workflow is a run of the executor: its handlers and the pipeline it runs change
\* nothing but what a run of any handlers may change.
THEOREM WorkflowIsRun == WorkflowSpec => Spec
<1>1. WorkflowInit => Init
  BY DEF WorkflowInit
<1>2. [WorkflowNext]_allVars => [Next]_vars
  BY OuterStep DEF Next
<1> QED
  BY <1>1, <1>2, PTL DEF WorkflowSpec, Spec

\* Both verdicts are those of their results, whatever fails, times out or is cancelled.
THEOREM VerdictsTrue == WorkflowSpec => []Verdicts
<1>1. ASSUME WorkflowInv
      PROVE  Verdicts
  <2>1. Nested!Verdict <=> NestedProofs!Verdict
    BY DEF Nested!Verdict, NestedProofs!Verdict, Nested!Step, NestedProofs!Step
  <2> QED
    BY <1>1, <2>1 DEF WorkflowInv, RunInv, NestedProofs!RunInv, Verdicts
<1> QED
  BY <1>1, BothRunsFit, PTL

\* Both contexts hold outputs of successful steps only.
THEOREM OutputsOfSuccess == WorkflowSpec => []SuccessfulOutputs
<1>1. ASSUME WorkflowInv
      PROVE  SuccessfulOutputs
  <2>1. OnlySuccessOutputs
    BY <1>1 DEF WorkflowInv, RunInv, Output, OnlySuccessOutputs
  <2>2. Nested!OnlySuccessOutputs
    BY <1>1 DEF WorkflowInv, NestedProofs!RunInv, NestedProofs!Output, Nested!OnlySuccessOutputs
  <2> QED
    BY <2>1, <2>2 DEF SuccessfulOutputs
<1> QED
  BY <1>1, BothRunsFit, PTL

\* No nested run is under way but for the attempt that awaits it.
THEOREM NoOrphanRuns == WorkflowSpec => []NoOrphans
<1>1. WorkflowInit => NoOrphans
  BY DEF WorkflowInit, NoOrphans, NestedOver
<1>2. ASSUME NoOrphans, [WorkflowNext]_allVars
      PROVE  NoOrphans'
  <2>1. CASE NestedBegins \/ NestedRuns
    BY <1>2, <2>1 DEF NestedBegins, NestedRuns, NoOrphans, Trying, Step, vars, own
  <2>2. CASE ToolRuns
    BY <1>2, <2>2 DEF ToolRuns, NoOrphans, NestedOver, Trying, Step, vars, inner
  <2>3. CASE NestedThreadEnds
    BY <1>2, <2>3 DEF NestedThreadEnds, Nested!ThreadEnds, NoOrphans, NestedOver, Trying, Step, vars, own
  <2>4. ASSUME Conditioned \/ Moves
        PROVE  NoOrphans'
    <3>1. pc # "trying" /\ npc' = npc
      BY <2>4 DEF Conditioned, Moves, Condition, Announced, Paused, Told, Reported, inner
    <3> QED
      BY <1>2, <3>1 DEF NoOrphans, NestedOver, Trying
  <2>5. ASSUME HandlerReturns \/ HandlerRaises
        PROVE  NoOrphans'
    <3>1. npc' = npc /\ (Trying("pipeline") /\ <<Step, attempt>> \in ran => NestedOver)
      BY <2>5 DEF HandlerReturns, HandlerRaises, Trying, inner, NestedOver
    <3> QED
      BY <1>2, <3>1 DEF NoOrphans, NestedOver
  <2>6. ASSUME HandlerTimesOut \/ WorkflowCancel
        PROVE  NoOrphans'
    <3>1. StopNested
      BY <2>6 DEF HandlerTimesOut, WorkflowCancel
    <3> QED
      BY <1>2, <3>1 DEF StopNested, NoOrphans, NestedOver, Nested!Cancel, inner
  <2>7. CASE UNCHANGED allVars
    BY <1>2, <2>7 DEF allVars, vars, own, inner, NoOrphans, NestedOver, Trying, Step
  <2> QED
    BY <1>2, <2>1, <2>2, <2>3, <2>4, <2>5, <2>6, <2>7 DEF WorkflowNext, Progress
<1> QED
  BY <1>1, <1>2, PTL DEF WorkflowSpec

-----------------------------------------------------------------------------
Kept(k) == \E m \in saved : m.step = k

SavedFits(m) ==
  /\ m.step \in Steps
  /\ m.value = Rendered(Reads[m.step])
  /\ Needs[m.step] = Reads[m.step] /\ Reads[m.step] # 0 =>
       m.value # <<>> /\ Reads[m.step] \notin blank

\* A step's condition holds until its handler returns, and what was saved is that of a
\* step with a result, or of the one that has just succeeded.
MemoryInv ==
  /\ blank \subseteq DOMAIN context
  /\ \A k \in DOMAIN context : context[k] # <<>>
  /\ pc \in {"announcing", "trying", "pausing"} /\ Needs[Step] # 0 => Has(Needs[Step])
  /\ \A k \in DOMAIN steps : Action[k] = "memory" => (steps[k] = "success" <=> Kept(k))
  /\ pc = "telling" /\ Action[Step] = "memory" => Kept(Step)
  /\ \A m \in saved : m.step \in DOMAIN steps \/ (m.step = Step /\ pc \in {"telling", "cancelled"})
  /\ \A m \in saved : SavedFits(m)

\* The results when one is recorded.
LEMMA Recorded ==
  ASSUME RunInv, NEW result \in Result, Record(result)
  PROVE  /\ DOMAIN steps' = DOMAIN steps \cup {Step} /\ Step \notin DOMAIN steps
         /\ steps'[Step] = result /\ \A k \in DOMAIN steps : steps'[k] = steps[k]
         /\ Step' = Step + 1 /\ pc' \in {"condition", "announcing", "returned"}
         /\ pc' = "announcing" => Step' \notin Conditional
<1>1. steps \in Seq(Result) /\ steps' = Append(steps, result)
  BY DEF RunInv, Underway, Record
<1>2. PICK n \in Nat : n = Len(steps) /\ DOMAIN steps = 1..n
  BY <1>1
<1>3. PICK longer : longer = Append(steps, result)
  OBVIOUS
<1>4. /\ DOMAIN longer = 1..(n + 1) /\ Len(longer) = n + 1 /\ longer[n + 1] = result
      /\ \A k \in 1..n : longer[k] = steps[k]
  BY <1>1, <1>2, <1>3
<1>5. 1..(n + 1) = (1..n) \cup {n + 1} /\ n + 1 \notin 1..n
  OBVIOUS
<1>6. Step = n + 1 /\ Step' = Step + 1
  BY <1>1, <1>2, <1>3, <1>4 DEF Step
<1>7. pc' \in {"condition", "announcing", "returned"} /\ (pc' = "announcing" => Step + 1 \notin Conditional)
  BY DEF Record, Enter
<1> QED
  BY <1>1, <1>2, <1>3, <1>4, <1>5, <1>6, <1>7

\* A step of the executor that records a result, and is told by saved.
LEMMA RecordMemory ==
  ASSUME RunInv, MemoryInv, pc \notin Ended, NEW result \in Result, Record(result),
         UNCHANGED <<context, own>>, RunInv',
         Action[Step] = "memory" => (result = "success" <=> Kept(Step)),
         pc = "telling" => result = "success"
  PROVE  MemoryInv'
<1>1. /\ DOMAIN steps' = DOMAIN steps \cup {Step} /\ Step \notin DOMAIN steps
      /\ steps'[Step] = result /\ \A k \in DOMAIN steps : steps'[k] = steps[k]
      /\ Step' = Step + 1 /\ pc' \in {"condition", "announcing", "returned"}
      /\ pc' = "announcing" => Step' \notin Conditional
  BY Recorded
<1>2. pc' = "announcing" => Step' \in Steps
  BY <1>1, PipelineAssumption DEF RunInv, Underway, Ended, Step, Steps
<1>3. pc' = "announcing" => Needs[Step'] = 0
  BY <1>1, <1>2, WorkflowAssumption
<1>4. \A m \in saved : SavedFits(m)'
  BY DEF MemoryInv, SavedFits, Rendered, own
<1>5. \A k : Kept(k)' <=> Kept(k)
  BY DEF Kept, own
<1>6. \A k \in DOMAIN steps' : Action[k] = "memory" => (steps'[k] = "success" <=> Kept(k)')
  BY <1>1, <1>5 DEF MemoryInv
<1>7. \A m \in saved' : m.step \in DOMAIN steps'
  BY <1>1 DEF MemoryInv, own
<1> QED
  BY <1>1, <1>3, <1>4, <1>6, <1>7 DEF MemoryInv, own

\* A step that neither records a result nor returns from a handler.
LEMMA MemoryStays ==
  ASSUME MemoryInv, UNCHANGED <<steps, context, given, blank, saved>>,
         pc' \in {"announcing", "trying", "pausing"} /\ pc' # pc =>
           pc \in {"announcing", "trying", "pausing"} \/ (pc = "condition" /\ Has(Needs[Step])),
         pc' = "telling" => pc = "telling",
         pc \in {"telling", "cancelled"} => pc' \in {"telling", "cancelled"}
  PROVE  MemoryInv'
<1>1. Step' = Step /\ \A k : (Has(k)' <=> Has(k)) /\ Rendered(k)' = Rendered(k) /\ (Kept(k)' <=> Kept(k))
  BY DEF Step, Has, Rendered, Kept
<1>2. \A m \in saved : SavedFits(m)'
  BY <1>1 DEF MemoryInv, SavedFits
<1> QED
  BY <1>1, <1>2 DEF MemoryInv

\* A handler returns; a step that saves reads what an earlier one left.
LEMMA ReturnMemory ==
  ASSUME \A k \in Steps : Reads[k] < k, RunInv, MemoryInv, HandlerReturns
  PROVE  MemoryInv'
<1>1. /\ pc = "trying" /\ pc' = "telling" /\ UNCHANGED <<steps, given>> /\ Step' = Step
      /\ context' = With(context, Step, <<Step, attempt>>) \/ context' = context
      /\ blank' = blank \/ (blank' = blank \cup {Step} /\ context' # context)
      /\ saved' = IF Action[Step] = "memory"
                  THEN saved \cup {[step |-> Step, value |-> Rendered(Reads[Step])]} ELSE saved
  BY DEF HandlerReturns, Returns, Step
<1>2. Step \in Steps /\ Step \in Nat /\ Step \notin DOMAIN steps /\ \A k \in DOMAIN steps : k < Step /\ k \in Steps
  <2>1. Step \in Steps
    BY <1>1, Retries DEF Ended
  <2>2. PICK n \in Nat : n = Len(steps) /\ DOMAIN steps = 1..n /\ n <= N
    BY DEF RunInv, Underway
  <2> QED
    BY <2>1, <2>2, PipelineAssumption DEF Step, Steps
<1>3. /\ \A k : k # Step => (k \in DOMAIN context' <=> k \in DOMAIN context)
      /\ \A k \in DOMAIN context : k # Step => context'[k] = context[k]
      /\ \A k : k # Step => (k \in blank' <=> k \in blank)
      /\ blank' \subseteq DOMAIN context'
      /\ \A k \in DOMAIN context' : context'[k] # <<>>
  <2>1. CASE context' = context
    BY <1>1, <2>1 DEF MemoryInv
  <2>2. CASE context' = With(context, Step, <<Step, attempt>>)
    <3>1. <<Step, attempt>> # <<>>
      OBVIOUS
    <3>2. DOMAIN context' = DOMAIN context \cup {Step}
      BY <2>2 DEF With
    <3>3. \A k \in DOMAIN context' : context'[k] = IF k = Step THEN <<Step, attempt>> ELSE context[k]
      BY <2>2 DEF With
    <3> QED
      BY <1>1, <3>1, <3>2, <3>3 DEF MemoryInv
  <2> QED
    BY <1>1, <2>1, <2>2
<1>4. \A k : k # Step => Rendered(k)' = Rendered(k)
  BY <1>1, <1>3 DEF Rendered
<1>5. \A m \in saved : m.step \in DOMAIN steps /\ m.step # Step
  BY <1>1, <1>2 DEF MemoryInv
<1>6. \A k \in Steps : Reads[k] # k /\ Reads[k] < k /\ Reads[k] \in Nat
  BY WorkflowAssumption, PipelineAssumption DEF Steps
<1>7. ASSUME NEW m \in saved
      PROVE  SavedFits(m)'
  <2>1. m.step \in Steps /\ m.step \in Nat /\ m.step < Step
    BY <1>2, <1>5, PipelineAssumption DEF Steps
  <2>2. Reads[m.step] # Step
    BY <1>2, <1>6, <2>1
  <2> QED
    BY <1>3, <1>4, <2>1, <2>2 DEF MemoryInv, SavedFits
<1>8. ASSUME NEW m, m = [step |-> Step, value |-> Rendered(Reads[Step])]
      PROVE  SavedFits(m)' /\ m.step = Step
  <2>1. m.step = Step /\ m.value = Rendered(Reads[Step]) /\ Reads[Step] # Step
    BY <1>2, <1>6, <1>8
  <2>2. ASSUME Needs[Step] = Reads[Step], Reads[Step] # 0
        PROVE  Rendered(Reads[Step]) # <<>> /\ Reads[Step] \notin blank
    <3>1. Has(Reads[Step])
      BY <1>1, <2>2 DEF MemoryInv
    <3>2. <<0, Reads[Step]>> # <<>>
      OBVIOUS
    <3> QED
      BY <3>1, <3>2 DEF MemoryInv, Has, Rendered
  <2> QED
    BY <1>2, <1>3, <1>4, <2>1, <2>2 DEF SavedFits
<1>9. /\ \A m \in saved' : SavedFits(m)' /\ (m \in saved \/ m.step = Step)
      /\ \A k \in DOMAIN steps : Kept(k)' <=> Kept(k)
      /\ Action[Step] = "memory" => Kept(Step)'
  <2>1. CASE Action[Step] = "memory"
    <3>1. PICK new : new = [step |-> Step, value |-> Rendered(Reads[Step])]
      OBVIOUS
    <3>2. saved' = saved \cup {new} /\ SavedFits(new)' /\ new.step = Step
      BY <1>1, <1>8, <2>1, <3>1
    <3>3. \A m \in saved' : SavedFits(m)' /\ (m \in saved \/ m.step = Step)
      BY <1>7, <3>2
    <3>4. ASSUME NEW k \in DOMAIN steps
          PROVE  Kept(k)' <=> Kept(k)
      <4>1. k # Step
        BY <1>2
      <4>2. new.step # k
        BY <3>2, <4>1
      <4> QED
        BY <3>2, <4>2 DEF Kept
    <3>5. Kept(Step)'
      <4>1. new \in saved' /\ new.step = Step
        BY <3>2
      <4>2. \E m \in saved' : m.step = Step
        BY <4>1
      <4> QED
        BY <1>1, <4>2 DEF Kept
    <3> QED
      BY <3>3, <3>4, <3>5
  <2>2. CASE Action[Step] # "memory"
    BY <1>1, <1>7, <2>2 DEF Kept
  <2> QED
    BY <2>1, <2>2
<1>10. \A m \in saved' : m.step \in DOMAIN steps' \/ (m.step = Step' /\ pc' = "telling")
  BY <1>1, <1>5, <1>9
<1> QED
  BY <1>1, <1>3, <1>9, <1>10 DEF MemoryInv

\* A memory step saved what it was asked to, just when it is said to have succeeded,
\* provided that every step reads what an earlier one leaves.
THEOREM MemoryTrue ==
  ASSUME \A k \in Steps : Reads[k] < k
  PROVE  WorkflowSpec => []MemoryMatches
<1>1. WorkflowInit => MemoryInv
  <2> SUFFICES ASSUME WorkflowInit
               PROVE  MemoryInv
    OBVIOUS
  <2>1. /\ blank = {} /\ saved = {} /\ steps = <<>> /\ Step = 1
        /\ DOMAIN context = {} /\ DOMAIN steps = {}
    BY DEF WorkflowInit, Init, Step
  <2>2. pc \in {"announcing", "trying", "pausing"} => Needs[1] = 0
    BY PipelineAssumption, WorkflowAssumption DEF WorkflowInit, Init, Steps
  <2>3. pc # "telling"
    BY DEF WorkflowInit, Init
  <2> QED
    BY <2>1, <2>2, <2>3 DEF MemoryInv
<1>2. ASSUME MemoryInv, WorkflowInv, WorkflowInv', [WorkflowNext]_allVars
      PROVE  MemoryInv'
  <2>0. RunInv /\ RunInv'
    BY <1>2 DEF WorkflowInv
  <2>1. CASE Conditioned
    <3>1. CASE Record("skipped")
      <4>1. steps' # steps
        BY <2>0, <3>1, Recorded DEF Result
      <4>2. pc = "condition" /\ UNCHANGED <<context, own>> /\ Action[Step] = "memory" => ~Kept(Step)
        BY <1>2, <2>0, <2>1 DEF Conditioned, Condition, MemoryInv, Kept, RunInv, Underway, Step
      <4> QED
        BY <1>2, <2>0, <2>1, <3>1, <4>2, RecordMemory DEF Conditioned, Condition, Result, Ended
    <3>2. CASE pc' = "announcing" /\ UNCHANGED <<status, steps>>
      <4>1. /\ pc = "condition" /\ Has(Needs[Step])
            /\ UNCHANGED <<steps, context, given, blank, saved>>
        BY <2>1, <3>2 DEF Conditioned, Condition, own
      <4> QED
        BY <1>2, <3>2, <4>1, MemoryStays
    <3> QED
      BY <2>1, <3>1, <3>2 DEF Conditioned, Condition
  <2>2. CASE Moves
    <3>1. CASE Announced \/ Paused
      BY <1>2, <2>2, <3>1, MemoryStays DEF Moves, Announced, Paused, own
    <3>2. CASE Told
      BY <1>2, <2>0, <2>2, <3>2, RecordMemory DEF Moves, Told, MemoryInv, Result, Ended
    <3>3. CASE Reported
      <4>1. PICK result \in Result \ {"success"} : Record(result)
        BY <3>3 DEF Reported, Result
      <4>2. ~Kept(Step) /\ pc = "reporting"
        BY <1>2, <2>0, <3>3 DEF Reported, MemoryInv, Kept, RunInv, Underway, Step
      <4> QED
        BY <1>2, <2>0, <2>2, <3>3, <4>1, <4>2, RecordMemory DEF Moves, Reported, Ended
    <3> QED
      BY <2>2, <3>1, <3>2, <3>3 DEF Moves
  <2>3. CASE ToolRuns \/ NestedBegins \/ NestedRuns \/ NestedThreadEnds \/ UNCHANGED allVars
    <3>1. UNCHANGED <<pc, steps, context, given, blank, saved>>
      BY <2>3 DEF ToolRuns, NestedBegins, NestedRuns, NestedThreadEnds, allVars, vars, own
    <3> QED
      BY <1>2, <3>1, MemoryStays
  <2>4. CASE HandlerReturns
    BY <1>2, <2>0, <2>4, ReturnMemory
  <2>5. CASE HandlerRaises \/ HandlerTimesOut
    <3>1. /\ UNCHANGED <<steps, context, given, blank, saved>>
          /\ pc = "trying" /\ pc' \in {"pausing", "reporting"}
      BY <2>5 DEF HandlerRaises, HandlerTimesOut, Raises, TimesOut, GiveUp, own
    <3> QED
      BY <1>2, <3>1, MemoryStays
  <2>6. CASE WorkflowCancel
    <3>1. UNCHANGED <<steps, context, given, blank, saved>> /\ pc' = "cancelled"
      BY <2>6 DEF WorkflowCancel, Cancel, own
    <3> QED
      BY <1>2, <3>1, MemoryStays
  <2> QED
    BY <1>2, <2>1, <2>2, <2>3, <2>4, <2>5, <2>6 DEF WorkflowNext, Progress
<1>3. MemoryInv => MemoryMatches
  BY DEF MemoryInv, SavedFits, Kept, MemoryMatches
<1> QED
  BY <1>1, <1>2, <1>3, BothRunsFit, PTL DEF WorkflowSpec
=============================================================================
