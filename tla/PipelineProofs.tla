--------------------------- MODULE PipelineProofs ---------------------------
(***************************************************************************)
(* Proofs about Pipeline, for any steps, conditions, retries and policies. *)
(* Verdict does not tell how far a run has come, nor OnlySuccessOutputs    *)
(* which output may be there before its step has a result: RunInv does.    *)
(***************************************************************************)
EXTENDS Pipeline, SequenceTheorems, TLAPS

Result == {"success", "failed", "skipped"}
Ended == {"returned", "cancelled"}

\* A run goes on only with steps left, and has a verdict just when it has returned.
Underway ==
  /\ pc \in {"condition", "announcing", "trying", "pausing", "telling", "reporting"} \cup Ended
  /\ steps \in Seq(Result) /\ Len(steps) <= N
  /\ attempt \in Nat
  /\ status \in {"running", "success", "failed"}
  /\ pc = "returned" <=> status # "running"
  /\ pc \notin Ended => Len(steps) < N

\* Only the step that has just succeeded has an output before its result.
Output(k) ==
  IF k \in DOMAIN steps THEN steps[k] = "success"
  ELSE k = Step /\ pc \in {"telling", "cancelled"}

RunInv ==
  /\ Underway
  /\ Verdict
  /\ \A k \in DOMAIN context : Output(k)

LEMMA RunBegins ==
  ASSUME Init
  PROVE  RunInv
  BY PipelineAssumption DEF Init, RunInv, Underway, Verdict, Output, Result, Ended, Step

\* What recording a result makes of the results.
LEMMA RecordFits ==
  ASSUME RunInv, pc \notin Ended, NEW result \in Result, Record(result),
         context' = context, attempt' \in Nat,
         \A k \in DOMAIN context : k \in DOMAIN steps \/ (k = Step /\ result = "success")
  PROVE  RunInv'
<1>1. /\ steps' \in Seq(Result) /\ Len(steps') = Len(steps) + 1 /\ steps'[Step] = result
      /\ DOMAIN steps' = DOMAIN steps \cup {Step} /\ Step \notin DOMAIN steps /\ Len(steps) \in Nat
      /\ \A k \in DOMAIN steps : steps'[k] = steps[k]
  BY DEF RunInv, Underway, Record, Step
<1>2. Underway'
  BY <1>1, PipelineAssumption DEF RunInv, Underway, Record, Enter, Ended, Step
<1>3. Verdict'
  <2>1. status = "running" /\ N \in Nat /\ Len(steps) < N
    BY PipelineAssumption DEF RunInv, Underway, Ended
  <2>2. \A k \in DOMAIN steps : steps[k] # "failed"
    BY <2>1 DEF RunInv, Verdict
  <2>3. pc' \notin {"trying", "pausing"} /\ (pc' = "returned" => status' \in {"success", "failed"})
    BY <2>1 DEF Record, Enter
  <2>4. status' = "success" => Len(steps') = N
    BY <1>1, <2>1 DEF Record, Step
  <2>5. status' = "failed" <=> result = "failed"
    BY <2>1 DEF Record
  <2>6. \A k \in DOMAIN steps' : steps'[k] = "failed" <=> (status' = "failed" /\ k = Len(steps'))
    BY <1>1, <2>2, <2>5 DEF Step
  <2> QED
    BY <2>3, <2>4, <2>6 DEF Verdict
<1>4. \A k \in DOMAIN context' : Output(k)'
  BY <1>1 DEF RunInv, Output
<1> QED
  BY <1>2, <1>3, <1>4 DEF RunInv

\* A step that records nothing: the run stays where the results leave it.
LEMMA SameResults ==
  ASSUME RunInv, pc \notin Ended, UNCHANGED <<status, steps>>, attempt' \in Nat,
         pc' \in {"condition", "announcing", "trying", "pausing", "telling", "reporting", "cancelled"},
         pc' \in {"trying", "pausing"} => attempt' <= MaxRetries[Step],
         \A k \in DOMAIN context' :
           (k \in DOMAIN context /\ k \in DOMAIN steps) \/ (k = Step /\ pc' \in {"telling", "cancelled"})
  PROVE  RunInv'
<1>1. Underway'
  BY DEF RunInv, Underway, Ended
<1>2. Verdict'
  BY DEF RunInv, Underway, Verdict, Step, Ended
<1>3. Step \notin DOMAIN steps
  BY DEF RunInv, Underway, Step
<1>4. \A k \in DOMAIN context' : Output(k)'
  BY <1>3 DEF RunInv, Output, Step
<1> QED
  BY <1>1, <1>2, <1>4 DEF RunInv

\* Before an attempt returns there are outputs of recorded steps only.
LEMMA OutputsRecorded ==
  ASSUME RunInv, pc \notin {"telling", "cancelled"}
  PROVE  \A k \in DOMAIN context : k \in DOMAIN steps
  BY DEF RunInv, Output

\* The step being executed is one of the run's, so its retries are a number.
LEMMA Retries ==
  ASSUME RunInv, pc \notin Ended
  PROVE  Step \in Steps /\ MaxRetries[Step] \in Nat
<1>1. Step \in 1..N
  BY PipelineAssumption DEF RunInv, Underway, Step
<1> QED
  BY <1>1, PipelineAssumption DEF Steps

LEMMA GiveUpFits ==
  ASSUME RunInv, pc = "trying", GiveUp, UNCHANGED <<status, steps, context>>
  PROVE  RunInv'
<1>1. attempt \in Nat /\ MaxRetries[Step] \in Nat
  BY Retries DEF RunInv, Underway, Ended
<1>2. \A k \in DOMAIN context : k \in DOMAIN steps
  BY OutputsRecorded
<1> QED
  BY <1>1, <1>2, SameResults DEF GiveUp, Ended

LEMMA ReturnsFits ==
  ASSUME RunInv, Returns
  PROVE  RunInv'
<1>1. \A k \in DOMAIN context : k \in DOMAIN steps
  BY OutputsRecorded DEF Returns
<1>2. DOMAIN context' \subseteq DOMAIN context \cup {Step}
  BY DEF Returns, With
<1>3. attempt' \in Nat /\ pc \notin Ended /\ pc' = "telling" /\ UNCHANGED <<status, steps>>
  BY DEF RunInv, Underway, Returns, Ended
<1> QED
  BY <1>1, <1>2, <1>3, SameResults

LEMMA ToldFits ==
  ASSUME RunInv, Told
  PROVE  RunInv'
<1>1. attempt' \in Nat /\ pc \notin Ended /\ Record("success") /\ context' = context
  BY DEF RunInv, Underway, Told, Ended
<1>2. \A k \in DOMAIN context : k \in DOMAIN steps \/ k = Step
  BY DEF RunInv, Output
<1> QED
  BY <1>1, <1>2, RecordFits DEF Result

LEMMA ReportedFits ==
  ASSUME RunInv, Reported
  PROVE  RunInv'
<1>1. attempt' \in Nat /\ pc \notin Ended /\ context' = context
  BY DEF RunInv, Underway, Reported, Ended
<1>2. \A k \in DOMAIN context : k \in DOMAIN steps
  BY OutputsRecorded DEF Reported
<1>3. PICK result \in Result : Record(result)
  BY DEF Reported, Result
<1> QED
  BY <1>1, <1>2, <1>3, RecordFits

LEMMA ConditionFits ==
  ASSUME RunInv, Condition
  PROVE  RunInv'
<1>1. attempt' \in Nat /\ pc \notin Ended /\ context' = context
  BY DEF RunInv, Underway, Condition, Ended
<1>2. \A k \in DOMAIN context : k \in DOMAIN steps
  BY OutputsRecorded DEF Condition
<1>3. CASE Record("skipped")
  BY <1>1, <1>2, <1>3, RecordFits DEF Result
<1>4. CASE pc' = "announcing" /\ UNCHANGED <<status, steps>>
  BY <1>1, <1>2, <1>4, SameResults
<1> QED
  BY <1>3, <1>4 DEF Condition

LEMMA StartsFits ==
  ASSUME RunInv, Announced \/ Paused
  PROVE  RunInv'
<1>1. /\ attempt' \in Nat /\ pc \notin Ended /\ context' = context /\ pc' = "trying"
      /\ UNCHANGED <<status, steps>>
  BY DEF RunInv, Underway, Announced, Paused, Ended
<1>2. \A k \in DOMAIN context : k \in DOMAIN steps
  BY OutputsRecorded DEF Announced, Paused
<1>3. attempt' <= MaxRetries[Step]
  BY Retries DEF RunInv, Verdict, Announced, Paused, Ended
<1> QED
  BY <1>1, <1>2, <1>3, SameResults

LEMMA CancelFits ==
  ASSUME RunInv, Cancel
  PROVE  RunInv'
<1>1. /\ attempt' \in Nat /\ pc \notin Ended /\ context' = context /\ pc' = "cancelled"
      /\ UNCHANGED <<status, steps>>
  BY DEF RunInv, Underway, Cancel, Ended
<1>2. \A k \in DOMAIN context : k \in DOMAIN steps \/ k = Step
  BY DEF RunInv, Output
<1> QED
  BY <1>1, <1>2, SameResults

\* Every step of a run, and every step that leaves it alone, keeps the invariant.
LEMMA RunKeeps ==
  ASSUME RunInv, [Run \/ Cancel]_<<pc, status, steps, context, attempt>>
  PROVE  RunInv'
<1>1. CASE Raises \/ TimesOut
  BY <1>1, GiveUpFits DEF Raises, TimesOut
<1>2. CASE UNCHANGED <<pc, status, steps, context, attempt>>
  BY <1>2 DEF RunInv, Underway, Verdict, Output, Step
<1> QED
  BY <1>1, <1>2, ReturnsFits, ToldFits, ReportedFits, ConditionFits, StartsFits, CancelFits DEF Run

\* The inductive invariant: how far a run has come, and what it may hold by then.
THEOREM RunsFit == Spec => []RunInv
<1>1. ASSUME RunInv, [Next]_vars
      PROVE  RunInv'
  BY <1>1, RunKeeps DEF Next, vars, ThreadEnds
<1> QED
  BY <1>1, RunBegins, PTL DEF Spec

\* The verdict is that of the results, whatever fails, times out or is cancelled.
THEOREM RunVerdict == Spec => []Verdict
<1>1. RunInv => Verdict
  BY DEF RunInv
<1> QED
  BY <1>1, RunsFit, PTL

\* The context holds outputs of successful steps only, whatever abandoned threads do.
THEOREM RunOutputs == Spec => []OnlySuccessOutputs
<1>1. RunInv => OnlySuccessOutputs
  BY DEF RunInv, Output, OnlySuccessOutputs
<1> QED
  BY <1>1, RunsFit, PTL
=============================================================================
