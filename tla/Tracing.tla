------------------------------- MODULE Tracing ------------------------------
(***************************************************************************)
(* Tracer of agent/tracing.py as concurrent tasks use it: spans opened and *)
(* closed by span, async_span and llm_span inside the safe_* contexts      *)
(* (core.py has one of its own), the context variable that holds the       *)
(* current span of a task, and the trace id, which all tasks share.        *)
(* Attributes, events, the exporter and the statistics are left out.       *)
(***************************************************************************)
EXTENDS Naturals, Sequences, FiniteSets

CONSTANTS
  Tasks,
  MaxSpans,    \* max_spans
  MaxStarted,  \* bound on the spans started
  MaxTraces    \* bound on the traces

ASSUME TracingAssumption ==
  /\ MaxSpans \in Nat /\ MaxSpans >= 2 /\ MaxStarted \in Nat /\ MaxTraces \in Nat \ {0}

VARIABLES
  spans,     \* every span started, the oldest first; 0 stands for no span
  recorded,  \* _spans: places in spans
  traces,    \* how many trace ids have been made
  shared,    \* _current_trace_id, 0 for None
  current,   \* _current_span, of each task
  open,      \* the context managers a task is in: [span, before], before being
             \*   what the reset of its token brings back
  kin,       \* the tasks whose context a task's comes from, and itself; none,
             \*   if it has not begun (for the properties)
  hit        \* the tasks in which a timeout has gone through a span (for the properties)

tracerVars == <<spans, recorded, traces, shared, current, open, kin, hit>>

HalfSpans == MaxSpans \div 2
Span == DOMAIN spans
Newest(s) == SubSeq(s, Len(s) - HalfSpans + 1, Len(s))
-----------------------------------------------------------------------------
TracerInit ==
  /\ spans = <<>> /\ recorded = <<>>
  /\ traces = 0 /\ shared = 0
  /\ current = [t \in Tasks |-> 0]
  /\ open = [t \in Tasks |-> <<>>]
  /\ kin = [t \in Tasks |-> {}]
  /\ hit = {}

\* A task of the server begins: no span is current.
Begin(t) ==
  /\ kin[t] = {}
  /\ kin' = [kin EXCEPT ![t] = {t}]
  /\ UNCHANGED <<spans, recorded, traces, shared, current, open, hit>>

\* gather() or create_task(): the new task gets a copy of the context.
Spawn(t, u) ==
  /\ kin[t] # {} /\ kin[u] = {}
  /\ kin' = [kin EXCEPT ![u] = kin[t] \cup {u}]
  /\ current' = [current EXCEPT ![u] = current[t]]
  /\ UNCHANGED <<spans, recorded, traces, shared, open, hit>>

NewTrace ==
  /\ traces < MaxTraces
  /\ traces' = traces + 1
  /\ shared' = traces'
  /\ UNCHANGED <<spans, recorded, current, open, kin, hit>>

\* The trace of a new span: its parent's, or the shared one, or one more.
TraceOfLatest(parent) ==
  IF shared > 0 THEN shared ELSE IF parent > 0 THEN spans[parent].trace ELSE traces + 1
TraceOf(parent) ==
  IF parent > 0 THEN spans[parent].trace ELSE IF shared > 0 THEN shared ELSE traces + 1

\* _record(): a full history keeps its newer half.
Record(i) ==
  recorded' = Append(IF Len(recorded) >= MaxSpans THEN Newest(recorded) ELSE recorded, i)

OpenSpanAnywhere(t) ==
  LET i == Len(spans) + 1  parent == IF spans = <<>> THEN 0 ELSE Len(spans)
  IN /\ kin[t] # {} /\ i <= MaxStarted
     /\ spans' = Append(spans, [task |-> t, parent |-> parent,
                                trace |-> TraceOf(parent), status |-> "pending"])
     /\ Record(i)
     /\ shared' = TraceOf(parent)
     /\ traces' = IF shared' > traces THEN shared' ELSE traces
     /\ current' = [current EXCEPT ![t] = i]
     /\ open' = [open EXCEPT ![t] = Append(@, [span |-> i, before |-> current[t]])]
     /\ UNCHANGED <<kin, hit>>
\* A block is entered: start_span(), and the span becomes the current one.
OpenSpan(t) ==
  LET i == Len(spans) + 1  parent == current[t]
  IN /\ kin[t] # {} /\ i <= MaxStarted
     /\ spans' = Append(spans, [task |-> t, parent |-> parent,
                                trace |-> TraceOf(parent), status |-> "pending"])
     /\ Record(i)
     /\ shared' = TraceOf(parent)
     /\ traces' = IF shared' > traces THEN shared' ELSE traces
     /\ current' = [current EXCEPT ![t] = i]
     /\ open' = [open EXCEPT ![t] = Append(@, [span |-> i, before |-> parent])]
     /\ UNCHANGED <<kin, hit>>

Innermost(t) == open[t][Len(open[t])]
Outer(t) == SubSeq(open[t], 1, Len(open[t]) - 1)

\* The innermost block of a task is left, normally or by an exception: the span
\* ends, and what was current before is so again.
CloseSpanErrorCurrent(t, status) ==
  /\ open[t] # <<>>
  /\ spans' = [spans EXCEPT ![Innermost(t).span].status = status]
  /\ current' = IF status = "ok" THEN [current EXCEPT ![t] = Innermost(t).before] ELSE current
  /\ open' = [open EXCEPT ![t] = Outer(t)]
  /\ UNCHANGED <<recorded, traces, shared, kin, hit>>
CloseSpan(t, status) ==
  /\ open[t] # <<>>
  /\ spans' = [spans EXCEPT ![Innermost(t).span].status = status]
  /\ current' = [current EXCEPT ![t] = Innermost(t).before]
  /\ open' = [open EXCEPT ![t] = Outer(t)]
  /\ UNCHANGED <<recorded, traces, shared, kin, hit>>

\* wait_for() cancels the inner blocks of a task that goes on.  CancelledError is no
\* Exception: the blocks are gone, their spans do not end, the last stays current.
TimeOut(t) ==
  /\ open[t] # <<>>
  /\ \E n \in 0 .. Len(open[t]) - 1 : open' = [open EXCEPT ![t] = SubSeq(@, 1, n)]
  /\ hit' = hit \cup {t}
  /\ UNCHANGED <<spans, recorded, traces, shared, current, kin>>

Clear ==
  /\ recorded' = <<>>
  /\ shared' = 0
  /\ UNCHANGED <<spans, traces, current, open, kin, hit>>

TracerNext ==
  \/ NewTrace \/ Clear
  \/ \E t \in Tasks :
       \/ Begin(t) \/ OpenSpan(t) \/ TimeOut(t)
       \/ \E u \in Tasks : Spawn(t, u)
       \/ \E status \in {"ok", "error"} : CloseSpan(t, status)

TracerSpec == TracerInit /\ [][TracerNext]_tracerVars
-----------------------------------------------------------------------------
\* A span is in the trace of its parent, whatever other tasks do to the shared
\* trace id, however they interleave.
SameTrace ==
  \A i \in Span : spans[i].parent > 0 =>
    /\ spans[i].parent < i
    /\ spans[i].trace = spans[spans[i].parent].trace

\* A span's parent was opened by its own task or one its context comes from, never
\* by a task that only runs beside it.
OwnParent ==
  \A i \in Span : spans[i].parent > 0 => spans[spans[i].parent].task \in kin[spans[i].task]

\* Where no timeout went: exactly the spans of blocks still entered are pending, the
\* blocks nest, and a task is between them back in the span its context began with.
BlocksNest ==
  \A t \in Tasks \ hit :
    /\ \A i \in Span : spans[i].task = t =>
         (spans[i].status = "pending" <=> \E k \in DOMAIN open[t] : open[t][k].span = i)
    /\ open[t] # <<>> => current[t] = Innermost(t).span
    /\ \A k \in DOMAIN open[t] : k > 1 => open[t][k].before = open[t][k - 1].span
    /\ open[t] = <<>> /\ current[t] > 0 => spans[current[t]].task \in kin[t] \ {t}
=============================================================================
