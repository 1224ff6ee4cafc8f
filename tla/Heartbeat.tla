------------------------------ MODULE Heartbeat ------------------------------
(***************************************************************************)
(* HeartbeatMonitor of agent/scheduler.py: passes over the registered      *)
(* health checks, one after the other, whose outcome is last_status.  The  *)
(* loop gives the thread away only while it awaits a check, the webhook or *)
(* the interval.  What the checks look at is external.                     *)
(***************************************************************************)
EXTENDS Naturals, Sequences, SequencesExt

CONSTANTS
  Names,    \* of checks
  Async,    \* those whose function is a coroutine function
  Webhook,  \* whether HEARTBEAT_WEBHOOK is set
  First     \* the checks registered by the constructor of the agent, in order

ASSUME HeartbeatAssumption ==
  /\ Async \subseteq Names
  /\ Webhook \in BOOLEAN
  /\ First \in Seq(Names) /\ IsInjective(First)

VARIABLES
  health,     \* what each check would say: "ok", "fail" or "error"
  checks,     \* _checks: the names in the order of the dictionary
  phase,      \* where the task of the loop is; "none", no task; "dead", it raised
  status,     \* the pass's status: [checks |-> (name, outcome) pairs, healthy]
  size,       \* how many checks the pass found when it began; 0, no pass
  last,       \* last_status
  witnessed,  \* the <<name, outcome>> that were true in this pass (for the properties)
  grew        \* whether a check was added during a pass (for the properties)

heartVars == <<health, checks, phase, status, size, last, witnessed, grew>>

Outcomes == {"ok", "fail", "error"}
Empty == [checks |-> <<>>, healthy |-> TRUE]
Now == {<<n, health[n]>> : n \in Names}

\* The thread is the loop's between two awaits.
Suspended == phase # "checking"
Running == phase \notin {"none", "dead"}
-----------------------------------------------------------------------------
HeartInit ==
  /\ health \in [Names -> Outcomes]
  /\ checks = First
  /\ phase = "none"
  /\ status = Empty /\ size = 0
  /\ last = Empty
  /\ witnessed = {} /\ grew = FALSE

\* What a check looks at changes.
Change(n) ==
  /\ Suspended
  /\ \E o \in Outcomes : health' = [health EXCEPT ![n] = o]
  /\ witnessed' = IF phase = "awaiting" THEN witnessed \cup {<<n, health'[n]>>} ELSE witnessed
  /\ UNCHANGED <<checks, phase, status, size, last, grew>>

\* register_check(); a name already there keeps its place.
RegisterCheck(n) ==
  /\ Suspended
  /\ n \notin ToSet(checks)
  /\ checks' = Append(checks, n)
  /\ grew' = (grew \/ phase = "awaiting")
  /\ UNCHANGED <<health, phase, status, size, last, witnessed>>

\* start(), and the end of the interval: a pass over the checks.
Begins ==
  /\ phase' = "checking"
  /\ status' = Empty /\ size' = Len(checks)
  /\ witnessed' = Now
  /\ UNCHANGED <<health, checks, last, grew>>

Start == phase = "none" /\ Begins
Wake == phase = "sleeping" /\ Begins

\* The locals of the pass are gone.
PassOver == status' = Empty /\ size' = 0 /\ witnessed' = {}

\* stop() cancels the task, and no handler of the loop catches CancelledError.
Stop ==
  /\ Running /\ Suspended
  /\ phase' = "none" /\ PassOver
  /\ UNCHANGED <<health, checks, last, grew>>

\* A check says ok, says no, or raises.
NotedForgiven(n) ==
  status' = [checks |-> Append(status.checks, <<n, health[n]>>),
             healthy |-> status.healthy /\ health[n] # "fail"]
Noted(n) ==
  status' = [checks |-> Append(status.checks, <<n, health[n]>>),
             healthy |-> status.healthy /\ health[n] = "ok"]

\* The iteration goes on: a dictionary that has grown makes it raise, outside the try.
Position == Len(status.checks) + 1
IterationFails ==
  /\ phase = "checking" /\ Len(checks) # size
  /\ phase' = "dead" /\ PassOver
  /\ UNCHANGED <<health, checks, last, grew>>

CheckNow ==
  /\ phase = "checking" /\ Len(checks) = size /\ Position <= size
  /\ IF checks[Position] \in Async
     THEN phase' = "awaiting" /\ UNCHANGED status
     ELSE Noted(checks[Position]) /\ UNCHANGED phase
  /\ UNCHANGED <<health, checks, size, last, witnessed, grew>>

\* The awaited check returns or raises, what it saw being of some time during it.
CheckedUncaught ==
  /\ phase = "awaiting"
  /\ Noted(checks[Position])
  /\ phase' = IF health[checks[Position]] = "error" THEN "dead" ELSE "checking"
  /\ UNCHANGED <<health, checks, size, last, witnessed, grew>>
Checked ==
  /\ phase = "awaiting"
  /\ Noted(checks[Position])
  /\ phase' = "checking"
  /\ UNCHANGED <<health, checks, size, last, witnessed, grew>>

\* The pass is over: its status replaces the last one, and goes to the webhook.
PublishStatus ==
  /\ phase = "checking" /\ Len(checks) = size /\ Position > size
  /\ last' = status
  /\ phase' = IF Webhook THEN "pinging" ELSE "sleeping"
  /\ PassOver
  /\ UNCHANGED <<health, checks, grew>>

\* The ping is answered, fails or times out: it only logs.
Pinged ==
  /\ phase = "pinging"
  /\ phase' = "sleeping"
  /\ UNCHANGED <<health, checks, status, size, last, witnessed, grew>>

Loop == Wake \/ IterationFails \/ CheckNow \/ Checked \/ PublishStatus \/ Pinged

HeartNext ==
  \/ Start \/ Stop \/ Loop
  \/ \E n \in Names : Change(n) \/ RegisterCheck(n)

HeartSpec == HeartInit /\ [][HeartNext]_heartVars

\* The checks return: the only one that awaits goes through an HTTP session with a
\* timeout of two minutes (ollama_client.py), and the ping has one of five seconds.
FairHeart == HeartSpec /\ WF_heartVars(Loop)
-----------------------------------------------------------------------------
\* A status says of each check registered when its pass began, and of no other, what
\* was true of it at some time in that pass, and that all is well just when each is.
StatusTruthful ==
  [][last' # last =>
       /\ {p[1] : p \in ToSet(last'.checks)} = ToSet(SubSeq(checks, 1, size))
       /\ Len(last'.checks) = size
       /\ ToSet(last'.checks) \subseteq witnessed
       /\ last'.healthy <=> \A p \in ToSet(last'.checks) : p[2] = "ok"]_heartVars

\* Whatever the checks say or raise, a heartbeat that is not stopped makes pass after
\* pass, unless a check is added in the middle of one.
HeartbeatGoesOn ==
  (<>[](phase # "none") /\ []~grew) => []<>(phase = "sleeping")
=============================================================================
