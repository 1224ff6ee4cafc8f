---------------------------- MODULE ToolRegistry ----------------------------
(***************************************************************************)
(* ToolRegistry of agent/tools_registry.py and its callers: POST           *)
(* /tools/call (main.py), which may confirm a call, and the agent and its  *)
(* workflows, which may not.  Registering a tool under a name that is      *)
(* taken makes a new object with counters of its own; a call keeps the     *)
(* object it found.  Arguments are valid or not.                           *)
(***************************************************************************)
EXTENDS Windows

CONSTANTS
  Calls, Names, Sessions,
  MaxPerWindow, Window,  \* max_per_minute of the limiting middleware and its minute
  MaxTools,              \* bound on the registrations
  MaxTime,               \* bound on the clock
  None                   \* no call yet

ASSUME RegistryAssumption ==
  /\ MaxPerWindow \in Nat \ {0} /\ Window \in Nat \ {0}
  /\ MaxTools \in Nat /\ MaxTime \in Nat \ {0}

VARIABLES
  now,
  tools,    \* every RegisteredTool ever registered, the oldest first
  stamps,   \* _counts of the limiting middleware: the times of a key's calls
  request,  \* the ToolCall of each call
  state,    \* what the call awaits, or how it ended
  tool,     \* the tool a call found: its place in tools
  trail,    \* what the audit log holds of each call
  passed    \* when the call passed the limiter, or 0 (for the properties)

vars == <<now, tools, stamps, request, state, tool, trail, passed>>

\* Where the call comes from: the agent, or the endpoint without confirmation,
\* with one by a role that may not give it, or with a good one.
Grants == {"agent", "unconfirmed", "unprivileged", "confirmed"}
Request == [name : Names, session : Sessions, grant : Grants]

\* _tools[name]: the last one registered.
Found(name) == {i \in DOMAIN tools : tools[i].name = name
                  /\ \A j \in DOMAIN tools : tools[j].name = name => j <= i}

Key(r) == <<r.session, r.name>>
\* The times of a key's calls that are within the window.
RecentShort(r) == Pruned(stamps[Key(r)], Window - 1, now)
Recent(r) == Pruned(stamps[Key(r)], Window, now)
-----------------------------------------------------------------------------
Init ==
  /\ now = 1 /\ tools = <<>>
  /\ stamps = [k \in Sessions \X Names |-> <<>>]
  /\ request = [c \in Calls |-> None]
  /\ state = [c \in Calls |-> "new"]
  /\ tool = [c \in Calls |-> 0]
  /\ trail = [c \in Calls |-> <<>>]
  /\ passed = [c \in Calls |-> 0]

Register(name, confirm) ==
  /\ Len(tools) < MaxTools
  /\ tools' = Append(tools, [name |-> name, confirm |-> confirm, enabled |-> TRUE,
                             calls |-> 0, errors |-> 0])
  /\ UNCHANGED <<now, stamps, request, state, tool, trail, passed>>

\* enable() and disable()
Switch(name, on) ==
  /\ \E i \in Found(name) : tools' = [tools EXCEPT ![i].enabled = on]
  /\ UNCHANGED <<now, stamps, request, state, tool, trail, passed>>

Tick ==
  /\ now < MaxTime
  /\ now' = now + 1
  /\ UNCHANGED <<tools, stamps, request, state, tool, trail, passed>>

\* The call is over before anything ran; only call() itself tells the audit log.
Ends(c, how) ==
  /\ state' = [state EXCEPT ![c] = how]
  /\ trail' = [trail EXCEPT ![c] = IF how = "rejected" THEN Append(@, "rejected") ELSE @]

\* The limiting middleware forgets what has left the window, and counts the call in.
Limit(c, r) ==
  IF Len(Recent(r)) < MaxPerWindow
  THEN /\ stamps' = [stamps EXCEPT ![Key(r)] = Append(Recent(r), now)]
       /\ passed' = [passed EXCEPT ![c] = now]
       /\ state' = [state EXCEPT ![c] = "screening"] /\ UNCHANGED trail
  ELSE /\ stamps' = [stamps EXCEPT ![Key(r)] = Recent(r)]
       /\ Ends(c, "stopped") /\ UNCHANGED passed

\* The endpoint's confirmation_policy, and the checks of call().
Refused(i, r) == tools[i].confirm /\ r.grant \in {"unconfirmed", "unprivileged"}
Available(i, r) == tools[i].enabled /\ (tools[i].confirm => r.grant = "confirmed")

\* A call comes in: everything up to the first await, in one go.
Call(c, r) ==
  /\ state[c] = "new"
  /\ request' = [request EXCEPT ![c] = r]
  /\ UNCHANGED <<now, tools>>
  /\ \/ /\ Found(r.name) = {}
        /\ Ends(c, "rejected") /\ UNCHANGED <<stamps, tool, passed>>
     \/ \E i \in Found(r.name) :
          /\ tool' = [tool EXCEPT ![c] = i]
          /\ \/ Refused(i, r) /\ Ends(c, "refused") /\ UNCHANGED <<stamps, passed>>
             \/ /\ ~Refused(i, r) /\ ~Available(i, r)
                /\ Ends(c, "rejected") /\ UNCHANGED <<stamps, passed>>
             \/ Available(i, r) /\ Limit(c, r)

\* The other middlewares, which may be coroutines, let it through or not.
Stopped(c) ==
  /\ state[c] = "screening"
  /\ Ends(c, "stopped")
  /\ UNCHANGED <<now, tools, stamps, request, tool, passed>>

Invalid(c) ==
  /\ state[c] = "screening"
  /\ Ends(c, "rejected")
  /\ UNCHANGED <<now, tools, stamps, request, tool, passed>>

\* It is counted, logged, and its function called.
BeginNewest(c) ==
  /\ state[c] = "screening"
  /\ \E i \in Found(request[c].name) :
       /\ tools' = [tools EXCEPT ![i].calls = @ + 1]
       /\ tool' = [tool EXCEPT ![c] = i]
  /\ trail' = [trail EXCEPT ![c] = Append(@, "execution")]
  /\ state' = [state EXCEPT ![c] = "running"]
  /\ UNCHANGED <<now, stamps, request, passed>>
Begin(c) ==
  /\ state[c] = "screening"
  /\ tools' = [tools EXCEPT ![tool[c]].calls = @ + 1]
  /\ trail' = [trail EXCEPT ![c] = Append(@, "execution")]
  /\ state' = [state EXCEPT ![c] = "running"]
  /\ UNCHANGED <<now, stamps, request, tool, passed>>

Succeeds(c) ==
  /\ state[c] = "running"
  /\ trail' = [trail EXCEPT ![c] = Append(@, "success")]
  /\ state' = [state EXCEPT ![c] = "succeeded"]
  /\ UNCHANGED <<now, tools, stamps, request, tool, passed>>

\* The function raises, or its time is over.
FailsUnlogged(c) ==
  /\ state[c] = "running"
  /\ tools' = [tools EXCEPT ![tool[c]].errors = @ + 1]
  /\ \/ trail' = [trail EXCEPT ![c] = Append(@, "failure")]
     \/ UNCHANGED trail
  /\ state' = [state EXCEPT ![c] = "failed"]
  /\ UNCHANGED <<now, stamps, request, tool, passed>>
FailsNewest(c) ==
  /\ state[c] = "running"
  /\ \E i \in Found(request[c].name) : tools' = [tools EXCEPT ![i].errors = @ + 1]
  /\ trail' = [trail EXCEPT ![c] = Append(@, "failure")]
  /\ state' = [state EXCEPT ![c] = "failed"]
  /\ UNCHANGED <<now, stamps, request, tool, passed>>
Fails(c) ==
  /\ state[c] = "running"
  /\ tools' = [tools EXCEPT ![tool[c]].errors = @ + 1]
  /\ trail' = [trail EXCEPT ![c] = Append(@, "failure")]
  /\ state' = [state EXCEPT ![c] = "failed"]
  /\ UNCHANGED <<now, stamps, request, tool, passed>>

\* Its task is cancelled, by the timeout of a workflow's step for one: nothing
\* in call() catches that.
Cancelled(c) ==
  /\ state[c] \in {"screening", "running"}
  /\ Ends(c, "cancelled")
  /\ UNCHANGED <<now, tools, stamps, request, tool, passed>>

Next ==
  \/ Tick
  \/ \E name \in Names : \E b \in BOOLEAN : Register(name, b) \/ Switch(name, b)
  \/ \E c \in Calls :
       \/ \E r \in Request : Call(c, r)
       \/ Stopped(c) \/ Invalid(c) \/ Begin(c)
       \/ Succeeds(c) \/ Fails(c) \/ Cancelled(c)

Spec == Init /\ [][Next]_vars
-----------------------------------------------------------------------------
Told(c, entry) == \E i \in DOMAIN trail[c] : trail[c][i] = entry
Ran(c) == Told(c, "execution")

\* Whatever is registered, replaced, switched or cancelled while calls wait, the
\* counters of a tool are those of its own runs: success_rate stays within 0..1.
Accounting ==
  \A i \in DOMAIN tools :
    /\ tools[i].calls = Cardinality({c \in Calls : Ran(c) /\ tool[c] = i})
    /\ tools[i].errors = Cardinality({c \in Calls : state[c] = "failed" /\ tool[c] = i})

\* The audit log tells every run, and of each how it ended, unless it goes on or
\* was cancelled; a call it holds a rejection of never runs.
RunsAudited ==
  \A c \in Calls :
    /\ trail[c] \in {<<>>, <<"rejected">>, <<"execution">>,
                     <<"execution", "success">>, <<"execution", "failure">>}
    /\ state[c] \in {"running", "succeeded", "failed"} => Ran(c)
    /\ trail[c] = <<"execution">> => state[c] \in {"running", "cancelled"}

\* A tool that asks for confirmation runs only when its own call was confirmed, by a
\* role that may, however the tool of that name was replaced in the meantime.
OnlyConfirmedRun ==
  \A c \in Calls :
    Ran(c) /\ tools[tool[c]].confirm => request[c].grant = "confirmed"

\* No session gets more than MaxPerWindow calls of a tool past the limiter in any
\* Window, wherever it begins.
NotTooFrequent ==
  \A c \in Calls : passed[c] > 0 =>
    Cardinality({d \in Calls : /\ passed[d] > 0 /\ Key(request[d]) = Key(request[c])
                               /\ passed[d] <= passed[c] /\ passed[c] - passed[d] < Window})
      <= MaxPerWindow
=============================================================================
