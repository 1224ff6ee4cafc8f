------------------------- MODULE ToolRegistryProofs -------------------------
(***************************************************************************)
(* Proofs about ToolRegistry, for any calls, tools, names and limits.      *)
(* RegInv ties what the audit log holds of a call to where the call is,    *)
(* and says that a call past the checks holds a tool it may run; that the  *)
(* held tool is never the one that replaced it is what makes it inductive. *)
(***************************************************************************)
EXTENDS ToolRegistry, SequenceLemmas

Tool == [name : Names, confirm : BOOLEAN, enabled : BOOLEAN, calls : Nat, errors : Nat]

States == {"new", "refused", "stopped", "rejected", "screening", "running",
           "succeeded", "failed", "cancelled"}

Entries == {"rejected", "execution", "success", "failure"}

Types ==
  /\ tools \in Seq(Tool)
  /\ state \in [Calls -> States]
  /\ request \in [Calls -> Request \cup {None}]
  /\ tool \in [Calls -> Nat]
  /\ trail \in [Calls -> Seq(Entries)]

\* What the audit log holds of a call, by where the call is.
TrailFits(c) ==
  /\ state[c] \in {"new", "refused", "stopped", "screening"} => trail[c] = <<>>
  /\ state[c] = "rejected" => trail[c] = <<"rejected">>
  /\ state[c] = "running" => trail[c] = <<"execution">>
  /\ state[c] = "succeeded" => trail[c] = <<"execution", "success">>
  /\ state[c] = "failed" => trail[c] = <<"execution", "failure">>
  /\ state[c] = "cancelled" => trail[c] \in {<<>>, <<"execution">>}

\* A call past the checks of call() holds a tool that it may run.
HoldsTool(c) ==
  state[c] \in {"screening", "running", "succeeded", "failed", "cancelled"} =>
    /\ tool[c] \in DOMAIN tools
    /\ tools[tool[c]].confirm => request[c].grant = "confirmed"

RegInv == Types /\ \A c \in Calls : TrailFits(c) /\ HoldsTool(c)

\* Whatever is registered or counted, a tool stays in its place and goes on
\* asking for confirmation, or not.
ToolsKept ==
  /\ DOMAIN tools \subseteq DOMAIN tools'
  /\ \A i \in DOMAIN tools : tools'[i].confirm = tools[i].confirm

\* What a step leaves of a call that it does not touch.
Untouched(c) ==
  /\ state'[c] = state[c] /\ trail'[c] = trail[c]
  /\ tool'[c] = tool[c] /\ request'[c] = request[c]

\* Sequences of one and of two elements are what appending makes of them.
LEMMA ShortSequences ==
  ASSUME NEW S, NEW e \in S, NEW f \in S
  PROVE  <<>> \in Seq(S) /\ <<e>> \in Seq(S) /\ <<e, f>> \in Seq(S)
  OBVIOUS

LEMMA AppendToNone ==
  ASSUME NEW S, NEW e \in S
  PROVE  Append(<<>>, e) = <<e>>
<1>1. <<>> \in Seq(S) /\ <<e>> \in Seq(S)
  BY ShortSequences
<1>2. Append(<<>>, e) \in Seq(S) /\ Len(Append(<<>>, e)) = 1 /\ Append(<<>>, e)[1] = e
  BY <1>1
<1>3. Len(<<e>>) = 1 /\ <<e>>[1] = e
  OBVIOUS
<1> QED
  BY <1>1, <1>2, <1>3, SeqEqual

LEMMA AppendToOne ==
  ASSUME NEW S, NEW e \in S, NEW f \in S
  PROVE  Append(<<e>>, f) = <<e, f>>
<1>1. <<e>> \in Seq(S) /\ <<e, f>> \in Seq(S)
  BY ShortSequences
<1>2. /\ Append(<<e>>, f) \in Seq(S) /\ Len(Append(<<e>>, f)) = 2
      /\ Append(<<e>>, f)[1] = e /\ Append(<<e>>, f)[2] = f
  BY <1>1
<1>3. Len(<<e, f>>) = 2 /\ <<e, f>>[1] = e /\ <<e, f>>[2] = f
  OBVIOUS
<1>4. \A i \in 1..2 : i = 1 \/ i = 2
  OBVIOUS
<1>5. \A i \in 1..Len(Append(<<e>>, f)) : Append(<<e>>, f)[i] = <<e, f>>[i]
  BY <1>2, <1>3, <1>4
<1>6. Len(Append(<<e>>, f)) = Len(<<e, f>>)
  BY <1>2, <1>3
<1> QED
  BY <1>1, <1>2, <1>5, <1>6, SeqEqual

LEMMA AppendedTrails ==
  /\ Append(<<>>, "rejected") = <<"rejected">>
  /\ Append(<<>>, "execution") = <<"execution">>
  /\ Append(<<"execution">>, "success") = <<"execution", "success">>
  /\ Append(<<"execution">>, "failure") = <<"execution", "failure">>
<1>1. /\ "execution" \in {"execution", "success", "failure"}
      /\ "success" \in {"execution", "success", "failure"}
      /\ "failure" \in {"execution", "success", "failure"}
  OBVIOUS
<1>2. Append(<<>>, "rejected") = <<"rejected">> /\ Append(<<>>, "execution") = <<"execution">>
  BY AppendToNone
<1>3. Append(<<"execution">>, "success") = <<"execution", "success">>
  BY <1>1, AppendToOne
<1>4. Append(<<"execution">>, "failure") = <<"execution", "failure">>
  BY <1>1, AppendToOne
<1> QED
  BY <1>2, <1>3, <1>4

\* What the audit log says of the calls it holds a run of.
LEMMA RanByTrail ==
  ASSUME NEW c \in Calls, Types
  PROVE  /\ trail[c] \in {<<"execution">>, <<"execution", "success">>,
                          <<"execution", "failure">>} => Ran(c)
         /\ trail[c] \in {<<>>, <<"rejected">>} => ~Ran(c)
<1>1. CASE trail[c] = <<>>
  BY <1>1 DEF Ran, Told
<1>2. CASE trail[c] = <<"rejected">>
  BY <1>2 DEF Ran, Told
<1>3. CASE trail[c] \in {<<"execution">>, <<"execution", "success">>, <<"execution", "failure">>}
  <2>1. 1 \in DOMAIN trail[c] /\ trail[c][1] = "execution"
    BY <1>3
  <2>2. Ran(c)
    BY <2>1 DEF Ran, Told
  <2>3. trail[c] # <<>> /\ trail[c] # <<"rejected">>
    BY <1>3
  <2> QED
    BY <2>2, <2>3
<1>4. CASE trail[c] \notin {<<>>, <<"rejected">>, <<"execution">>,
                            <<"execution", "success">>, <<"execution", "failure">>}
  BY <1>4
<1> QED
  BY <1>1, <1>2, <1>3, <1>4

\* The trails a call may have are sequences of entries.
LEMMA TrailsAreEntries ==
  /\ <<"rejected">> \in Seq(Entries) /\ <<"execution">> \in Seq(Entries)
  /\ <<"execution", "success">> \in Seq(Entries) /\ <<"execution", "failure">> \in Seq(Entries)
<1>1. /\ "rejected" \in Entries /\ "execution" \in Entries
      /\ "success" \in Entries /\ "failure" \in Entries
  BY DEF Entries
<1>2. <<"rejected">> \in Seq(Entries) /\ <<"execution">> \in Seq(Entries)
  BY <1>1, ShortSequences
<1>3. <<"execution", "success">> \in Seq(Entries)
  BY <1>1, ShortSequences
<1>4. <<"execution", "failure">> \in Seq(Entries)
  BY <1>1, ShortSequences
<1> QED
  BY <1>2, <1>3, <1>4

\* A call that a step leaves alone goes on fitting, if the tools are kept.
LEMMA UntouchedFits ==
  ASSUME NEW c \in Calls, TrailFits(c), HoldsTool(c), ToolsKept, Untouched(c)
  PROVE  TrailFits(c)' /\ HoldsTool(c)'
<1>1. TrailFits(c)'
  BY DEF TrailFits, Untouched
<1>2. HoldsTool(c)'
  BY DEF HoldsTool, Untouched, ToolsKept
<1> QED
  BY <1>1, <1>2

\* A step that changes one tool's flag or counters keeps the tools.
LEMMA ChangedToolKept ==
  ASSUME NEW i \in DOMAIN tools, tools \in Seq(Tool), NEW new \in Tool,
         new.confirm = tools[i].confirm, tools' = [tools EXCEPT ![i] = new]
  PROVE  tools' \in Seq(Tool) /\ ToolsKept
<1>1. DOMAIN tools' = DOMAIN tools
  OBVIOUS
<1>2. tools' \in Seq(Tool)
  OBVIOUS
<1>3. \A j \in DOMAIN tools : tools'[j].confirm = tools[j].confirm
  OBVIOUS
<1> QED
  BY <1>1, <1>2, <1>3 DEF ToolsKept

\* Counting a call or an error changes nothing else of a tool.
LEMMA CountedTool ==
  ASSUME NEW i \in DOMAIN tools, tools \in Seq(Tool),
         \/ tools' = [tools EXCEPT ![i].calls = @ + 1]
         \/ tools' = [tools EXCEPT ![i].errors = @ + 1]
  PROVE  tools' \in Seq(Tool) /\ ToolsKept
<1>1. tools[i] \in Tool
  OBVIOUS
<1>2. CASE tools' = [tools EXCEPT ![i].calls = @ + 1]
  <2>1. PICK count : count = tools[i].calls + 1
    OBVIOUS
  <2>2. count \in Nat
    BY <1>1, <2>1 DEF Tool
  <2>3. PICK new : new = [tools[i] EXCEPT !.calls = count]
    OBVIOUS
  <2>4. new \in Tool /\ new.confirm = tools[i].confirm
    BY <1>1, <2>2, <2>3 DEF Tool
  <2>5. tools' = [tools EXCEPT ![i] = new]
    BY <1>2, <2>1, <2>3
  <2> QED
    BY <2>4, <2>5, ChangedToolKept
<1>3. CASE tools' = [tools EXCEPT ![i].errors = @ + 1]
  <2>1. PICK count : count = tools[i].errors + 1
    OBVIOUS
  <2>2. count \in Nat
    BY <1>1, <2>1 DEF Tool
  <2>3. PICK new : new = [tools[i] EXCEPT !.errors = count]
    OBVIOUS
  <2>4. new \in Tool /\ new.confirm = tools[i].confirm
    BY <1>1, <2>2, <2>3 DEF Tool
  <2>5. tools' = [tools EXCEPT ![i] = new]
    BY <1>3, <2>1, <2>3
  <2> QED
    BY <2>4, <2>5, ChangedToolKept
<1> QED
  BY <1>2, <1>3

\* A step that touches one call keeps the invariant, if that call still fits.
LEMMA OneCallStep ==
  ASSUME RegInv, NEW c \in Calls, Types', ToolsKept,
         \A d \in Calls \ {c} : Untouched(d), TrailFits(c)', HoldsTool(c)'
  PROVE  RegInv'
<1>1. ASSUME NEW d \in Calls
      PROVE  TrailFits(d)' /\ HoldsTool(d)'
  <2>1. CASE d = c
    BY <2>1
  <2>2. CASE d # c
    <3>1. TrailFits(d) /\ HoldsTool(d) /\ Untouched(d)
      BY <2>2 DEF RegInv
    <3> QED
      BY <3>1, UntouchedFits
  <2> QED
    BY <2>1, <2>2
<1> QED
  BY <1>1 DEF RegInv

\* A step that touches no call keeps the invariant.
LEMMA NoCallStep ==
  ASSUME RegInv, Types', ToolsKept, \A d \in Calls : Untouched(d)
  PROVE  RegInv'
<1>1. ASSUME NEW d \in Calls
      PROVE  TrailFits(d)' /\ HoldsTool(d)'
  <2>1. TrailFits(d) /\ HoldsTool(d) /\ Untouched(d)
    BY DEF RegInv
  <2> QED
    BY <2>1, UntouchedFits
<1> QED
  BY <1>1 DEF RegInv

\* The tool of a name is one of the tools.
LEMMA FoundAreTools ==
  ASSUME NEW name, NEW i \in Found(name)
  PROVE  i \in DOMAIN tools
  BY DEF Found

LEMMA RegisterKeeps ==
  ASSUME RegInv, NEW name \in Names, NEW confirm \in BOOLEAN, Register(name, confirm)
  PROVE  RegInv'
<1>1. PICK new \in Tool : tools' = Append(tools, new)
  BY DEF Register, Tool
<1>2. tools' \in Seq(Tool) /\ ToolsKept
  BY <1>1 DEF RegInv, Types, ToolsKept
<1>3. Types'
  BY <1>2 DEF RegInv, Types, Register
<1>4. \A d \in Calls : Untouched(d)
  BY DEF Register, Untouched
<1> QED
  BY <1>2, <1>3, <1>4, NoCallStep

LEMMA SwitchKeeps ==
  ASSUME RegInv, NEW name \in Names, NEW on \in BOOLEAN, Switch(name, on)
  PROVE  RegInv'
<1>1. PICK i \in Found(name) : tools' = [tools EXCEPT ![i].enabled = on]
  BY DEF Switch
<1>2. i \in DOMAIN tools /\ tools \in Seq(Tool)
  BY FoundAreTools DEF RegInv, Types
<1>3. tools[i] \in Tool
  BY <1>2
<1>4. PICK new \in Tool : new.confirm = tools[i].confirm /\ tools' = [tools EXCEPT ![i] = new]
  BY <1>1, <1>2, <1>3 DEF Tool
<1>5. tools' \in Seq(Tool) /\ ToolsKept
  BY <1>2, <1>4, ChangedToolKept
<1>6. Types'
  BY <1>5 DEF RegInv, Types, Switch
<1>7. \A d \in Calls : Untouched(d)
  BY DEF Switch, Untouched
<1> QED
  BY <1>5, <1>6, <1>7, NoCallStep

LEMMA TickKeeps ==
  ASSUME RegInv, Tick
  PROVE  RegInv'
<1>1. ToolsKept /\ Types'
  BY DEF RegInv, Types, Tick, ToolsKept
<1>2. \A d \in Calls : Untouched(d)
  BY DEF Tick, Untouched
<1> QED
  BY <1>1, <1>2, NoCallStep

\* A call that ends before its function ran fits, and disturbs no other.
LEMMA EndedFits ==
  ASSUME RegInv, NEW c \in Calls, NEW how \in {"refused", "stopped", "rejected"},
         state[c] \in {"new", "screening"}, Ends(c, how)
  PROVE  /\ state' \in [Calls -> States] /\ trail' \in [Calls -> Seq(Entries)]
         /\ TrailFits(c)' /\ state'[c] = how
         /\ \A d \in Calls \ {c} : state'[d] = state[d] /\ trail'[d] = trail[d]
<1>1. state \in [Calls -> States] /\ trail \in [Calls -> Seq(Entries)] /\ trail[c] = <<>>
  BY DEF RegInv, Types, TrailFits
<1>2. state' = [state EXCEPT ![c] = how] /\ how \in States
  BY DEF Ends, States
<1>3. CASE how = "rejected"
  <2>1. trail' = [trail EXCEPT ![c] = <<"rejected">>]
    BY <1>1, <1>3, AppendedTrails DEF Ends
  <2>2. <<"rejected">> \in Seq(Entries)
    BY TrailsAreEntries
  <2>3. trail'[c] = <<"rejected">> /\ state'[c] = "rejected"
    BY <1>1, <1>2, <1>3, <2>1
  <2>4. TrailFits(c)'
    BY <2>3 DEF TrailFits
  <2> QED
    BY <1>1, <1>2, <1>3, <2>1, <2>2, <2>4
<1>4. CASE how # "rejected"
  <2>1. trail' = trail
    BY <1>1, <1>4 DEF Ends
  <2>2. trail'[c] = <<>> /\ state'[c] = how
    BY <1>1, <1>2, <2>1
  <2>3. TrailFits(c)'
    BY <1>4, <2>2 DEF TrailFits
  <2> QED
    BY <1>1, <1>2, <2>1, <2>2, <2>3
<1> QED
  BY <1>3, <1>4

\* A call the limiter has looked at waits with an empty trail, or is over.
LEMMA LimitedFits ==
  ASSUME RegInv, NEW c \in Calls, NEW r \in Request, state[c] = "new", Limit(c, r)
  PROVE  /\ state' \in [Calls -> States] /\ trail' \in [Calls -> Seq(Entries)]
         /\ TrailFits(c)'
         /\ \A d \in Calls \ {c} : state'[d] = state[d] /\ trail'[d] = trail[d]
<1>1. state \in [Calls -> States] /\ trail \in [Calls -> Seq(Entries)] /\ trail[c] = <<>>
  BY DEF RegInv, Types, TrailFits
<1>2. CASE state' = [state EXCEPT ![c] = "screening"] /\ UNCHANGED trail
  <2>1. state'[c] = "screening" /\ trail'[c] = <<>>
    BY <1>1, <1>2
  <2>2. TrailFits(c)'
    BY <2>1 DEF TrailFits
  <2> QED
    BY <1>1, <1>2, <2>2 DEF States
<1>3. CASE Ends(c, "stopped")
  BY <1>3, EndedFits
<1> QED
  BY <1>2, <1>3 DEF Limit

LEMMA CallKeeps ==
  ASSUME RegInv, NEW c \in Calls, NEW r \in Request, Call(c, r)
  PROVE  RegInv'
<1>1. /\ Types /\ state[c] = "new" /\ request' = [request EXCEPT ![c] = r]
      /\ UNCHANGED tools
  BY DEF RegInv, Call
<1>2. ToolsKept /\ request' \in [Calls -> Request \cup {None}] /\ request'[c] = r
  BY <1>1 DEF ToolsKept, Types
<1>3. \A d \in Calls \ {c} : request'[d] = request[d]
  BY <1>1 DEF Types
<1>4. CASE Ends(c, "rejected") /\ UNCHANGED tool
  <2>1. /\ state' \in [Calls -> States] /\ trail' \in [Calls -> Seq(Entries)]
        /\ TrailFits(c)' /\ state'[c] = "rejected"
        /\ \A d \in Calls \ {c} : state'[d] = state[d] /\ trail'[d] = trail[d]
    BY <1>1, <1>4, EndedFits
  <2>2. Types'
    BY <1>1, <1>2, <1>4, <2>1 DEF Types
  <2>3. HoldsTool(c)'
    BY <2>1 DEF HoldsTool
  <2>4. \A d \in Calls \ {c} : Untouched(d)
    BY <1>3, <1>4, <2>1 DEF Untouched
  <2> QED
    BY <1>2, <2>1, <2>2, <2>3, <2>4, OneCallStep
<1>5. ASSUME NEW i \in Found(r.name), tool' = [tool EXCEPT ![c] = i],
             \/ Refused(i, r) /\ Ends(c, "refused")
             \/ ~Refused(i, r) /\ ~Available(i, r) /\ Ends(c, "rejected")
             \/ Available(i, r) /\ Limit(c, r)
      PROVE  RegInv'
  <2>1. i \in DOMAIN tools /\ i \in Nat
    BY <1>1, FoundAreTools DEF Types
  <2>2. tool' \in [Calls -> Nat] /\ tool'[c] = i
    BY <1>1, <1>5, <2>1 DEF Types
  <2>3. \A d \in Calls \ {c} : tool'[d] = tool[d]
    BY <1>1, <1>5 DEF Types
  <2>4. /\ state' \in [Calls -> States] /\ trail' \in [Calls -> Seq(Entries)]
        /\ TrailFits(c)'
        /\ \A d \in Calls \ {c} : state'[d] = state[d] /\ trail'[d] = trail[d]
    <3>1. CASE Ends(c, "refused")
      BY <1>1, <3>1, EndedFits
    <3>2. CASE Ends(c, "rejected")
      BY <1>1, <3>2, EndedFits
    <3>3. CASE Limit(c, r)
      BY <1>1, <3>3, LimitedFits
    <3> QED
      BY <1>5, <3>1, <3>2, <3>3
  <2>5. HoldsTool(c)'
    <3>1. CASE Ends(c, "refused") \/ Ends(c, "rejected")
      <4>1. state'[c] \in {"refused", "rejected"}
        BY <1>1, <3>1, EndedFits
      <4> QED
        BY <4>1 DEF HoldsTool
    <3>2. CASE Available(i, r)
      <4>1. tools'[tool'[c]].confirm => request'[c].grant = "confirmed"
        BY <1>1, <1>2, <2>2, <3>2 DEF Available
      <4> QED
        BY <1>1, <2>1, <2>2, <4>1 DEF HoldsTool
    <3> QED
      BY <1>5, <3>1, <3>2
  <2>6. Types'
    BY <1>1, <1>2, <2>2, <2>4 DEF Types
  <2>7. \A d \in Calls \ {c} : Untouched(d)
    BY <1>3, <2>3, <2>4 DEF Untouched
  <2> QED
    BY <1>2, <2>4, <2>5, <2>6, <2>7, OneCallStep
<1> QED
  BY <1>4, <1>5 DEF Call

\* A call that waits is stopped or found invalid.
LEMMA WaitingEnds ==
  ASSUME RegInv, NEW c \in Calls, NEW how \in {"stopped", "rejected"}, state[c] = "screening",
         Ends(c, how), UNCHANGED <<tools, request, tool>>
  PROVE  RegInv'
<1>1. /\ state' \in [Calls -> States] /\ trail' \in [Calls -> Seq(Entries)]
      /\ TrailFits(c)' /\ state'[c] = how
      /\ \A d \in Calls \ {c} : state'[d] = state[d] /\ trail'[d] = trail[d]
  BY EndedFits
<1>2. HoldsTool(c)'
  <2>1. HoldsTool(c)
    BY DEF RegInv
  <2> QED
    BY <1>1, <2>1 DEF HoldsTool
<1>3. Types' /\ ToolsKept
  BY <1>1 DEF RegInv, Types, ToolsKept
<1>4. \A d \in Calls \ {c} : Untouched(d)
  BY <1>1 DEF Untouched
<1> QED
  BY <1>1, <1>2, <1>3, <1>4, OneCallStep

LEMMA BeginKeeps ==
  ASSUME RegInv, NEW c \in Calls, Begin(c)
  PROVE  RegInv'
<1>1. Types /\ TrailFits(c) /\ HoldsTool(c) /\ state[c] = "screening"
  BY DEF RegInv, Begin
<1>2. trail[c] = <<>> /\ tool[c] \in DOMAIN tools
  BY <1>1 DEF TrailFits, HoldsTool, Types
<1>3. tools' = [tools EXCEPT ![tool[c]].calls = @ + 1]
  BY DEF Begin
<1>4. tools' \in Seq(Tool) /\ ToolsKept
  BY <1>1, <1>2, <1>3, CountedTool DEF Types
<1>5. trail' = [trail EXCEPT ![c] = <<"execution">>] /\ <<"execution">> \in Seq(Entries)
  BY <1>2, AppendedTrails, TrailsAreEntries DEF Begin
<1>6. state' = [state EXCEPT ![c] = "running"] /\ UNCHANGED <<request, tool>>
  BY DEF Begin
<1>7. trail'[c] = <<"execution">> /\ state'[c] = "running"
  BY <1>1, <1>5, <1>6 DEF Types
<1>8. TrailFits(c)'
  BY <1>7 DEF TrailFits
<1>9. HoldsTool(c)'
  BY <1>1, <1>4, <1>6 DEF HoldsTool, ToolsKept
<1>10. Types'
  BY <1>1, <1>4, <1>5, <1>6 DEF Types, States
<1>11. \A d \in Calls \ {c} : Untouched(d)
  BY <1>1, <1>5, <1>6 DEF Untouched, Types
<1> QED
  BY <1>4, <1>8, <1>9, <1>10, <1>11, OneCallStep

LEMMA SucceedsKeeps ==
  ASSUME RegInv, NEW c \in Calls, Succeeds(c)
  PROVE  RegInv'
<1>1. Types /\ TrailFits(c) /\ HoldsTool(c) /\ state[c] = "running"
  BY DEF RegInv, Succeeds
<1>2. trail[c] = <<"execution">>
  BY <1>1 DEF TrailFits
<1>3. /\ trail' = [trail EXCEPT ![c] = <<"execution", "success">>]
      /\ <<"execution", "success">> \in Seq(Entries)
  BY <1>2, AppendedTrails, TrailsAreEntries DEF Succeeds
<1>4. state' = [state EXCEPT ![c] = "succeeded"] /\ UNCHANGED <<tools, request, tool>>
  BY DEF Succeeds
<1>5. trail'[c] = <<"execution", "success">> /\ state'[c] = "succeeded"
  BY <1>1, <1>3, <1>4 DEF Types
<1>6. TrailFits(c)'
  BY <1>5 DEF TrailFits
<1>7. HoldsTool(c)'
  BY <1>1, <1>4 DEF HoldsTool
<1>8. Types' /\ ToolsKept
  BY <1>1, <1>3, <1>4 DEF Types, States, ToolsKept
<1>9. \A d \in Calls \ {c} : Untouched(d)
  BY <1>1, <1>3, <1>4 DEF Untouched, Types
<1> QED
  BY <1>6, <1>7, <1>8, <1>9, OneCallStep

LEMMA FailsKeeps ==
  ASSUME RegInv, NEW c \in Calls, Fails(c)
  PROVE  RegInv'
<1>1. Types /\ TrailFits(c) /\ HoldsTool(c) /\ state[c] = "running"
  BY DEF RegInv, Fails
<1>2. trail[c] = <<"execution">> /\ tool[c] \in DOMAIN tools
  BY <1>1 DEF TrailFits, HoldsTool, Types
<1>3. tools' = [tools EXCEPT ![tool[c]].errors = @ + 1]
  BY DEF Fails
<1>4. tools' \in Seq(Tool) /\ ToolsKept
  BY <1>1, <1>2, <1>3, CountedTool DEF Types
<1>5. /\ trail' = [trail EXCEPT ![c] = <<"execution", "failure">>]
      /\ <<"execution", "failure">> \in Seq(Entries)
  BY <1>2, AppendedTrails, TrailsAreEntries DEF Fails
<1>6. state' = [state EXCEPT ![c] = "failed"] /\ UNCHANGED <<request, tool>>
  BY DEF Fails
<1>7. trail'[c] = <<"execution", "failure">> /\ state'[c] = "failed"
  BY <1>1, <1>5, <1>6 DEF Types
<1>8. TrailFits(c)'
  BY <1>7 DEF TrailFits
<1>9. HoldsTool(c)'
  BY <1>1, <1>4, <1>6 DEF HoldsTool, ToolsKept
<1>10. Types'
  BY <1>1, <1>4, <1>5, <1>6 DEF Types, States
<1>11. \A d \in Calls \ {c} : Untouched(d)
  BY <1>1, <1>5, <1>6 DEF Untouched, Types
<1> QED
  BY <1>4, <1>8, <1>9, <1>10, <1>11, OneCallStep

LEMMA CancelledKeeps ==
  ASSUME RegInv, NEW c \in Calls, Cancelled(c)
  PROVE  RegInv'
<1>1. Types /\ TrailFits(c) /\ HoldsTool(c) /\ state[c] \in {"screening", "running"}
  BY DEF RegInv, Cancelled
<1>2. /\ state' = [state EXCEPT ![c] = "cancelled"]
      /\ trail' = [trail EXCEPT ![c] = trail[c]]
      /\ UNCHANGED <<tools, request, tool>>
  BY DEF Cancelled, Ends
<1>3. trail[c] \in {<<>>, <<"execution">>}
  BY <1>1 DEF TrailFits
<1>4. trail' = trail /\ state'[c] = "cancelled"
  BY <1>1, <1>2 DEF Types
<1>5. TrailFits(c)'
  BY <1>3, <1>4 DEF TrailFits
<1>6. HoldsTool(c)'
  BY <1>1, <1>2, <1>4 DEF HoldsTool
<1>7. Types' /\ ToolsKept
  BY <1>1, <1>2, <1>4 DEF Types, States, ToolsKept
<1>8. \A d \in Calls \ {c} : Untouched(d)
  BY <1>1, <1>2, <1>4 DEF Untouched, Types
<1> QED
  BY <1>5, <1>6, <1>7, <1>8, OneCallStep

LEMMA InitKeeps == Init => RegInv
<1> SUFFICES ASSUME Init
             PROVE  RegInv
  OBVIOUS
<1>1. Types
  BY DEF Init, Types, States
<1>2. ASSUME NEW c \in Calls
      PROVE  TrailFits(c) /\ HoldsTool(c)
  <2>1. state[c] = "new" /\ trail[c] = <<>>
    BY DEF Init
  <2> QED
    BY <2>1 DEF TrailFits, HoldsTool
<1> QED
  BY <1>1, <1>2 DEF RegInv

\* What a call's trail and tool are, wherever it stands, is an invariant of the
\* registry: RegInv, for any number of calls, tools and names.
THEOREM RegistryInvariant == Spec => []RegInv
<1>1. RegInv /\ [Next]_vars => RegInv'
  <2> SUFFICES ASSUME RegInv, [Next]_vars
               PROVE  RegInv'
    OBVIOUS
  <2>1. CASE UNCHANGED vars
    <3>1. ToolsKept /\ Types'
      BY <2>1 DEF RegInv, Types, ToolsKept, vars
    <3>2. \A d \in Calls : Untouched(d)
      BY <2>1 DEF Untouched, vars
    <3> QED
      BY <3>1, <3>2, NoCallStep
  <2>2. CASE Tick
    BY <2>2, TickKeeps
  <2>3. ASSUME NEW name \in Names, NEW b \in BOOLEAN, Register(name, b) \/ Switch(name, b)
        PROVE  RegInv'
    BY <2>3, RegisterKeeps, SwitchKeeps
  <2>4. ASSUME NEW c \in Calls, NEW r \in Request, Call(c, r)
        PROVE  RegInv'
    BY <2>4, CallKeeps
  <2>5. ASSUME NEW c \in Calls, Stopped(c)
        PROVE  RegInv'
    BY <2>5, WaitingEnds DEF Stopped
  <2>6. ASSUME NEW c \in Calls, Invalid(c)
        PROVE  RegInv'
    BY <2>6, WaitingEnds DEF Invalid
  <2>7. ASSUME NEW c \in Calls, Begin(c) \/ Succeeds(c) \/ Fails(c) \/ Cancelled(c)
        PROVE  RegInv'
    BY <2>7, BeginKeeps, SucceedsKeeps, FailsKeeps, CancelledKeeps
  <2> QED
    BY <2>1, <2>2, <2>3, <2>4, <2>5, <2>6, <2>7 DEF Next
<1> QED
  BY InitKeeps, <1>1, PTL DEF Spec

\* However calls, cancellations, registrations and switches interleave, the audit log
\* tells every run of a tool and of each how it ended (call()'s log_tool_* calls).
THEOREM AuditKept == Spec => []RunsAudited
<1>1. RegInv => RunsAudited
  <2> SUFFICES ASSUME RegInv, NEW c \in Calls
               PROVE  /\ trail[c] \in {<<>>, <<"rejected">>, <<"execution">>,
                            <<"execution", "success">>, <<"execution", "failure">>}
                      /\ state[c] \in {"running", "succeeded", "failed"} => Ran(c)
                      /\ trail[c] = <<"execution">> => state[c] \in {"running", "cancelled"}
    BY DEF RunsAudited
  <2>1. Types /\ TrailFits(c) /\ state[c] \in States
    BY DEF RegInv, Types
  <2>2. trail[c] \in {<<>>, <<"rejected">>, <<"execution">>,
                      <<"execution", "success">>, <<"execution", "failure">>}
    BY <2>1 DEF TrailFits, States
  <2>3. state[c] \in {"running", "succeeded", "failed"} => Ran(c)
    BY <2>1, RanByTrail DEF TrailFits
  <2>4. ASSUME trail[c] = <<"execution">>
        PROVE  state[c] \in {"running", "cancelled"}
    <3>1. /\ <<"execution">> # <<>> /\ <<"execution">> # <<"rejected">>
          /\ <<"execution">> # <<"execution", "success">>
          /\ <<"execution">> # <<"execution", "failure">>
      OBVIOUS
    <3> QED
      BY <2>1, <2>4, <3>1 DEF TrailFits, States
  <2> QED
    BY <2>2, <2>3, <2>4
<1> QED
  BY RegistryInvariant, <1>1, PTL

\* However the tool of a name is replaced or switched while calls wait, a tool that
\* asks for confirmation runs only for a call that was confirmed (call()'s check of
\* the tool it found, which is the tool it runs).
THEOREM ConfirmedOnly == Spec => []OnlyConfirmedRun
<1>1. RegInv => OnlyConfirmedRun
  <2> SUFFICES ASSUME RegInv, NEW c \in Calls, Ran(c), tools[tool[c]].confirm
               PROVE  request[c].grant = "confirmed"
    BY DEF OnlyConfirmedRun
  <2>1. Types /\ TrailFits(c) /\ HoldsTool(c) /\ state[c] \in States
    BY DEF RegInv, Types
  <2>2. trail[c] \notin {<<>>, <<"rejected">>}
    BY <2>1, RanByTrail
  <2>3. state[c] \in {"running", "succeeded", "failed", "cancelled"}
    BY <2>1, <2>2 DEF TrailFits, States
  <2> QED
    BY <2>1, <2>3 DEF HoldsTool
<1> QED
  BY RegistryInvariant, <1>1, PTL

-----------------------------------------------------------------------------
(***************************************************************************)
(* The counters.                                                           *)
(***************************************************************************)
RunsOf(i) == {c \in Calls : Ran(c) /\ tool[c] = i}
FailuresOf(i) == {c \in Calls : state[c] = "failed" /\ tool[c] = i}

CountsFit ==
  \A i \in DOMAIN tools :
    /\ IsFiniteSet(RunsOf(i)) /\ tools[i].calls = Cardinality(RunsOf(i))
    /\ IsFiniteSet(FailuresOf(i)) /\ tools[i].errors = Cardinality(FailuresOf(i))

\* Which calls have run, and that they hold their tool.
LEMMA RanByState ==
  ASSUME RegInv, NEW c \in Calls
  PROVE  /\ state[c] \in {"running", "succeeded", "failed"} => Ran(c)
         /\ state[c] \in {"new", "refused", "stopped", "rejected", "screening"} => ~Ran(c)
         /\ Ran(c) => tool[c] \in DOMAIN tools
<1>1. Types /\ TrailFits(c) /\ HoldsTool(c) /\ state[c] \in States
  BY DEF RegInv, Types
<1>2. state[c] \in {"running", "succeeded", "failed"} => Ran(c)
  BY <1>1, RanByTrail DEF TrailFits
<1>3. state[c] \in {"new", "refused", "stopped", "rejected", "screening"} => ~Ran(c)
  BY <1>1, RanByTrail DEF TrailFits
<1>4. Ran(c) => state[c] \in {"running", "succeeded", "failed", "cancelled"}
  BY <1>1, <1>3 DEF States
<1> QED
  BY <1>1, <1>2, <1>3, <1>4 DEF HoldsTool

\* Nothing is counted, and nothing to count has happened.
LEMMA NothingCounted ==
  ASSUME RegInv, CountsFit,
         \A d \in Calls : (Ran(d)' <=> Ran(d)) /\ (Ran(d) => tool'[d] = tool[d]),
         \A d \in Calls : state'[d] = "failed" <=> state[d] = "failed",
         DOMAIN tools \subseteq DOMAIN tools',
         \A i \in DOMAIN tools : tools'[i].calls = tools[i].calls /\ tools'[i].errors = tools[i].errors,
         \A i \in DOMAIN tools' \ DOMAIN tools : tools'[i].calls = 0 /\ tools'[i].errors = 0
  PROVE  CountsFit'
<1>1. \A d \in Calls : /\ Ran(d) => tool[d] \in DOMAIN tools
                       /\ state[d] = "failed" => Ran(d)
  BY RanByState
<1>2. ASSUME NEW i \in DOMAIN tools
      PROVE  RunsOf(i)' = RunsOf(i) /\ FailuresOf(i)' = FailuresOf(i)
  BY <1>1 DEF RunsOf, FailuresOf
<1>3. ASSUME NEW i \in DOMAIN tools' \ DOMAIN tools
      PROVE  RunsOf(i)' = {} /\ FailuresOf(i)' = {}
  BY <1>1 DEF RunsOf, FailuresOf
<1>4. IsFiniteSet({}) /\ Cardinality({}) = 0
  BY FS_EmptySet
<1>5. ASSUME NEW i \in DOMAIN tools'
      PROVE  /\ IsFiniteSet(RunsOf(i)') /\ tools'[i].calls = Cardinality(RunsOf(i)')
             /\ IsFiniteSet(FailuresOf(i)') /\ tools'[i].errors = Cardinality(FailuresOf(i)')
  <2>1. CASE i \in DOMAIN tools
    BY <1>2, <2>1 DEF CountsFit
  <2>2. CASE i \notin DOMAIN tools
    BY <1>3, <1>4, <2>2
  <2> QED
    BY <2>1, <2>2
<1> QED
  BY <1>5 DEF CountsFit

\* The audit log of a call tells whether it has run.
LEMMA SameTrailSameRun ==
  ASSUME NEW d \in Calls, trail'[d] = trail[d]
  PROVE  Ran(d)' <=> Ran(d)
  BY DEF Ran, Told

LEMMA RegisterCounts ==
  ASSUME RegInv, CountsFit, NEW name \in Names, NEW confirm \in BOOLEAN, Register(name, confirm)
  PROVE  CountsFit'
<1>1. UNCHANGED <<state, tool, trail>>
  BY DEF Register
<1>2. PICK new : tools' = Append(tools, new) /\ new.calls = 0 /\ new.errors = 0
  BY DEF Register
<1>3. /\ DOMAIN tools \subseteq DOMAIN tools'
      /\ \A i \in DOMAIN tools : tools'[i] = tools[i]
      /\ \A i \in DOMAIN tools' \ DOMAIN tools : tools'[i] = new
  BY <1>2 DEF RegInv, Types
<1> QED
  BY <1>1, <1>2, <1>3, NothingCounted, SameTrailSameRun

LEMMA SwitchCounts ==
  ASSUME RegInv, CountsFit, NEW name \in Names, NEW on \in BOOLEAN, Switch(name, on)
  PROVE  CountsFit'
<1>1. UNCHANGED <<state, tool, trail>>
  BY DEF Switch
<1>2. PICK i \in Found(name) : tools' = [tools EXCEPT ![i].enabled = on]
  BY DEF Switch
<1>3. i \in DOMAIN tools /\ tools[i] \in Tool
  BY FoundAreTools DEF RegInv, Types
<1>4. PICK new : new = [tools[i] EXCEPT !.enabled = on]
  OBVIOUS
<1>5. new.calls = tools[i].calls /\ new.errors = tools[i].errors /\ tools' = [tools EXCEPT ![i] = new]
  BY <1>2, <1>3, <1>4 DEF Tool
<1>6. /\ DOMAIN tools' = DOMAIN tools
      /\ \A j \in DOMAIN tools : tools'[j].calls = tools[j].calls /\ tools'[j].errors = tools[j].errors
  BY <1>5
<1> QED
  BY <1>1, <1>6, NothingCounted, SameTrailSameRun

\* A call comes in, ends before it runs, or has run: none of its tools counts that.
LEMMA QuietCounts ==
  ASSUME RegInv, RegInv', CountsFit, NEW c \in Calls, UNCHANGED tools,
         \A d \in Calls \ {c} : state'[d] = state[d] /\ tool'[d] = tool[d] /\ trail'[d] = trail[d],
         \/ ~Ran(c) /\ ~Ran(c)'
         \/ Ran(c) /\ Ran(c)' /\ tool'[c] = tool[c],
         state[c] # "failed", state'[c] # "failed"
  PROVE  CountsFit'
<1>1. \A d \in Calls : (Ran(d)' <=> Ran(d)) /\ (Ran(d) => tool'[d] = tool[d])
  BY SameTrailSameRun
<1>2. \A d \in Calls : state'[d] = "failed" <=> state[d] = "failed"
  OBVIOUS
<1> QED
  BY <1>1, <1>2, NothingCounted

\* Whether a trail tells of a run.
LEMMA TrailOfRun ==
  ASSUME NEW c \in Calls
  PROVE  /\ trail'[c] \in {<<"execution">>, <<"execution", "success">>,
                           <<"execution", "failure">>} => Ran(c)'
         /\ trail'[c] \in {<<>>, <<"rejected">>} => ~Ran(c)'
<1>1. CASE trail'[c] = <<>>
  BY <1>1 DEF Ran, Told
<1>2. CASE trail'[c] = <<"rejected">>
  BY <1>2 DEF Ran, Told
<1>3. CASE trail'[c] \in {<<"execution">>, <<"execution", "success">>, <<"execution", "failure">>}
  <2>1. 1 \in DOMAIN trail'[c] /\ trail'[c][1] = "execution"
    BY <1>3
  <2>2. Ran(c)'
    BY <2>1 DEF Ran, Told
  <2>3. trail'[c] # <<>> /\ trail'[c] # <<"rejected">>
    BY <1>3
  <2> QED
    BY <2>2, <2>3
<1> QED
  BY <1>1, <1>2, <1>3

LEMMA CallCounts ==
  ASSUME RegInv, RegInv', CountsFit, NEW c \in Calls, NEW r \in Request, Call(c, r)
  PROVE  CountsFit'
<1>1. /\ state[c] = "new" /\ UNCHANGED tools
      /\ state \in [Calls -> States] /\ tool \in [Calls -> Nat] /\ trail \in [Calls -> Seq(Entries)]
  BY DEF Call, RegInv, Types
<1>2. \/ \E how \in {"refused", "rejected", "stopped"} : Ends(c, how)
      \/ state' = [state EXCEPT ![c] = "screening"] /\ UNCHANGED trail
  BY DEF Call, Limit
<1>3. tool' = tool \/ \E i : tool' = [tool EXCEPT ![c] = i]
  BY DEF Call
<1>4. /\ \A d \in Calls \ {c} : state'[d] = state[d] /\ tool'[d] = tool[d] /\ trail'[d] = trail[d]
      /\ state'[c] \in {"refused", "rejected", "stopped", "screening"}
  BY <1>1, <1>2, <1>3 DEF Ends
<1>5. ~Ran(c)
  BY <1>1, RanByState
<1>6. ~Ran(c)'
  BY <1>4, TrailOfRun DEF RegInv, TrailFits
<1> QED
  BY <1>1, <1>4, <1>5, <1>6, QuietCounts

\* A call that waits ends.
LEMMA EndsCounts ==
  ASSUME RegInv, RegInv', CountsFit, NEW c \in Calls, NEW how \in {"stopped", "rejected", "cancelled"},
         state[c] \in {"screening", "running"}, how \in {"stopped", "rejected"} => state[c] = "screening",
         Ends(c, how), UNCHANGED <<tools, tool>>
  PROVE  CountsFit'
<1>1. state \in [Calls -> States] /\ trail \in [Calls -> Seq(Entries)]
  BY DEF RegInv, Types
<1>2. /\ \A d \in Calls \ {c} : state'[d] = state[d] /\ trail'[d] = trail[d]
      /\ state'[c] = how
      /\ how # "rejected" => trail'[c] = trail[c]
  BY <1>1 DEF Ends
<1>3. CASE how = "rejected"
  <2>1. ~Ran(c)
    BY <1>3, RanByState
  <2>2. ~Ran(c)'
    BY <1>2, <1>3, TrailOfRun DEF RegInv, TrailFits
  <2> QED
    BY <1>2, <2>1, <2>2, QuietCounts
<1>4. CASE how # "rejected"
  <2>1. Ran(c)' <=> Ran(c)
    BY <1>2, <1>4, SameTrailSameRun
  <2> QED
    BY <1>2, <2>1, QuietCounts
<1> QED
  BY <1>3, <1>4

LEMMA SucceedsCounts ==
  ASSUME RegInv, RegInv', CountsFit, NEW c \in Calls, Succeeds(c)
  PROVE  CountsFit'
<1>1. /\ state[c] = "running" /\ UNCHANGED <<tools, tool>>
      /\ state' = [state EXCEPT ![c] = "succeeded"]
      /\ trail' = [trail EXCEPT ![c] = Append(@, "success")]
      /\ state \in [Calls -> States] /\ trail \in [Calls -> Seq(Entries)]
  BY DEF Succeeds, RegInv, Types
<1>2. /\ \A d \in Calls \ {c} : state'[d] = state[d] /\ trail'[d] = trail[d]
      /\ state'[c] = "succeeded"
  BY <1>1
<1>3. Ran(c)
  BY <1>1, RanByState
<1>4. Ran(c)'
  BY <1>2, TrailOfRun DEF RegInv, TrailFits
<1> QED
  BY <1>1, <1>2, <1>3, <1>4, QuietCounts

\* A tool is told of one more.
LEMMA OneMore ==
  ASSUME NEW S, IsFiniteSet(S), NEW n, n = Cardinality(S), NEW c, c \notin S
  PROVE  IsFiniteSet(S \cup {c}) /\ n + 1 = Cardinality(S \cup {c})
  BY FS_AddElement

LEMMA BeginCounts ==
  ASSUME RegInv, RegInv', CountsFit, NEW c \in Calls, Begin(c)
  PROVE  CountsFit'
<1>1. /\ state[c] = "screening" /\ UNCHANGED tool
      /\ tools' = [tools EXCEPT ![tool[c]].calls = @ + 1]
      /\ state' = [state EXCEPT ![c] = "running"]
      /\ trail' = [trail EXCEPT ![c] = Append(@, "execution")]
      /\ state \in [Calls -> States] /\ trail \in [Calls -> Seq(Entries)]
      /\ tools \in Seq(Tool) /\ tool[c] \in DOMAIN tools
  BY DEF Begin, RegInv, Types, HoldsTool
<1>2. /\ \A d \in Calls \ {c} : state'[d] = state[d] /\ trail'[d] = trail[d]
      /\ state'[c] = "running"
  BY <1>1
<1>3. ~Ran(c) /\ \A d \in Calls \ {c} : Ran(d)' <=> Ran(d)
  BY <1>1, <1>2, RanByState, SameTrailSameRun
<1>4. Ran(c)'
  BY <1>2, TrailOfRun DEF RegInv, TrailFits
<1>5. \A i : FailuresOf(i)' = FailuresOf(i)
  BY <1>1, <1>2 DEF FailuresOf
<1>6. \A i : RunsOf(i)' = IF i = tool[c] THEN RunsOf(i) \cup {c} ELSE RunsOf(i)
  BY <1>1, <1>3, <1>4 DEF RunsOf
<1>7. c \notin RunsOf(tool[c])
  BY <1>3 DEF RunsOf
<1>8. /\ DOMAIN tools' = DOMAIN tools
      /\ \A i \in DOMAIN tools : /\ tools'[i].errors = tools[i].errors
                                 /\ tools'[i].calls = IF i = tool[c] THEN tools[i].calls + 1 ELSE tools[i].calls
  <2>1. tools[tool[c]] \in Tool
    BY <1>1
  <2>2. PICK n : n = tools[tool[c]].calls + 1
    OBVIOUS
  <2>3. PICK new : new = [tools[tool[c]] EXCEPT !.calls = n]
    OBVIOUS
  <2>4. new.calls = n /\ new.errors = tools[tool[c]].errors
    BY <2>1, <2>3 DEF Tool
  <2>5. tools' = [tools EXCEPT ![tool[c]] = new]
    BY <1>1, <2>2, <2>3
  <2> QED
    BY <1>1, <2>2, <2>4, <2>5
<1>9. ASSUME NEW i \in DOMAIN tools
      PROVE  IsFiniteSet(RunsOf(i)') /\ tools'[i].calls = Cardinality(RunsOf(i)')
  <2>1. CASE i = tool[c]
    BY <1>6, <1>7, <1>8, <2>1, OneMore DEF CountsFit
  <2>2. CASE i # tool[c]
    BY <1>6, <1>8, <2>2 DEF CountsFit
  <2> QED
    BY <2>1, <2>2
<1> QED
  BY <1>5, <1>8, <1>9 DEF CountsFit

LEMMA FailsCounts ==
  ASSUME RegInv, RegInv', CountsFit, NEW c \in Calls, Fails(c)
  PROVE  CountsFit'
<1>1. /\ state[c] = "running" /\ UNCHANGED tool
      /\ tools' = [tools EXCEPT ![tool[c]].errors = @ + 1]
      /\ state' = [state EXCEPT ![c] = "failed"]
      /\ trail' = [trail EXCEPT ![c] = Append(@, "failure")]
      /\ state \in [Calls -> States] /\ trail \in [Calls -> Seq(Entries)]
      /\ tools \in Seq(Tool) /\ tool[c] \in DOMAIN tools
  BY DEF Fails, RegInv, Types, HoldsTool
<1>2. /\ \A d \in Calls \ {c} : state'[d] = state[d] /\ trail'[d] = trail[d]
      /\ state'[c] = "failed"
  BY <1>1
<1>3. Ran(c) /\ \A d \in Calls \ {c} : Ran(d)' <=> Ran(d)
  BY <1>1, <1>2, RanByState, SameTrailSameRun
<1>4. Ran(c)'
  BY <1>2, TrailOfRun DEF RegInv, TrailFits
<1>5. \A i : RunsOf(i)' = RunsOf(i)
  BY <1>1, <1>3, <1>4 DEF RunsOf
<1>6. \A i : FailuresOf(i)' = IF i = tool[c] THEN FailuresOf(i) \cup {c} ELSE FailuresOf(i)
  BY <1>1, <1>2 DEF FailuresOf
<1>7. c \notin FailuresOf(tool[c])
  BY <1>1 DEF FailuresOf
<1>8. /\ DOMAIN tools' = DOMAIN tools
      /\ \A i \in DOMAIN tools : /\ tools'[i].calls = tools[i].calls
                                 /\ tools'[i].errors = IF i = tool[c] THEN tools[i].errors + 1 ELSE tools[i].errors
  <2>1. tools[tool[c]] \in Tool
    BY <1>1
  <2>2. PICK n : n = tools[tool[c]].errors + 1
    OBVIOUS
  <2>3. PICK new : new = [tools[tool[c]] EXCEPT !.errors = n]
    OBVIOUS
  <2>4. new.errors = n /\ new.calls = tools[tool[c]].calls
    BY <2>1, <2>3 DEF Tool
  <2>5. tools' = [tools EXCEPT ![tool[c]] = new]
    BY <1>1, <2>2, <2>3
  <2> QED
    BY <1>1, <2>2, <2>4, <2>5
<1>9. ASSUME NEW i \in DOMAIN tools
      PROVE  IsFiniteSet(FailuresOf(i)') /\ tools'[i].errors = Cardinality(FailuresOf(i)')
  <2>1. CASE i = tool[c]
    BY <1>6, <1>7, <1>8, <2>1, OneMore DEF CountsFit
  <2>2. CASE i # tool[c]
    BY <1>6, <1>8, <2>2 DEF CountsFit
  <2> QED
    BY <2>1, <2>2
<1> QED
  BY <1>5, <1>8, <1>9 DEF CountsFit

\* The counters of a tool are those of its own runs, whatever is registered under its
\* name, switched or cancelled meanwhile (call()'s tool.call_count and error_count).
THEOREM CountsOfOwnRuns == Spec => []Accounting
<1>1. Init => CountsFit
  BY DEF Init, CountsFit
<1>2. ASSUME RegInv, RegInv', CountsFit, [Next]_vars
      PROVE  CountsFit'
  <2> USE <1>2
  <2>1. CASE Tick \/ UNCHANGED vars
    <3>1. UNCHANGED <<tools, state, tool, trail>>
      BY <2>1 DEF Tick, vars
    <3> QED
      BY <3>1, NothingCounted, SameTrailSameRun
  <2>2. ASSUME NEW name \in Names, NEW b \in BOOLEAN, Register(name, b) \/ Switch(name, b)
        PROVE  CountsFit'
    BY <2>2, RegisterCounts, SwitchCounts
  <2>3. ASSUME NEW c \in Calls, NEW r \in Request, Call(c, r)
        PROVE  CountsFit'
    BY <2>3, CallCounts
  <2>4. ASSUME NEW c \in Calls, Stopped(c) \/ Invalid(c) \/ Cancelled(c)
        PROVE  CountsFit'
    BY <2>4, EndsCounts DEF Stopped, Invalid, Cancelled
  <2>5. ASSUME NEW c \in Calls, Begin(c) \/ Succeeds(c) \/ Fails(c)
        PROVE  CountsFit'
    BY <2>5, BeginCounts, SucceedsCounts, FailsCounts
  <2> QED
    BY <2>1, <2>2, <2>3, <2>4, <2>5 DEF Next
<1>3. CountsFit => Accounting
  BY DEF CountsFit, Accounting, RunsOf, FailuresOf
<1> QED
  BY <1>1, <1>2, <1>3, RegistryInvariant, PTL DEF Spec

-----------------------------------------------------------------------------
(***************************************************************************)
(* The limiting middleware.  What it keeps of a key counts, now and at any *)
(* time to come, the calls that it let pass.                               *)
(***************************************************************************)
Keys == Sessions \X Names

PassedOf(k, t) ==
  {d \in Calls : passed[d] > 0 /\ Key(request[d]) = k /\ Counts(passed[d], Window, t)}

\* The calls that the property counts at the time when a call passed.
PassedUntil(c) ==
  {d \in Calls : /\ passed[d] > 0 /\ Key(request[d]) = Key(request[c])
                 /\ passed[d] <= passed[c] /\ passed[c] - passed[d] < Window}

StampsFit(k) ==
  /\ Ordered(stamps[k], now)
  /\ \A t \in Nat : t >= now =>
       /\ IsFiniteSet(PassedOf(k, t))
       /\ Cardinality(FreshAt(stamps[k], Window, t)) = Cardinality(PassedOf(k, t))

LimiterInv ==
  /\ now \in Nat \ {0}
  /\ stamps \in [Keys -> Seq(Nat)]
  /\ passed \in [Calls -> Nat]
  /\ \A c \in Calls : passed[c] <= now
  /\ \A c \in Calls : passed[c] > 0 => state[c] # "new" /\ request[c] \in Request
  /\ \A k \in Keys : StampsFit(k)
  /\ \A c \in Calls : passed[c] > 0 => Cardinality(PassedUntil(c)) <= MaxPerWindow

LEMMA LimiterBegins == Init => LimiterInv
<1> SUFFICES ASSUME Init
             PROVE  LimiterInv
  OBVIOUS
<1>1. /\ now \in Nat \ {0} /\ stamps \in [Keys -> Seq(Nat)] /\ passed \in [Calls -> Nat]
      /\ \A c \in Calls : passed[c] = 0 /\ ~(passed[c] > 0) /\ passed[c] <= now
  BY DEF Init, Keys
<1>2. ASSUME NEW k \in Keys
      PROVE  StampsFit(k)
  <2>1. stamps[k] = <<>> /\ Ordered(stamps[k], now)
    BY DEF Init, Ordered, Keys
  <2>2. \A t \in Nat : FreshAt(stamps[k], Window, t) = {} /\ PassedOf(k, t) = {}
    BY <1>1, <2>1 DEF FreshAt, PassedOf
  <2>3. IsFiniteSet({})
    BY FS_EmptySet
  <2> QED
    BY <2>1, <2>2, <2>3 DEF StampsFit
<1> QED
  BY <1>1, <1>2 DEF LimiterInv

\* The key of a request.
LEMMA KeyTyped ==
  ASSUME NEW r \in Request
  PROVE  Key(r) \in Keys
  BY DEF Request, Key, Keys

\* What the limiter keeps of a window is what it counts.
LEMMA RecentStamps ==
  ASSUME LimiterInv, NEW r \in Request
  PROVE  /\ Ordered(Recent(r), now)
         /\ Len(Recent(r)) = Cardinality(PassedOf(Key(r), now))
         /\ \A t \in Nat : t >= now =>
              Cardinality(FreshAt(Recent(r), Window, t)) = Cardinality(PassedOf(Key(r), t))
<1>1. Window \in Nat /\ now \in Nat /\ StampsFit(Key(r))
  BY RegistryAssumption, KeyTyped DEF LimiterInv
<1>2. /\ Ordered(Recent(r), now)
      /\ Len(Recent(r)) = Cardinality(FreshAt(stamps[Key(r)], Window, now))
      /\ \A t \in Nat : t >= now => Cardinality(FreshAt(Recent(r), Window, t)) =
                                    Cardinality(FreshAt(stamps[Key(r)], Window, t))
  BY <1>1, PrunedFits DEF StampsFit, Recent
<1> QED
  BY <1>1, <1>2 DEF StampsFit

\* Nobody passes, and no window changes.
LEMMA NobodyPasses ==
  ASSUME LimiterInv, UNCHANGED <<stamps, passed>>, now' \in Nat, now' >= now,
         \A c \in Calls : passed[c] > 0 => state'[c] # "new" /\ request'[c] = request[c]
  PROVE  LimiterInv'
<1>1. \A k, t : PassedOf(k, t)' = PassedOf(k, t)
  BY DEF PassedOf
<1>2. \A c \in Calls : passed[c] > 0 => PassedUntil(c)' = PassedUntil(c)
  BY DEF PassedUntil
<1>3. now' \in Nat \ {0} /\ \A c \in Calls : passed'[c] <= now'
  BY DEF LimiterInv
<1>4. ASSUME NEW k \in Keys
      PROVE  StampsFit(k)'
  <2>1. Ordered(stamps[k], now')
    BY DEF LimiterInv, StampsFit, Ordered
  <2>2. \A t \in Nat : t >= now' => t >= now
    BY DEF LimiterInv
  <2> QED
    BY <1>1, <2>1, <2>2 DEF LimiterInv, StampsFit
<1> QED
  BY <1>2, <1>3, <1>4 DEF LimiterInv

\* The call that comes in is not one of those that passed.
LEMMA OthersAsked ==
  ASSUME LimiterInv, NEW c \in Calls, NEW r \in Request, Call(c, r), RegInv
  PROVE  /\ passed[c] = 0 /\ request'[c] = r /\ state'[c] # "new" /\ now' = now
         /\ \A d \in Calls : passed[d] > 0 =>
              d # c /\ request'[d] = request[d] /\ state'[d] # "new"
<1>1. /\ state[c] = "new" /\ request' = [request EXCEPT ![c] = r] /\ now' = now
      /\ request \in [Calls -> Request \cup {None}] /\ state \in [Calls -> States]
  BY DEF Call, RegInv, Types
<1>2. \E s \in States \ {"new"} : state' = [state EXCEPT ![c] = s]
  BY DEF Call, Limit, Ends, States
<1>3. passed[c] = 0
  BY <1>1 DEF LimiterInv
<1> QED
  BY <1>1, <1>2, <1>3 DEF LimiterInv

\* The limiter lets a call pass.
LEMMA PassKeeps ==
  ASSUME LimiterInv, RegInv, NEW c \in Calls, NEW r \in Request, Call(c, r),
         Len(Recent(r)) < MaxPerWindow,
         stamps' = [stamps EXCEPT ![Key(r)] = Append(Recent(r), now)],
         passed' = [passed EXCEPT ![c] = now]
  PROVE  LimiterInv'
<1>1. /\ passed[c] = 0 /\ request'[c] = r /\ state'[c] # "new" /\ now' = now
      /\ \A d \in Calls : passed[d] > 0 =>
           d # c /\ request'[d] = request[d] /\ state'[d] # "new"
  BY OthersAsked
<1>2. /\ now \in Nat \ {0} /\ Window \in Nat \ {0} /\ MaxPerWindow \in Nat /\ Key(r) \in Keys
      /\ passed \in [Calls -> Nat] /\ \A d \in Calls : passed[d] <= now
  BY RegistryAssumption, KeyTyped DEF LimiterInv
<1>3. /\ passed' \in [Calls -> Nat] /\ passed'[c] = now
      /\ \A d \in Calls : d # c => passed'[d] = passed[d]
  BY <1>2
<1>4. \A d \in Calls : passed'[d] > 0 /\ d # c =>
        passed[d] > 0 /\ request'[d] = request[d] /\ state'[d] # "new"
  BY <1>1, <1>3
<1>5. ASSUME NEW k, NEW t \in Nat
      PROVE  PassedOf(k, t)' = IF k = Key(r) /\ Counts(now, Window, t)
                               THEN PassedOf(k, t) \cup {c} ELSE PassedOf(k, t)
  <2>1. \A d \in Calls : d # c => (d \in PassedOf(k, t)' <=> d \in PassedOf(k, t))
    BY <1>1, <1>3, <1>4 DEF PassedOf
  <2>2. c \notin PassedOf(k, t)
    BY <1>1 DEF PassedOf
  <2>3. c \in PassedOf(k, t)' <=> k = Key(r) /\ Counts(now, Window, t)
    BY <1>1, <1>2, <1>3 DEF PassedOf
  <2>4. PassedOf(k, t)' \subseteq Calls /\ PassedOf(k, t) \subseteq Calls
    BY DEF PassedOf
  <2> QED
    BY <2>1, <2>2, <2>3, <2>4
<1>6. \A k, t : c \notin PassedOf(k, t)
  BY <1>1 DEF PassedOf
<1>7. /\ Ordered(Recent(r), now) /\ Len(Recent(r)) = Cardinality(PassedOf(Key(r), now))
      /\ \A t \in Nat : t >= now =>
           Cardinality(FreshAt(Recent(r), Window, t)) = Cardinality(PassedOf(Key(r), t))
  BY RecentStamps
<1>8. /\ Ordered(Append(Recent(r), now), now)
      /\ \A t \in Nat : Counts(now, Window, t) =>
           Cardinality(FreshAt(Append(Recent(r), now), Window, t)) =
             Cardinality(FreshAt(Recent(r), Window, t)) + 1
      /\ \A t \in Nat : ~Counts(now, Window, t) =>
           Cardinality(FreshAt(Append(Recent(r), now), Window, t)) =
             Cardinality(FreshAt(Recent(r), Window, t))
  BY <1>2, <1>7, LongerFits
<1>9. /\ stamps' \in [Keys -> Seq(Nat)] /\ stamps'[Key(r)] = Append(Recent(r), now)
      /\ \A k \in Keys : k # Key(r) => stamps'[k] = stamps[k]
  BY <1>2, <1>8 DEF LimiterInv, Ordered
<1>10. ASSUME NEW k \in Keys
       PROVE  StampsFit(k)'
  <2>1. CASE k # Key(r)
    <3>1. \A t \in Nat : PassedOf(k, t)' = PassedOf(k, t)
      BY <1>5, <2>1
    <3> QED
      BY <1>1, <1>9, <2>1, <3>1 DEF LimiterInv, StampsFit
  <2>2. CASE k = Key(r)
    <3>1. ASSUME NEW t \in Nat, t >= now
          PROVE  /\ IsFiniteSet(PassedOf(k, t)')
                 /\ Cardinality(FreshAt(stamps'[k], Window, t)) = Cardinality(PassedOf(k, t)')
      <4>1. IsFiniteSet(PassedOf(k, t))
        BY <3>1 DEF LimiterInv, StampsFit
      <4>2. CASE Counts(now, Window, t)
        <5>1. PassedOf(k, t)' = PassedOf(k, t) \cup {c}
          BY <1>5, <2>2, <4>2
        <5>2. IsFiniteSet(PassedOf(k, t)') /\ Cardinality(PassedOf(k, t)') = Cardinality(PassedOf(k, t)) + 1
          BY <1>6, <4>1, <5>1, OneMore
        <5> QED
          BY <1>7, <1>8, <1>9, <2>2, <3>1, <4>2, <5>2
      <4>3. CASE ~Counts(now, Window, t)
        <5>1. PassedOf(k, t)' = PassedOf(k, t)
          BY <1>5, <2>2, <4>3
        <5> QED
          BY <1>7, <1>8, <1>9, <2>2, <3>1, <4>1, <4>3, <5>1
      <4> QED
        BY <4>2, <4>3
    <3> QED
      BY <1>1, <1>8, <1>9, <2>2, <3>1 DEF StampsFit
  <2> QED
    BY <2>1, <2>2
<1>11. ASSUME NEW d \in Calls, passed'[d] > 0
       PROVE  Cardinality(PassedUntil(d)') <= MaxPerWindow
  <2>1. CASE passed'[d] = now /\ Key(request'[d]) = Key(r)
    <3>1. PassedUntil(d)' = PassedOf(Key(r), now)'
      <4>1. \A e \in Calls : passed'[e] \in Nat /\ passed'[e] <= now
        BY <1>2, <1>3
      <4>2. \A e \in Calls : passed'[e] <= passed'[d] /\ passed'[d] - passed'[e] < Window
                               <=> Counts(passed'[e], Window, now)
        BY <1>2, <2>1, <4>1 DEF Counts
      <4>3. ASSUME NEW e \in Calls
            PROVE  e \in PassedUntil(d)' <=> e \in PassedOf(Key(r), now)'
        <5>1. e \in PassedUntil(d)' <=>
                /\ passed'[e] > 0 /\ Key(request'[e]) = Key(request'[d])
                /\ passed'[e] <= passed'[d] /\ passed'[d] - passed'[e] < Window
          BY DEF PassedUntil
        <5>2. e \in PassedOf(Key(r), now)' <=>
                passed'[e] > 0 /\ Key(request'[e]) = Key(r) /\ Counts(passed'[e], Window, now')
          BY DEF PassedOf
        <5> QED
          BY <1>1, <2>1, <4>2, <5>1, <5>2
      <4> QED
        BY <4>3 DEF PassedUntil, PassedOf
    <3>2. PassedOf(Key(r), now)' = PassedOf(Key(r), now) \cup {c}
      <4>1. Counts(now, Window, now) /\ now' = now
        BY <1>1, <1>2 DEF Counts
      <4> QED
        BY <1>2, <1>5, <4>1
    <3>3. IsFiniteSet(PassedOf(Key(r), now))
      BY <1>2 DEF LimiterInv, StampsFit
    <3>4. Cardinality(PassedOf(Key(r), now)) + 1 = Cardinality(PassedOf(Key(r), now) \cup {c})
      BY <1>6, <3>3, OneMore
    <3>5. Cardinality(PassedOf(Key(r), now)) \in Nat
      BY <3>3, FS_CardinalityType
    <3> QED
      BY <1>2, <1>7, <3>1, <3>2, <3>4, <3>5
  <2>2. CASE passed'[d] # now \/ Key(request'[d]) # Key(r)
    <3>1. d # c /\ passed[d] > 0 /\ passed'[d] = passed[d] /\ request'[d] = request[d]
      BY <1>1, <1>3, <1>4, <2>2, <1>11
    <3>2. PassedUntil(d)' = PassedUntil(d)
      <4>1. c \notin PassedUntil(d)
        BY <1>1 DEF PassedUntil
      <4>2. c \notin PassedUntil(d)'
        BY <1>1, <1>2, <1>3, <2>2, <3>1 DEF PassedUntil
      <4>3. \A e \in Calls : e # c => (e \in PassedUntil(d)' <=> e \in PassedUntil(d))
        BY <1>1, <1>3, <1>4, <3>1 DEF PassedUntil
      <4> QED
        BY <4>1, <4>2, <4>3 DEF PassedUntil
    <3> QED
      BY <3>1, <3>2 DEF LimiterInv
  <2> QED
    BY <2>1, <2>2
<1>12. ASSUME NEW d \in Calls
       PROVE  /\ passed'[d] <= now'
              /\ passed'[d] > 0 => state'[d] # "new" /\ request'[d] \in Request
  BY <1>1, <1>2, <1>3, <1>4 DEF LimiterInv
<1> QED
  BY <1>1, <1>2, <1>3, <1>9, <1>10, <1>11, <1>12 DEF LimiterInv

\* The limiter stops a call, and forgets what has left the window.
LEMMA StopKeeps ==
  ASSUME LimiterInv, RegInv, NEW c \in Calls, NEW r \in Request, Call(c, r),
         stamps' = [stamps EXCEPT ![Key(r)] = Recent(r)], passed' = passed
  PROVE  LimiterInv'
<1>1. /\ now' = now
      /\ \A d \in Calls : passed[d] > 0 => request'[d] = request[d] /\ state'[d] # "new"
  BY OthersAsked
<1>2. Key(r) \in Keys
  BY KeyTyped
<1>3. /\ Ordered(Recent(r), now)
      /\ \A t \in Nat : t >= now =>
           Cardinality(FreshAt(Recent(r), Window, t)) = Cardinality(PassedOf(Key(r), t))
  BY RecentStamps
<1>4. /\ stamps' \in [Keys -> Seq(Nat)] /\ stamps'[Key(r)] = Recent(r)
      /\ \A k \in Keys : k # Key(r) => stamps'[k] = stamps[k]
  BY <1>2, <1>3 DEF LimiterInv, Ordered
<1>5. \A k, t : PassedOf(k, t)' = PassedOf(k, t)
  BY <1>1 DEF PassedOf
<1>6. \A d \in Calls : passed[d] > 0 => PassedUntil(d)' = PassedUntil(d)
  BY <1>1 DEF PassedUntil
<1>7. ASSUME NEW k \in Keys
      PROVE  StampsFit(k)'
  <2>1. CASE k = Key(r)
    BY <1>1, <1>3, <1>4, <1>5, <2>1 DEF LimiterInv, StampsFit
  <2>2. CASE k # Key(r)
    BY <1>1, <1>4, <1>5, <2>2 DEF LimiterInv, StampsFit
  <2> QED
    BY <2>1, <2>2
<1> QED
  BY <1>1, <1>4, <1>6, <1>7 DEF LimiterInv

\* A call that is not looked at by the limiter.
LEMMA UnlimitedKeeps ==
  ASSUME LimiterInv, RegInv, NEW c \in Calls, NEW r \in Request, Call(c, r),
         UNCHANGED <<stamps, passed>>
  PROVE  LimiterInv'
<1>1. now' \in Nat /\ now' >= now
  BY OthersAsked DEF LimiterInv
<1> QED
  BY <1>1, OthersAsked, NobodyPasses

\* A call that is past the limiter goes on.
LEMMA GoingOnKeeps ==
  ASSUME LimiterInv, RegInv, NEW c \in Calls, NEW s \in States \ {"new"},
         state' = [state EXCEPT ![c] = s], UNCHANGED <<now, stamps, request, passed>>
  PROVE  LimiterInv'
<1>1. state \in [Calls -> States]
  BY DEF RegInv, Types
<1>2. \A d \in Calls : passed[d] > 0 => state'[d] # "new" /\ request'[d] = request[d]
  BY <1>1 DEF LimiterInv
<1>3. now' \in Nat /\ now' >= now
  BY DEF LimiterInv
<1> QED
  BY <1>2, <1>3, NobodyPasses

\* What the limiter keeps, and what it let pass, is an invariant of the registry.
THEOREM LimiterInvariant == Spec => []LimiterInv
<1>1. ASSUME RegInv, LimiterInv, [Next]_vars
      PROVE  LimiterInv'
  <2> USE <1>1
  <2>1. CASE UNCHANGED vars
    <3>1. UNCHANGED <<now, stamps, passed, state, request>> /\ now' \in Nat /\ now' >= now
      BY <2>1 DEF vars, LimiterInv
    <3> QED
      BY <3>1, NobodyPasses DEF LimiterInv
  <2>2. CASE Tick
    <3>1. UNCHANGED <<stamps, passed, state, request>> /\ now' \in Nat /\ now' >= now
      BY <2>2 DEF Tick, LimiterInv
    <3> QED
      BY <3>1, NobodyPasses DEF LimiterInv
  <2>3. ASSUME NEW name \in Names, NEW b \in BOOLEAN, Register(name, b) \/ Switch(name, b)
        PROVE  LimiterInv'
    <3>1. UNCHANGED <<now, stamps, passed, state, request>> /\ now' \in Nat /\ now' >= now
      BY <2>3 DEF Register, Switch, LimiterInv
    <3> QED
      BY <3>1, NobodyPasses DEF LimiterInv
  <2>4. ASSUME NEW c \in Calls, NEW r \in Request, Call(c, r)
        PROVE  LimiterInv'
    <3>1. CASE UNCHANGED <<stamps, passed>>
      BY <2>4, <3>1, UnlimitedKeeps
    <3>2. CASE Limit(c, r)
      BY <2>4, <3>2, PassKeeps, StopKeeps DEF Limit
    <3> QED
      BY <2>4, <3>1, <3>2 DEF Call
  <2>5. ASSUME NEW c \in Calls,
               \/ Stopped(c) \/ Invalid(c) \/ Begin(c)
               \/ Succeeds(c) \/ Fails(c) \/ Cancelled(c)
        PROVE  LimiterInv'
    <3>1. /\ \E s \in States \ {"new"} : state' = [state EXCEPT ![c] = s]
          /\ UNCHANGED <<now, stamps, request, passed>>
      BY <2>5 DEF Stopped, Invalid, Begin, Succeeds, Fails, Cancelled, Ends, States
    <3> QED
      BY <3>1, GoingOnKeeps
  <2> QED
    BY <2>1, <2>2, <2>3, <2>4, <2>5 DEF Next
<1> QED
  BY <1>1, LimiterBegins, RegistryInvariant, PTL DEF Spec

\* No session gets more calls of a tool past rate_limit_middleware() than it allows in
\* any window, wherever the window begins and whatever happens to the calls afterwards.
THEOREM LimitKept == Spec => []NotTooFrequent
<1>1. LimiterInv => NotTooFrequent
  BY DEF LimiterInv, NotTooFrequent, PassedUntil
<1> QED
  BY <1>1, LimiterInvariant, PTL
=============================================================================
