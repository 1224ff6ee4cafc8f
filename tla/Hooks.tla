-------------------------------- MODULE Hooks -------------------------------
(***************************************************************************)
(* HookSystem of agent/hooks.py: hooks of one event and wildcard hooks,    *)
(* emitted concurrently.  An emission works on the list it read first,     *)
(* whatever is registered, disabled or removed while a handler is awaited. *)
(***************************************************************************)
EXTENDS Ranks, SequencesExt

CONSTANTS
  Hooks,     \* registrations (HookRegistration objects)
  Name,      \* Name[h]: what off() finds h by
  Priority,  \* Priority[h], 1 is first
  Wildcard,  \* the hooks registered with on_any()
  Once,      \* the hooks registered with once=True
  Emissions

ASSUME HooksAssumption ==
  /\ Priority \in [Hooks -> Nat]
  /\ Wildcard \subseteq Hooks /\ Once \subseteq Hooks \ Wildcard

VARIABLES
  made,      \* the registrations made so far
  wildcard,  \* _wildcard
  hooks,     \* _hooks[event]
  enabled,   \* the hooks that are not switched off
  state,     \* of an emission: "new", "awaiting" a handler, "done"
  left,      \* all_hooks after the one it awaits
  toRemove,  \* to_remove
  begun,     \* the hooks it has called
  stopped,   \* propagate was set to False (for the properties)
  awake      \* the hooks in place and enabled ever since it began (for the properties)

hookVars ==
  <<made, wildcard, hooks, enabled, state, left, toRemove, begun, stopped, awake>>
emission == <<state, left, toRemove, begun, stopped>>

Registered == ToSet(wildcard) \cup ToSet(hooks)

\* list.sort(key=priority) is stable.
Before(s) == {q \in (DOMAIN s) \X (DOMAIN s) :
                \/ Priority[s[q[1]]] < Priority[s[q[2]]]
                \/ Priority[s[q[1]]] = Priority[s[q[2]]] /\ q[1] < q[2]}
Sorted(s) == Ranked(s, DOMAIN s, Before(s))

\* off(name) for the names in N.
Others(s, N) == Kept(s, {i \in DOMAIN s : Name[s[i]] \notin N})
-----------------------------------------------------------------------------
HooksInit ==
  /\ made = {} /\ wildcard = <<>> /\ hooks = <<>>
  /\ enabled = Hooks
  /\ state = [e \in Emissions |-> "new"]
  /\ left = [e \in Emissions |-> <<>>]
  /\ toRemove = [e \in Emissions |-> {}]
  /\ begun = [e \in Emissions |-> <<>>]
  /\ stopped = [e \in Emissions |-> FALSE]
  /\ awake = [e \in Emissions |-> {}]

\* on(): appended, then sorted with the hooks already there; on_any().
On(h) ==
  /\ h \notin made \cup Wildcard
  /\ made' = made \cup {h}
  /\ hooks' = Sorted(Append(hooks, h))
  /\ UNCHANGED <<wildcard, enabled, emission, awake>>

OnAny(h) ==
  /\ h \in Wildcard \ made
  /\ made' = made \cup {h}
  /\ wildcard' = Append(wildcard, h)
  /\ UNCHANGED <<hooks, enabled, emission, awake>>

\* off() with each name in N.
OffAll(N) ==
  /\ wildcard' = Others(wildcard, N)
  /\ hooks' = Others(hooks, N)

Off(n) ==
  /\ OffAll({n})
  /\ awake' = [e \in Emissions |-> {h \in awake[e] : Name[h] # n}]
  /\ UNCHANGED <<made, enabled, emission>>

\* reg.enabled = False, and back.
Toggle(h) ==
  /\ h \in made
  /\ enabled' = IF h \in enabled THEN enabled \ {h} ELSE enabled \cup {h}
  /\ awake' = [e \in Emissions |-> awake[e] \ {h}]
  /\ UNCHANGED <<made, wildcard, hooks, emission>>

\* The loop of emit() on the hooks of s: it awaits the next handler that is not
\* switched off, or has none left and removes the hooks of R.
Continue(e, s, R) ==
  LET on == {i \in DOMAIN s : s[i] \in enabled}
      n == IF on = {} THEN 0 ELSE Foremost(on)
  IN /\ toRemove' = [toRemove EXCEPT ![e] = R]
     /\ left' = [left EXCEPT ![e] = IF n = 0 THEN <<>> ELSE SubSeq(s, n + 1, Len(s))]
     /\ IF n = 0
        THEN /\ state' = [state EXCEPT ![e] = "done"]
             /\ OffAll({Name[h] : h \in R})
             /\ UNCHANGED begun
        ELSE /\ state' = [state EXCEPT ![e] = "awaiting"]
             /\ begun' = [begun EXCEPT ![e] = Append(@, s[n])]
             /\ UNCHANGED <<wildcard, hooks>>

\* emit(): a list of its own, the wildcard hooks first among equals.
EmitUnsorted(e) ==
  /\ state[e] = "new"
  /\ Continue(e, wildcard \o hooks, {})
  /\ awake' = [awake EXCEPT ![e] = Registered \cap enabled]
  /\ UNCHANGED <<made, enabled, stopped>>
Emit(e) ==
  /\ state[e] = "new"
  /\ Continue(e, Sorted(wildcard \o hooks), {})
  /\ awake' = [awake EXCEPT ![e] = Registered \cap enabled]
  /\ UNCHANGED <<made, enabled, stopped>>

\* The handler awaited returns, perhaps having set event.propagate to False.
Returns(e) ==
  LET h == begun[e][Len(begun[e])]
  IN /\ state[e] = "awaiting"
     /\ \E stop \in BOOLEAN :
          /\ Continue(e, IF stop THEN <<>> ELSE left[e],
                      toRemove[e] \cup ({h} \cap Once))
          /\ stopped' = [stopped EXCEPT ![e] = stop]
     /\ awake' = [d \in Emissions |-> awake[d] \cap (Registered')]
     /\ UNCHANGED <<made, enabled>>

\* It raises: logged, and the loop goes on.
RaisesBreak(e) ==
  /\ state[e] = "awaiting"
  /\ Continue(e, <<>>, toRemove[e])
  /\ awake' = [d \in Emissions |-> awake[d] \cap (Registered')]
  /\ UNCHANGED <<made, enabled, stopped>>
Raises(e) ==
  /\ state[e] = "awaiting"
  /\ Continue(e, left[e], toRemove[e])
  /\ awake' = [d \in Emissions |-> awake[d] \cap (Registered')]
  /\ UNCHANGED <<made, enabled, stopped>>

HooksNext ==
  \/ \E h \in Hooks : On(h) \/ OnAny(h) \/ Toggle(h)
  \/ \E n \in {Name[h] : h \in Hooks} : Off(n)
  \/ \E e \in Emissions : Emit(e) \/ Returns(e) \/ Raises(e)

HooksSpec == HooksInit /\ [][HooksNext]_hookVars
-----------------------------------------------------------------------------
\* An emission calls no hook twice and none before one of higher priority, though
\* hooks come and go while it waits.
PriorityOrder ==
  \A e \in Emissions : \A i, j \in DOMAIN begun[e] :
    i < j => /\ begun[e][i] # begun[e][j]
             /\ Priority[begun[e][i]] <= Priority[begun[e][j]]

\* A handler that raises takes nothing from the others: a hook that is in place
\* and enabled throughout the emission is called, unless one stopped the event; and
\* when the emissions are over, a one-shot hook whose handler returned is gone.
NobodySkipped ==
  /\ \A e \in Emissions :
       state[e] = "done" /\ ~stopped[e] => awake[e] \subseteq ToSet(begun[e])
  /\ (\A e \in Emissions : state[e] # "awaiting")
       => \A e \in Emissions : toRemove[e] \cap Registered = {}
=============================================================================
