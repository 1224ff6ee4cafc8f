----------------------------- MODULE MCEventBus -----------------------------
(* EventBus for a client that follows everything and one that asks for the *)
(* tokens of its own session.                                              *)
EXTENDS EventBus

CONSTANTS token, system, none, s1

MCKinds == {token, system}
MCTags == {none, s1}
MCWishes == {[kinds |-> {}, tags |-> MCTags], [kinds |-> {token}, tags |-> {s1}]}
=============================================================================
