----------------------------- MODULE MCHeartbeat -----------------------------
(* Heartbeat with a check that awaits, one that does not, and one that is  *)
(* registered later.                                                       *)
EXTENDS Heartbeat

MCFirst == <<"memory_db", "ollama">>
=============================================================================
