------------------------------- MODULE MCChat -------------------------------
(* Chat for one user: a question, a greeting, a text that triggers a skill *)
(* and one that check_prompt_injection() refuses.                          *)
EXTENDS Chat, TLC

CONSTANTS question, greeting, command, attack

MCTexts == {question, greeting, command, attack}
MCUnsafe == {attack}
MCQuick == {greeting}
MCSkilled == {command}

\* Requests and sessions are interchangeable.
Interchangeable == Permutations(Requests) \cup Permutations(Sessions)
=============================================================================
