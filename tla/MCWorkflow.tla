----------------------------- MODULE MCWorkflow ------------------------------
(* The shape of the built-in workflow "research", a nested pipeline in the  *)
(* place of the summary: one whose first step runs in a thread.             *)
EXTENDS Workflow

MCConditional == {2, 3}
MCSync == {}
MCMaxRetries == <<1, 1, 0, 0>>
MCOnError == <<"skip", "retry", "skip", "skip">>
MCAction == <<"tool", "pipeline", "memory", "structured">>
MCNeeds == <<0, 1, 1, 0>>
MCReads == <<0, 0, 1, 2>>

MCNestedConditional == {2}
MCNestedSync == {1}
MCNestedMaxRetries == <<1, 0>>
MCNestedOnError == <<"skip", "fail">>
=============================================================================
