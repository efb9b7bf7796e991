--------------------------- MODULE MCWorkflowSpans ---------------------------
(***************************************************************************)
(* WorkflowSpans in three parts, whose events share no state but that of   *)
(* the session: agent runs and turns, LLM requests, and tool calls.        *)
(***************************************************************************)
EXTENDS WorkflowSpans

VARIABLE part  \* "runs", "requests" or "calls"

PartsInit == Init /\ part \in {"runs", "requests", "calls"}
PartsNext ==
  /\ UNCHANGED part
  /\ \/ part = "runs" /\ RunEvents
     \/ part = "requests" /\ RequestEvents
     \/ part = "calls" /\ ToolEvents
     \/ EndAllActiveSpans

PartsSpec == PartsInit /\ [][PartsNext]_<<part, vars>>
=============================================================================
