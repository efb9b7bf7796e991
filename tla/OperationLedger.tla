--------------------------- MODULE OperationLedger ---------------------------
(***************************************************************************)
(* What the process-wide registry of unfinished OTEL operations promises   *)
(* to the session handlers (interface OtelOperationOwnership), and nothing *)
(* of how it keeps the promise:                                            *)
(*   - an operation that did not complete is owed until it completes;      *)
(*   - a telemetry start is granted only by a decision taken while nothing *)
(*     is owed.                                                            *)
(* OtelOwnership.tla is the algorithm and is checked to implement this.    *)
(***************************************************************************)

CONSTANT Op        \* the flush and shutdown operations of the process

VARIABLES
  owed,            \* operations handed over and not yet completed
  completed,       \* operations whose exporter work completed
  verdict          \* the decision callers are about to receive, if any

vars == <<owed, completed, verdict>>

Verdict == {"none", "granted", "refused"}

TypeOK ==
  /\ owed \subseteq Op
  /\ completed \subseteq Op
  /\ verdict \in Verdict

Init ==
  /\ owed = {}
  /\ completed = {}
  /\ verdict = "none"

\* A decision may accompany any step; it grants only when nothing is owed.
Decide ==
  \/ verdict' = verdict
  \/ verdict = "none" /\ verdict' = "refused"
  \/ verdict = "none" /\ verdict' = "granted" /\ owed' = {}

\* An operation ended without completing: it is owed from now on.
Own(op) ==
  /\ op \notin owed \cup completed
  /\ owed' = owed \cup {op}
  /\ UNCHANGED <<completed, verdict>>

\* An operation completed, at once or after being owed.
Complete(op) ==
  /\ op \notin completed
  /\ completed' = completed \cup {op}
  /\ owed' = owed \ {op}
  /\ Decide

\* A decision that no completion triggers.
Judge ==
  /\ UNCHANGED <<owed, completed>>
  /\ Decide

\* The decision reaches the callers; the next question starts afresh.
Deliver ==
  /\ verdict # "none"
  /\ verdict' = "none"
  /\ UNCHANGED <<owed, completed>>

Next ==
  \/ \E op \in Op : Own(op) \/ Complete(op)
  \/ Judge
  \/ Deliver

Spec == Init /\ [][Next]_vars

=============================================================================
