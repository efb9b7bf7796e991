------------------------------ MODULE Pipeline ------------------------------
(***************************************************************************)
(* What a telemetry pipeline promises to the session handlers that start   *)
(* and stop it (the results of startOtelSdk and shutdownOtelSdk), and      *)
(* nothing of how its signals keep the promise:                            *)
(*   - an attempt ends completed, failed or timed out, and one that timed  *)
(*     out settles by itself: nothing else begins before;                  *)
(*   - exporters are acquired only while it starts, and given up only by   *)
(*     an attempt in flight;                                               *)
(*   - a pipeline that is down holds nothing and stays down.               *)
(* The controller (OtelController) is checked to keep this promise, and    *)
(* the handlers (SessionLifecycle) to rely on no more than it.             *)
(***************************************************************************)

VARIABLES
  life,   \* what its client may still ask of it
  held    \* whether a signal of it may hold an exporter

vars == <<life, held>>

\* The moments when the start, a rollback or a shutdown is in flight.
Busy == {"starting", "closing", "settling"}

Outcome == {"completed", "failed", "timedOut"}

Init ==
  /\ life \in {"unused", "starting"}
  /\ held = FALSE

Start ==
  /\ life = "unused"
  /\ life' = "starting"
  /\ UNCHANGED held

\* What is held after a step: more than before only while the pipeline starts.
MayHold ==
  /\ held' \in BOOLEAN
  /\ held' => held \/ life = "starting"

\* A signal starts, or is shut down by the attempt in flight.
Progress ==
  /\ life \in Busy
  /\ life' = life
  /\ MayHold

Started ==
  /\ life = "starting"
  /\ life' = "started"
  /\ MayHold

\* A shutdown begins: never over one that is in flight.
Close ==
  /\ life \in {"started", "retryable"}
  /\ life' = "closing"
  /\ UNCHANGED held

\* The attempt in flight ends; a retry may begin and end between two steps of
\* the client.
End(outcome) ==
  /\ life \in Busy \cup {"retryable"}
  /\ MayHold
  /\ \/ outcome = "completed" /\ life' = "down" /\ ~held'
     \/ outcome = "failed" /\ life' = "retryable"
     \/ outcome = "timedOut" /\ life # "settling" /\ life' = "settling"

Next ==
  \/ Start \/ Progress \/ Started \/ Close
  \/ \E outcome \in Outcome : End(outcome)

Spec == Init /\ [][Next]_vars

=============================================================================
