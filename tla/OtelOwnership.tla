---------------------------- MODULE OtelOwnership ----------------------------
(***************************************************************************)
(* The process-wide owner of OTEL flush and shutdown operations that did   *)
(* not complete (src/pi/otel-operation-ownership.ts), together with the    *)
(* bounded operations it retries (src/otel/shutdown.ts).                   *)
(*                                                                         *)
(* Everything runs on one event loop: an action is the code between two    *)
(* awaits.  A resolution scans the live #operations Set and suspends at    *)
(* each retry; meanwhile other handlers may retain operations, and the     *)
(* promises of timed-out attempts may settle.                              *)
(***************************************************************************)
EXTENDS Naturals, FiniteSets

CONSTANTS
  FlushOps,      \* operations retained with kind "flush"
  ShutdownOps,   \* operations retained with kind "shutdown"
  NoOp,          \* no operation
  Caller,        \* session_start handlers that ask resolveBeforeStart
  MaxAttempts    \* bound: the last attempt of an operation completes

ASSUME NoOpOutside == NoOp \notin FlushOps \cup ShutdownOps
ASSUME OpsDisjoint == FlushOps \cap ShutdownOps = {}
ASSUME AttemptBound == MaxAttempts \in Nat \ {0}

Op == FlushOps \cup ShutdownOps
OpsOf(kind) == IF kind = "flush" THEN FlushOps ELSE ShutdownOps

VARIABLES
  rank,          \* position of an operation in #operations, 0 when absent
  lastRank,      \* the highest position given so far
  state,         \* OwnedOperationState of each operation
  pending,       \* the attempt pendingSettlement belongs to, 0 for none
  attempt,       \* attempts started for the operation so far
  inflight,      \* attempts whose promise has not settled
  resolution,    \* #resolution: no promise, one suspended in a retry, or its value
  retried,       \* the operation whose retry it awaits
  caller,        \* what each session_start handler waits for or received
  diagnostic,    \* #diagnosticEmitted: the startup diagnostic is armed or emitted
  succeeded,     \* history: operations one of whose attempts completed
  diagnostics    \* history: diagnostics taken since #operations was empty

vars == <<rank, lastRank, state, pending, attempt, inflight, resolution,
          retried, caller, diagnostic, succeeded, diagnostics>>

Outcome == {"completed", "failed", "timedOut"}

Operations == {op \in Op : rank[op] # 0}

TypeOK ==
  /\ rank \in [Op -> Nat]
  /\ lastRank \in Nat
  /\ state \in [Op -> {"retryable", "settling"}]
  /\ pending \in [Op -> Nat]
  /\ attempt \in [Op -> 0 .. MaxAttempts]
  /\ inflight \in [Op -> SUBSET Nat]
  /\ resolution \in {"none", "retrying", "granted", "refused"}
  /\ retried \in Op \cup {NoOp}
  /\ resolution = "retrying" <=> retried # NoOp
  /\ caller \in [Caller -> {"idle", "waiting", "granted", "refused"}]
  /\ diagnostic \in {"armed", "emitted"}
  /\ succeeded \subseteq Op
  /\ diagnostics \in Nat

Init ==
  /\ rank = [op \in Op |-> 0]
  /\ lastRank = 0
  /\ state = [op \in Op |-> "retryable"]
  /\ pending = [op \in Op |-> 0]
  /\ attempt = [op \in Op |-> 0]
  /\ inflight = [op \in Op |-> {}]
  /\ resolution = "none"
  /\ retried = NoOp
  /\ caller = [c \in Caller |-> "idle"]
  /\ diagnostic = "armed"
  /\ succeeded = {}
  /\ diagnostics = 0

-----------------------------------------------------------------------------
(* Retaining and releasing an operation *)

\* Fault: the registry keeps the raw outcome as the state of the operation.
StateAfter_RawOutcome(outcome) ==
  IF outcome = "timedOut" THEN "settling" ELSE outcome

\* How a result leaves the owned operation: a timed-out result carries the
\* promise of the attempt that is still running.
StateAfter(outcome) == IF outcome = "timedOut" THEN "settling" ELSE "retryable"
PendingAfter(outcome, n) == IF outcome = "timedOut" THEN n ELSE 0
InflightAfter(outcome, n) == IF outcome = "timedOut" THEN {n} ELSE {}

\* Within the bound on attempts an outcome other than completion is possible.
Possible(outcome, n) == outcome = "completed" \/ n < MaxAttempts

\* retain(result, ...): a completed result is not kept.
Retain(op, outcome) ==
  /\ attempt[op] = 0
  /\ Possible(outcome, 1)
  /\ attempt' = [attempt EXCEPT ![op] = 1]
  /\ \/ /\ outcome = "completed"
        /\ succeeded' = succeeded \cup {op}
        /\ UNCHANGED <<rank, lastRank, state, pending, inflight>>
     \/ /\ outcome # "completed"
        /\ lastRank' = lastRank + 1
        /\ rank' = [rank EXCEPT ![op] = lastRank + 1]
        /\ state' = [state EXCEPT ![op] = StateAfter(outcome)]
        /\ pending' = [pending EXCEPT ![op] = PendingAfter(outcome, 1)]
        /\ inflight' = [inflight EXCEPT ![op] = InflightAfter(outcome, 1)]
        /\ UNCHANGED succeeded
  /\ UNCHANGED <<resolution, retried, caller, diagnostic, diagnostics>>

\* release(op): leaves the Set; emptying it re-arms the startup diagnostic.
Release(op) ==
  /\ rank' = [rank EXCEPT ![op] = 0]
  /\ pending' = [pending EXCEPT ![op] = 0]
  /\ succeeded' = succeeded \cup {op}
  /\ IF Operations = {op}
     THEN diagnostic' = "armed" /\ diagnostics' = 0
     ELSE UNCHANGED <<diagnostic, diagnostics>>

-----------------------------------------------------------------------------
(* Resolving before a telemetry start *)

\* The operations of a kind a scan has yet to visit: the iterator of a Set
\* follows insertion order and sees members added while it is suspended.
Ahead(r, kind, from) == {op \in OpsOf(kind) : r[op] > from}
FirstOf(r, ops) == {op \in ops : \A other \in ops : r[op] <= r[other]}

\* Flush operations are visited before shutdown operations.
ToVisit(r, kind, from) ==
  IF Ahead(r, kind, from) # {} THEN Ahead(r, kind, from)
  ELSE IF kind = "flush" THEN Ahead(r, "shutdown", 0) ELSE {}

KindOf(op) == IF op \in FlushOps THEN "flush" ELSE "shutdown"

Conclude(granted) ==
  /\ resolution' = IF granted THEN "granted" ELSE "refused"
  /\ retried' = NoOp

\* Fault: an operation that is still settling is retried as well.
ScanOn_RetriesSettling(r, live, kind, from) ==
  \/ /\ ToVisit(r, kind, from) = {}
     /\ Conclude(\A op \in Op : r[op] = 0)
     /\ inflight' = live
     /\ UNCHANGED attempt
  \/ \E op \in FirstOf(r, ToVisit(r, kind, from)) :
       /\ attempt[op] < MaxAttempts
       /\ resolution' = "retrying"
       /\ retried' = op
       /\ attempt' = [attempt EXCEPT ![op] = @ + 1]
       /\ inflight' = [live EXCEPT ![op] = @ \cup {attempt[op] + 1}]

\* Fault: a scan that reached the end grants without looking at the Set again.
ScanOn_TrustsTheScan(r, live, kind, from) ==
  \/ /\ ToVisit(r, kind, from) = {}
     /\ Conclude(TRUE)
     /\ inflight' = live
     /\ UNCHANGED attempt
  \/ \E op \in FirstOf(r, ToVisit(r, kind, from)) :
       \/ /\ state[op] = "settling"
          /\ Conclude(FALSE)
          /\ inflight' = live
          /\ UNCHANGED attempt
       \/ /\ state[op] = "retryable"
          /\ resolution' = "retrying"
          /\ retried' = op
          /\ attempt' = [attempt EXCEPT ![op] = @ + 1]
          /\ inflight' = [live EXCEPT ![op] = @ \cup {attempt[op] + 1}]

\* retryUnresolvedOperations from a position up to its next suspension: r is
\* the rank and live the attempts in flight once the caller's part is done.
ScanOn(r, live, kind, from) ==
  \/ /\ ToVisit(r, kind, from) = {}
     /\ Conclude(\A op \in Op : r[op] = 0)
     /\ inflight' = live
     /\ UNCHANGED attempt
  \/ \E op \in FirstOf(r, ToVisit(r, kind, from)) :
       \/ /\ state[op] = "settling"
          /\ Conclude(FALSE)
          /\ inflight' = live
          /\ UNCHANGED attempt
       \/ /\ state[op] = "retryable"
          /\ resolution' = "retrying"
          /\ retried' = op
          /\ attempt' = [attempt EXCEPT ![op] = @ + 1]
          /\ inflight' = [live EXCEPT ![op] = @ \cup {attempt[op] + 1}]

\* resolveBeforeStart(): a second caller shares the resolution under way.
ResolveBeforeStart(c) ==
  /\ caller[c] = "idle"
  /\ caller' = [caller EXCEPT ![c] = "waiting"]
  /\ \/ /\ resolution # "none"
        /\ UNCHANGED <<resolution, retried, attempt, inflight>>
     \/ /\ resolution = "none"
        /\ ScanOn(rank, inflight, "flush", 0)
  /\ UNCHANGED <<rank, lastRank, state, pending, diagnostic, succeeded,
                 diagnostics>>

\* The retry returns.  A completed operation is released and the scan goes
\* on; any other outcome ends the resolution unresolved.
RetryReturns(outcome) ==
  /\ resolution = "retrying"
  /\ LET op == retried
         n == attempt[op]
         settled == [inflight EXCEPT ![op] = @ \ {n}]
     IN  /\ Possible(outcome, n)
         /\ \/ /\ outcome = "completed"
               /\ Release(op)
               /\ ScanOn([rank EXCEPT ![op] = 0], settled, KindOf(op), rank[op])
               /\ UNCHANGED state
            \/ /\ outcome # "completed"
               /\ state' = [state EXCEPT ![op] = StateAfter(outcome)]
               /\ pending' = [pending EXCEPT ![op] = PendingAfter(outcome, n)]
               /\ inflight' = IF outcome = "timedOut" THEN inflight ELSE settled
               /\ Conclude(FALSE)
               /\ UNCHANGED <<rank, attempt, diagnostic, succeeded, diagnostics>>
  /\ UNCHANGED <<lastRank, caller>>

\* Fault: only one of the waiting callers holds the promise that resolves.
FinishResolution_AnswersOne ==
  /\ resolution \in {"granted", "refused"}
  /\ \E c \in Caller : /\ caller[c] = "waiting"
                       /\ caller' = [caller EXCEPT ![c] = resolution]
  /\ resolution' = "none"
  /\ UNCHANGED <<retried, rank, lastRank, state, pending, attempt, inflight,
                 diagnostic, succeeded, diagnostics>>

\* finishResolution(): the resolution is forgotten and its callers resume.
FinishResolution ==
  /\ resolution \in {"granted", "refused"}
  /\ caller' = [c \in Caller |->
                  IF caller[c] = "waiting" THEN resolution ELSE caller[c]]
  /\ resolution' = "none"
  /\ UNCHANGED <<retried, rank, lastRank, state, pending, attempt, inflight,
                 diagnostic, succeeded, diagnostics>>

\* Fault: a late settlement releases the operation even when it failed.
ApplyPendingSettlement_ReleasesFailures(op, n, outcome) ==
  /\ n \in inflight[op]
  /\ ~(retried = op /\ n = attempt[op])
  /\ outcome # "timedOut"
  /\ inflight' = [inflight EXCEPT ![op] = @ \ {n}]
  /\ rank' = [rank EXCEPT ![op] = 0]
  /\ pending' = [pending EXCEPT ![op] = 0]
  /\ succeeded' = IF outcome = "completed" THEN succeeded \cup {op} ELSE succeeded
  /\ UNCHANGED <<lastRank, state, attempt, resolution, retried, caller,
                 diagnostic, diagnostics>>

\* Fault: a late failure is recorded but the operation is left "settling".
ApplyPendingSettlement_StaysSettling(op, n, outcome) ==
  /\ n \in inflight[op]
  /\ ~(retried = op /\ n = attempt[op])
  /\ outcome # "timedOut"
  /\ inflight' = [inflight EXCEPT ![op] = @ \ {n}]
  /\ IF outcome = "completed"
     THEN Release(op)
     ELSE /\ pending' = [pending EXCEPT ![op] = 0]
          /\ UNCHANGED <<rank, diagnostic, succeeded, diagnostics>>
  /\ UNCHANGED <<lastRank, state, attempt, resolution, retried, caller>>

\* applyPendingSettlement(op): the promise of attempt n settles late.  It is
\* ignored when the operation is gone or another attempt is observed.
ApplyPendingSettlement(op, n, outcome) ==
  /\ n \in inflight[op]
  /\ ~(retried = op /\ n = attempt[op])
  /\ outcome # "timedOut"
  /\ inflight' = [inflight EXCEPT ![op] = @ \ {n}]
  /\ \/ /\ rank[op] = 0 \/ pending[op] # n
        /\ succeeded' = IF outcome = "completed" THEN succeeded \cup {op} ELSE succeeded
        /\ UNCHANGED <<rank, state, pending, diagnostic, diagnostics>>
     \/ /\ rank[op] # 0 /\ pending[op] = n
        /\ outcome = "completed"
        /\ Release(op)
        /\ UNCHANGED state
     \/ /\ rank[op] # 0 /\ pending[op] = n
        /\ outcome = "failed"
        /\ pending' = [pending EXCEPT ![op] = 0]
        /\ state' = [state EXCEPT ![op] = "retryable"]
        /\ UNCHANGED <<rank, diagnostic, succeeded, diagnostics>>
  /\ UNCHANGED <<lastRank, attempt, resolution, retried, caller>>

\* Fault: the diagnostic is handed out whenever something is unresolved.
TakeStartupDiagnostic_Repeats(c) ==
  /\ caller[c] = "refused"
  /\ caller' = [caller EXCEPT ![c] = "idle"]
  /\ IF Operations = {}
     THEN UNCHANGED <<diagnostic, diagnostics>>
     ELSE diagnostic' = "emitted" /\ diagnostics' = diagnostics + 1
  /\ UNCHANGED <<rank, lastRank, state, pending, attempt, inflight, resolution,
                 retried, succeeded>>

\* A refused handler asks takeStartupDiagnostic() and returns; a granted one
\* goes on to start telemetry.  Either may come back with a later session.
TakeStartupDiagnostic(c) ==
  /\ caller[c] = "refused"
  /\ caller' = [caller EXCEPT ![c] = "idle"]
  /\ IF Operations = {} \/ diagnostic = "emitted"
     THEN UNCHANGED <<diagnostic, diagnostics>>
     ELSE diagnostic' = "emitted" /\ diagnostics' = diagnostics + 1
  /\ UNCHANGED <<rank, lastRank, state, pending, attempt, inflight, resolution,
                 retried, succeeded>>

StartTelemetry(c) ==
  /\ caller[c] = "granted"
  /\ caller' = [caller EXCEPT ![c] = "idle"]
  /\ UNCHANGED <<rank, lastRank, state, pending, attempt, inflight, resolution,
                 retried, diagnostic, succeeded, diagnostics>>

-----------------------------------------------------------------------------
Next ==
  \/ \E op \in Op, outcome \in Outcome : Retain(op, outcome)
  \/ \E c \in Caller :
       ResolveBeforeStart(c) \/ TakeStartupDiagnostic(c) \/ StartTelemetry(c)
  \/ \E outcome \in Outcome : RetryReturns(outcome)
  \/ FinishResolution
  \/ \E op \in Op : \E n \in inflight[op], outcome \in Outcome :
       ApplyPendingSettlement(op, n, outcome)

Spec == Init /\ [][Next]_vars

\* A retry is bounded by its timeout and the event loop runs every ready
\* continuation.  Nothing obliges a timed-out attempt to settle, an operation
\* to be retained, or a handler to call.
Fairness ==
  /\ WF_vars(\E outcome \in Outcome : RetryReturns(outcome))
  /\ WF_vars(FinishResolution)

FairSpec == Spec /\ Fairness

-----------------------------------------------------------------------------
(* Properties *)

\* An operation is never attempted again while an earlier attempt of it is
\* still running: the exporter is not flushed or shut down twice at once.
NoOverlappingAttempts == \A op \in Op : Cardinality(inflight[op]) <= 1

\* An operation that was attempted and never completed is owned, whatever the
\* order of retries, timeouts and late settlements: no cleanup is forgotten.
NoForgottenCleanup ==
  \A op \in Op : attempt[op] > 0 /\ op \notin succeeded => op \in Operations

\* An operation parked as "settling" (which no resolution retries) has an
\* attempt in flight whose settlement is observed: it cannot be stuck there.
SettlingCanLeave ==
  \A op \in Operations :
    state[op] = "settling" => pending[op] \in inflight[op]

\* An exporter is never flushed or shut down twice at once, whichever retry,
\* timeout and late settlement overtakes another.
AttemptsAreExclusive == TypeOK /\ NoOverlappingAttempts

\* A cleanup that did not complete is owned, and where no resolution may retry it
\* the attempt that is in flight will tell of its end.
CleanupIsAttended == NoForgottenCleanup /\ SettlingCanLeave

\* Between two moments without unresolved operations the startup diagnostic
\* is taken at most once, and it is armed again when the Set empties.
DiagnosticOncePerEpisode ==
  /\ diagnostics <= 1
  /\ Operations = {} => diagnostic = "armed"

\* Every handler that asks for the resolution gets an answer, however many
\* operations are retained and however late their attempts settle.
EveryCallerAnswered ==
  \A c \in Caller : caller[c] = "waiting" ~> caller[c] # "waiting"

\* The registry implements its abstract promise.
Ledger == INSTANCE OperationLedger WITH
  owed <- Operations,
  completed <- succeeded,
  verdict <- IF resolution = "retrying" THEN "none" ELSE resolution

ImplementsLedger == Ledger!Spec

=============================================================================
