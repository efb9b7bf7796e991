-------------------------- MODULE SessionLifecycle --------------------------
(***************************************************************************)
(* The session_start and session_shutdown handlers of the extension        *)
(* (src/pi/event-handlers/lifecycle.ts), the queue that serialises them    *)
(* (src/pi/handler-runtime.ts), the shutdown fence of the integration API  *)
(* (src/pi/integration-registration.ts) and the operations a teardown      *)
(* leaves to the process-wide owner (OtelOwnership.tla, here with one      *)
(* action per retry).                                                      *)
(*                                                                         *)
(* One action is the code between two awaits.  Pi delivers events at any   *)
(* moment, also while a handler is suspended.                              *)
(***************************************************************************)
EXTENDS Integers, Sequences, FiniteSets

CONSTANTS
  Session,        \* telemetry sessions that may be started
  NoSession,
  MaxDeliveries,  \* bound: how many lifecycle events Pi delivers
  MaxRetries      \* bound: unsuccessful retries of retained operations

ASSUME NoSessionOutside == NoSession \notin Session
ASSUME BoundsNat == MaxDeliveries \in Nat /\ MaxRetries \in Nat

Operation == {"flush", "shutdown"}

VARIABLES
  queue,         \* deliveries waiting in SerializedLifecycleQueue
  pc,            \* the await the running handler is suspended at
  purpose,       \* why the running handler tears a session down
  handled,       \* the session the running handler starts or tears down
  session,       \* state.session
  phase,         \* state.integrationSessionPhase ("open" when undefined)
  controller,    \* the OTEL pipeline of a session
  sessionSpan,   \* its pi.session span
  spawn,         \* a subagent operation opened through the integration API
  work,          \* a turn, LLM, tool or agent span opened by another handler
  lease,         \* its active-agent lease
  counted,       \* sessions with activeAgentRecorded
  activeAgents,  \* observme_active_agents, summed over the process
  owned,         \* operations held by OtelOperationOwnership
  runtime,       \* the session /obs commands report on
  deliveries,    \* bound counter
  retries        \* bound counter

vars == <<queue, pc, purpose, handled, session, phase, controller, sessionSpan,
          spawn, work, lease, counted, activeAgents, owned, runtime,
          deliveries, retries>>

\* Groups of variables that several actions leave alone.
spans   == <<sessionSpan, spawn, work>>
gauge   == <<lease, counted, activeAgents>>
signals == <<controller, spans, gauge>>
bounds  == <<deliveries, retries>>

Steps == {"idle", "resolving", "configuring", "starting", "leaving",
          "clearing", "flushing", "shuttingDown"}

\* The model's state is well typed.
TypeOK ==
  /\ queue \in Seq({"session_start", "session_shutdown"})
  /\ pc \in Steps
  /\ purpose \in {"none", "shutdown", "duplicate", "failedStart"}
  /\ handled \in Session \cup {NoSession}
  /\ session \in Session \cup {NoSession}
  /\ phase \in {"open", "closing"}
  /\ controller \in [Session -> {"unused", "starting", "started", "unsettled", "shutdown"}]
  /\ sessionSpan \in [Session -> {"none", "open", "ended"}]
  /\ spawn \in [Session -> {"none", "open", "ended"}]
  /\ work \in [Session -> {"none", "open", "ended"}]
  /\ lease \in [Session -> {"none", "idle", "active", "disposed"}]
  /\ counted \in SUBSET Session
  /\ activeAgents \in Int
  /\ owned \in [Session \X Operation -> {"none", "retryable", "settling"}]
  /\ runtime \in Session \cup {NoSession}
  /\ deliveries \in 0 .. MaxDeliveries
  /\ retries \in 0 .. MaxRetries

Init ==
  /\ queue = <<>>
  /\ pc = "idle"
  /\ purpose = "none"
  /\ handled = NoSession
  /\ session = NoSession
  /\ phase = "open"
  /\ controller = [s \in Session |-> "unused"]
  /\ sessionSpan = [s \in Session |-> "none"]
  /\ spawn = [s \in Session |-> "none"]
  /\ work = [s \in Session |-> "none"]
  /\ lease = [s \in Session |-> "none"]
  /\ counted = {}
  /\ activeAgents = 0
  /\ owned = [op \in Session \X Operation |-> "none"]
  /\ runtime = NoSession
  /\ deliveries = 0
  /\ retries = 0

Owed == {op \in Session \X Operation : owned[op] # "none"}

-----------------------------------------------------------------------------
(* Pi delivers lifecycle events *)

Deliver(event) ==
  /\ deliveries < MaxDeliveries
  /\ deliveries' = deliveries + 1
  /\ queue' = Append(queue, event)

DeliverStart ==
  /\ Deliver("session_start")
  /\ UNCHANGED <<pc, purpose, handled, session, phase, signals, owned, runtime,
                 retries>>

\* fenceAndUnsubscribeIntegration is not queued: it runs on delivery.
DeliverShutdown ==
  /\ Deliver("session_shutdown")
  /\ phase' = "closing"
  /\ UNCHANGED <<pc, purpose, handled, session, signals, owned, runtime, retries>>

-----------------------------------------------------------------------------
(* Teardown: shutDownTelemetrySession and cleanUpFailedSessionStart *)

\* Fault: the teardown relies on the delivery of session_shutdown for the fence.
BeginTeardown_NoFence(s, why) ==
  /\ pc' = "clearing"
  /\ purpose' = why
  /\ handled' = s
  /\ UNCHANGED phase

\* Up to the first await: the fence, and best-effort bookkeeping that
\* deactivates the lease and ends every span the session has open.
BeginTeardown(s, why) ==
  /\ pc' = "clearing"
  /\ purpose' = why
  /\ handled' = s
  /\ phase' = "closing"

\* SessionActiveAgentLease; a lease that is disposed stays so.
WithLease(s, st) == [lease EXCEPT ![s] = IF @ = "disposed" THEN @ ELSE st]
\* observeActiveAgentLease: the leases a collection of the metrics exports.
Exported == {s \in Session : lease[s] = "active"}

EndOpen(span) == IF span = "open" THEN "ended" ELSE span

\* Fault: the lease is deactivated and the gauge is left where it was.
TeardownBookkeeping_KeepsGauge(s) ==
  /\ lease' = WithLease(s, "idle")
  /\ counted' = counted \ {s}
  /\ UNCHANGED activeAgents
  /\ spawn' = [spawn EXCEPT ![s] = EndOpen(@)]
  /\ work' = [work EXCEPT ![s] = EndOpen(@)]
  /\ sessionSpan' = [sessionSpan EXCEPT ![s] = EndOpen(@)]

TeardownBookkeeping(s) ==
  /\ lease' = WithLease(s, "idle")
  /\ counted' = counted \ {s}
  /\ activeAgents' = IF s \in counted THEN activeAgents - 1 ELSE activeAgents
  /\ spawn' = [spawn EXCEPT ![s] = EndOpen(@)]
  /\ work' = [work EXCEPT ![s] = EndOpen(@)]
  /\ sessionSpan' = [sessionSpan EXCEPT ![s] = EndOpen(@)]

\* clearExtensionStatus awaits the UI and swallows its errors.
StatusCleared ==
  /\ pc = "clearing"
  /\ pc' = "flushing"
  /\ UNCHANGED <<queue, purpose, handled, session, phase, signals, owned,
                 runtime, bounds>>

\* How a bounded controller operation ends, and what is then retained.
Outcome == {"completed", "failed", "timedOut"}

\* Fault: only failures are retained, a timeout is expected to settle.
OwnedAfter_TrustsTimeouts(outcome) ==
  IF outcome = "failed" THEN "retryable" ELSE "none"

OwnedAfter(outcome) ==
  CASE outcome = "completed" -> "none"
    [] outcome = "failed"    -> "retryable"
    [] outcome = "timedOut"  -> "settling"

\* Fault: a shutdown that timed out counts as one that shut down.
ControllerAfter_TrustsTimeouts(outcome) ==
  IF outcome = "failed" THEN "unsettled" ELSE "shutdown"

ControllerAfter(outcome) ==
  IF outcome = "completed" THEN "shutdown" ELSE "unsettled"

FlushReturns(outcome) ==
  /\ pc = "flushing"
  /\ pc' = "shuttingDown"
  /\ owned' = [owned EXCEPT ![<<handled, "flush">>] = OwnedAfter(outcome)]
  /\ UNCHANGED <<queue, purpose, handled, session, phase, signals, runtime, bounds>>

\* finalizeTelemetrySessionCleanup
Finalize(s) ==
  /\ lease' = WithLease(s, "disposed")
  /\ runtime' = NoSession
  /\ IF session = s
     THEN session' = NoSession /\ phase' = "open"
     ELSE UNCHANGED <<session, phase>>

\* After the teardown of a duplicate start the handler goes on to start a new
\* session, unless some operation is owed.
ShutdownReturns(outcome) ==
  /\ pc = "shuttingDown"
  /\ owned' = [owned EXCEPT ![<<handled, "shutdown">>] = OwnedAfter(outcome)]
  /\ controller' = [controller EXCEPT ![handled] = ControllerAfter(outcome)]
  /\ Finalize(handled)
  /\ pc' = IF purpose = "duplicate" /\ \A op \in Session \X Operation : owned'[op] = "none"
           THEN "configuring" ELSE "idle"
  /\ handled' = NoSession
  /\ purpose' = "none"
  /\ UNCHANGED <<queue, spans, counted, activeAgents, bounds>>

-----------------------------------------------------------------------------
(* session_shutdown *)

Dequeue(event) ==
  /\ pc = "idle" /\ queue # <<>> /\ Head(queue) = event
  /\ queue' = Tail(queue)

HandleShutdown ==
  /\ Dequeue("session_shutdown")
  /\ \/ /\ session = NoSession
        /\ phase' = "open"
        /\ UNCHANGED <<pc, purpose, handled, spans, gauge>>
     \/ /\ session # NoSession
        /\ BeginTeardown(session, "shutdown")
        /\ TeardownBookkeeping(session)
  /\ UNCHANGED <<session, controller, owned, runtime, bounds>>

-----------------------------------------------------------------------------
(* session_start *)

HandleStart ==
  /\ Dequeue("session_start")
  /\ pc' = "resolving"
  /\ UNCHANGED <<purpose, handled, session, phase, signals, owned, runtime, bounds>>

\* The operation resolveBeforeStart looks at next: flushes come first.
NextOwed(op) ==
  /\ op \in Owed
  /\ op[2] = "shutdown" => \A other \in Owed : other[2] = "shutdown"

\* One retry of a retained operation.  A controller that is shut down has
\* released its SDK, and its flush completes at once.
RetryOwed(op, outcome) ==
  /\ pc = "resolving"
  /\ NextOwed(op) /\ owned[op] = "retryable"
  /\ controller[op[1]] = "shutdown" => outcome = "completed"
  /\ owned' = [owned EXCEPT ![op] = OwnedAfter(outcome)]
  /\ controller' = IF op[2] = "shutdown"
                   THEN [controller EXCEPT ![op[1]] = ControllerAfter(outcome)]
                   ELSE controller
  /\ \/ outcome = "completed" /\ UNCHANGED <<pc, retries>>
     \/ outcome # "completed" /\ pc' = "idle"
        /\ retries < MaxRetries /\ retries' = retries + 1
  /\ UNCHANGED <<queue, purpose, handled, session, phase, spans, gauge, runtime,
                 deliveries>>

\* Fault: the start waits for the settlement of an operation.
StartDeferred_Waits ==
  /\ pc = "resolving"
  /\ Owed = {}
  /\ UNCHANGED vars

\* resolvePendingTelemetryCleanupBeforeStart refuses: the start is deferred.
StartDeferred ==
  /\ pc = "resolving"
  /\ \E op \in Owed : NextOwed(op) /\ owned[op] = "settling"
  /\ pc' = "idle"
  /\ UNCHANGED <<queue, purpose, handled, session, phase, signals, owned,
                 runtime, bounds>>

\* Fault: the answer of the owner is not waited for.
StartGranted_Unresolved ==
  /\ pc = "resolving"
  /\ \/ /\ session # NoSession
        /\ BeginTeardown(session, "duplicate")
        /\ TeardownBookkeeping(session)
     \/ /\ session = NoSession
        /\ pc' = "configuring"
        /\ UNCHANGED <<purpose, handled, phase, spans, gauge>>
  /\ UNCHANGED <<queue, session, controller, owned, runtime, bounds>>

\* It grants: a session that is still live is replaced first.
StartGranted ==
  /\ pc = "resolving"
  /\ Owed = {}
  /\ \/ /\ session # NoSession
        /\ BeginTeardown(session, "duplicate")
        /\ TeardownBookkeeping(session)
     \/ /\ session = NoSession
        /\ pc' = "configuring"
        /\ UNCHANGED <<purpose, handled, phase, spans, gauge>>
  /\ UNCHANGED <<queue, session, controller, owned, runtime, bounds>>

\* clearDisabledTelemetryRuntimeState
ClearRuntime == session' = NoSession /\ phase' = "open" /\ runtime' = NoSession

\* runObservedHandler and runSafeHandler: what a handler throws is counted and
\* recorded, and stops neither Pi nor the queue.
HandlerRejects == pc' = "idle"

\* The configuration cannot be loaded: the handler rejects.
ConfigFails ==
  /\ pc = "configuring"
  /\ HandlerRejects
  /\ UNCHANGED <<queue, purpose, handled, session, phase, signals, owned,
                 runtime, bounds>>

\* enabled: false.  Nothing is started.
ConfigDisabled ==
  /\ pc = "configuring"
  /\ ClearRuntime
  /\ pc' = "leaving"
  /\ UNCHANGED <<queue, purpose, handled, signals, owned, bounds>>

ConfigEnabled(s) ==
  /\ pc = "configuring"
  /\ controller[s] = "unused"
  /\ pc' = "starting"
  /\ handled' = s
  /\ controller' = [controller EXCEPT ![s] = "starting"]
  /\ UNCHANGED <<queue, purpose, session, phase, spans, gauge, owned, runtime,
                 bounds>>

\* ObservMeOtelStartupError: a cleanup the controller could not finish is
\* retained.
StartupFails(outcome) ==
  /\ pc = "starting"
  /\ controller' = [controller EXCEPT ![handled] = ControllerAfter(outcome)]
  /\ owned' = [owned EXCEPT ![<<handled, "shutdown">>] = OwnedAfter(outcome)]
  /\ ClearRuntime
  /\ handled' = NoSession
  /\ pc' = "leaving"
  /\ UNCHANGED <<queue, purpose, spans, gauge, bounds>>

\* The last await of a start that ends without a session.
Leave ==
  /\ pc = "leaving"
  /\ pc' = "idle"
  /\ UNCHANGED <<queue, purpose, handled, session, phase, signals, owned,
                 runtime, bounds>>

\* startSessionTelemetry returns: the pipeline runs, nothing is open yet and the
\* lease is idle.
TelemetryStarted(s) == controller' = [controller EXCEPT ![s] = "started"]

StartupSucceeds ==
  /\ pc = "starting"
  /\ TelemetryStarted(handled)
  /\ session' = handled
  /\ sessionSpan' = [sessionSpan EXCEPT ![handled] = "open"]
  /\ runtime' = handled
  /\ counted' = counted \cup {handled}
  /\ activeAgents' = activeAgents + 1
  /\ lease' = WithLease(handled, "active")
  /\ handled' = NoSession
  /\ pc' = "idle"
  /\ UNCHANGED <<queue, purpose, phase, spawn, work, owned, bounds>>

\* The synchronous code after a successful startup throws, before or after the
\* session span exists (appending the correlation entry comes last); what it
\* opened is ended again, and the teardown runs.
StartBookkeepingThrows ==
  /\ pc = "starting"
  /\ TelemetryStarted(handled)
  /\ session' = handled
  /\ runtime' \in {runtime, handled}
  /\ sessionSpan' \in {sessionSpan, [sessionSpan EXCEPT ![handled] = "ended"]}
  /\ lease' = WithLease(handled, "idle")
  /\ BeginTeardown(handled, "failedStart")
  /\ UNCHANGED <<queue, spawn, work, counted, activeAgents, owned, bounds>>

-----------------------------------------------------------------------------
(* Late settlements, other event handlers, calls of a cached integration API *)

\* The promise of a timed-out operation settles.
Settle(op, outcome) ==
  /\ owned[op] = "settling"
  /\ outcome # "timedOut"
  /\ owned' = [owned EXCEPT ![op] = OwnedAfter(outcome)]
  /\ controller' = IF op[2] = "shutdown"
                   THEN [controller EXCEPT ![op[1]] = ControllerAfter(outcome)]
                   ELSE controller
  /\ UNCHANGED <<queue, pc, purpose, handled, session, phase, spans, gauge,
                 runtime, bounds>>

\* resolveIntegrationSession: the session a call acts on.
Admitted == IF phase = "closing" THEN NoSession ELSE session

StartSubagent ==
  /\ Admitted # NoSession
  /\ spawn[Admitted] # "open"
  /\ spawn' = [spawn EXCEPT ![Admitted] = "open"]
  /\ UNCHANGED <<queue, pc, purpose, handled, session, phase, controller,
                 sessionSpan, work, gauge, owned, runtime, bounds>>

CompleteSubagent ==
  /\ Admitted # NoSession
  /\ spawn[Admitted] = "open"
  /\ spawn' = [spawn EXCEPT ![Admitted] = "ended"]
  /\ UNCHANGED <<queue, pc, purpose, handled, session, phase, controller,
                 sessionSpan, work, gauge, owned, runtime, bounds>>

\* The agent, turn, LLM and tool handlers look at state.session only.
StartWork ==
  /\ session # NoSession
  /\ work[session] # "open"
  /\ work' = [work EXCEPT ![session] = "open"]
  /\ UNCHANGED <<queue, pc, purpose, handled, session, phase, controller,
                 sessionSpan, spawn, gauge, owned, runtime, bounds>>

EndWork ==
  /\ session # NoSession
  /\ work[session] = "open"
  /\ work' = [work EXCEPT ![session] = "ended"]
  /\ UNCHANGED <<queue, pc, purpose, handled, session, phase, controller,
                 sessionSpan, spawn, gauge, owned, runtime, bounds>>

-----------------------------------------------------------------------------
\* The steps of the lifecycle handlers.
HandlerStep ==
  \/ HandleShutdown \/ HandleStart
  \/ StatusCleared \/ StartDeferred \/ StartGranted
  \/ ConfigFails \/ ConfigDisabled
  \/ \E s \in Session : ConfigEnabled(s)
  \/ StartupSucceeds \/ StartBookkeepingThrows \/ Leave
  \/ \E outcome \in Outcome :
       \/ FlushReturns(outcome) \/ ShutdownReturns(outcome)
       \/ StartupFails(outcome)
       \/ \E op \in Owed : RetryOwed(op, outcome)

Next ==
  \/ DeliverStart \/ DeliverShutdown
  \/ HandlerStep
  \/ StartSubagent \/ CompleteSubagent
  \/ StartWork \/ EndWork
  \/ \E op \in Session \X Operation, outcome \in Outcome : Settle(op, outcome)

Spec == Init /\ [][Next]_vars

\* The awaits of a handler are bounded (timeouts, one UI call, local files), so
\* a handler reaches its next await.  Pi, callers and exporters owe nothing.
FairSpec == Spec /\ WF_vars(HandlerStep)

-----------------------------------------------------------------------------
(* Properties *)

Live(s) == controller[s] \in {"starting", "started", "unsettled"}

\* The session that is served: installed, and no teardown of it has begun.
Serving(s) == session = s /\ handled # s

\* Two telemetry pipelines are never live at once: a replacement starts only
\* when the previous pipeline is shut down, whatever failed on the way, and no
\* flush or shutdown is owed.
OnePipeline ==
  /\ \A s, t \in Session : Live(s) /\ Live(t) => s = t
  /\ pc = "starting" => Owed = {}

\* A pipeline that was started and not shut down has somebody left to shut it
\* down: the handler at work, the installed session, or the retained operation.
NoOrphanPipeline ==
  \A s \in Session :
    Live(s) => s \in {session, handled} \/ owned[<<s, "shutdown">>] # "none"

\* A subagent operation is open only on a session that is served, so that the
\* teardown that ends open operations never misses one: the fence admits no
\* call between the bookkeeping and the end of the cleanup.
NoSpawnOutlivesTeardown ==
  \A s \in Session : "open" \in {spawn[s], sessionSpan[s]} => Serving(s)

\* The shutdown fence is not left closed: once every delivered event is
\* handled, the integration API accepts calls again.
FenceReopens == pc = "idle" /\ queue = <<>> => phase = "open"

\* The active-agent gauge and the lease speak for exactly the served session,
\* through duplicate starts, failed starts and unfinished shutdowns.
GaugeCountsServed ==
  /\ counted = {s \in Session : Serving(s)}
  /\ counted = Exported
  /\ activeAgents = Cardinality(counted)

\* The /obs commands report on the served session, and on no session that is
\* already cleaned up.
RuntimeIsCurrent ==
  /\ runtime \in {NoSession, session}
  /\ \A s \in Session : Serving(s) => runtime = s

\* Nothing that speaks for a session disagrees with the session that is served:
\* gauge, lease, /obs state and fence, between the steps of any handler.
StateAgreesWithSession ==
  TypeOK /\ GaugeCountsServed /\ RuntimeIsCurrent /\ FenceReopens

\* Operations whose exporter work completed: a flush precedes the shutdown of a
\* session that was started, and was started itself when its lease existed.
Completed ==
  {op \in Session \X Operation :
     IF op[2] = "shutdown" THEN controller[op[1]] = "shutdown"
     ELSE /\ owned[op] = "none"
          /\ \/ pc = "shuttingDown" /\ handled = op[1]
             \/ controller[op[1]] \in {"unsettled", "shutdown"} /\ lease[op[1]] # "none"}

\* What the handlers ask of the registry of operations: a session starts only on
\* a decision taken while nothing is owed.
Ledger == INSTANCE OperationLedger WITH
  Op <- Session \X Operation,
  owed <- Owed,
  completed <- Completed,
  verdict <- IF pc = "configuring" THEN "granted" ELSE "none"

\* What the handlers know of the pipeline of a session.
Life(s) ==
  IF controller[s] = "started" /\ pc = "shuttingDown" /\ handled = s THEN "closing"
  ELSE IF controller[s] = "unsettled" THEN owned[<<s, "shutdown">>]
  ELSE IF controller[s] = "shutdown" THEN "down" ELSE controller[s]

Contract(s) == INSTANCE Pipeline WITH
  life <- Life(s),
  held <- controller[s] \in {"started", "unsettled"}

\* Every step of the handlers, and every late settlement, is one that each
\* pipeline promises, or leaves it alone.
PipelineSteps == \A s \in Session : Contract(s)!Next \/ UNCHANGED Contract(s)!vars

\* The handlers use the registry and every pipeline as those promise to behave.
KeepsItsContracts ==
  /\ Ledger!Spec
  /\ \A s \in Session : Contract(s)!Init
  /\ [][PipelineSteps]_vars

\* A shutdown Pi delivered takes down the session it was delivered for.
ShutdownTakesDown ==
  \A s \in Session :
    (session = s /\ \E n \in 1 .. Len(queue) : queue[n] = "session_shutdown")
      ~> session # s

\* The lifecycle handlers drain their queue, however operations fail.
LifecycleDrains == (queue # <<>>) ~> (queue = <<>> /\ pc = "idle")

\* No delivered event is stuck behind a handler that failed or was deferred.
HandlersProgress == ShutdownTakesDown /\ LifecycleDrains

\* docs/extension-integration.md: once session shutdown begins, every method
\* of a cached API is refused until cleanup finishes.
FenceHolds ==
  (\E n \in 1 .. Len(queue) : queue[n] = "session_shutdown") => Admitted = NoSession

\* docs/reference/03-pi-event-and-session-model.md: session_shutdown ends the
\* open spans, so none is left once the session is cleaned up.
WorkEndsWithSession == \A s \in Session : work[s] = "open" => session = s
=============================================================================
