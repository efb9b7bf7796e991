--------------------------- MODULE OtelController ---------------------------
(***************************************************************************)
(* One OTEL pipeline: the controller of src/otel/sdk.ts over the composite *)
(* of the trace, metric and log SDKs (src/pi/handler-runtime.ts) and their *)
(* providers (src/otel/traces.ts; metrics.ts and logs.ts are alike).       *)
(*                                                                         *)
(* Starting is transactional: a signal that fails to start rolls back the  *)
(* started ones.  Shutting down is bounded by a timeout, shared by its     *)
(* callers, observed when it settles late, and may be asked for again      *)
(* after a failure, when only the signals that failed are shut down.       *)
(***************************************************************************)
EXTENDS Naturals, Sequences, FiniteSets

CONSTANT Caller   \* the handlers that ask for the shutdown

Signal == {"trace", "metric", "log"}
NoSignal == "none"
StartOrder == <<"trace", "metric", "log">>

\* The two uses of shutdownStartedSignalSdks.
Run == {"rollback", "shutdown"}

VARIABLES
  state,      \* ObservMeOtelSdkController.#state
  sdk,        \* its #sdk: "owned" or "released" (undefined)
  cleanup,    \* its #startupCleanupResult
  pending,    \* its #pendingShutdown: the run whose settlement is awaited
  race,       \* the run a bounded operation races against its timeout
  composite,  \* ObservMeCompositeOtelSignalSdk.#state
  started,    \* its #startedSignalSdks
  starting,   \* its #startingSignalSdk
  signal,     \* the state of a signal SDK
  resource,   \* its exporter, processor and provider
  member,     \* a signal's part in a run
  status,     \* the promise of a run
  caller      \* what a caller of shutdown() was answered last

vars == <<state, sdk, cleanup, pending, race, composite, started, starting,
          signal, resource, member, status, caller>>

\* The model's state is well typed.
TypeOK ==
  /\ state \in {"starting", "started", "failed", "shutting_down",
                "shutdown_pending", "shutdown_failed", "shutdown"}
  /\ sdk \in {"owned", "released"}
  /\ cleanup \in {"none", "completed", "failed", "timedOut"}
  /\ pending \in Run \cup {"none"}
  /\ race \in Run \cup {"none"}
  /\ composite \in {"starting", "started", "failed", "shutting_down",
                    "shutdown_failed", "shutdown"}
  /\ started \in SUBSET Signal
  /\ starting \in Signal \cup {NoSignal}
  /\ signal \in [Signal -> {"idle", "started", "shutting_down",
                            "shutdown_failed", "shutdown"}]
  /\ resource \in [Signal -> {"none", "held", "released"}]
  /\ member \in [Run -> [Signal -> {"out", "running", "fulfilled", "rejected"}]]
  /\ status \in [Run -> {"idle", "inFlight", "fulfilled", "rejected"}]
  /\ caller \in [Caller -> {"idle", "waiting", "completed", "failed", "timedOut"}]

\* start() was called: controller and composite are "starting".
Init ==
  /\ state = "starting"
  /\ sdk = "owned"
  /\ cleanup = "none"
  /\ pending = "none"
  /\ race = "none"
  /\ composite = "starting"
  /\ started = {}
  /\ starting = NoSignal
  /\ signal = [s \in Signal |-> "idle"]
  /\ resource = [s \in Signal |-> "none"]
  /\ member = [r \in Run |-> [s \in Signal |-> "out"]]
  /\ status = [r \in Run |-> "idle"]
  /\ caller = [c \in Caller |-> "idle"]

-----------------------------------------------------------------------------
(* shutdownStartedSignalSdks *)

\* listOwnedSignalSdks
Owned(begun, failing) == begun \cup ({failing} \ {NoSignal})

\* shutdown() of the signals: one that is shutting down already shares its
\* promise, one that is shut down answers at once.
Asked(owned) == [s \in Signal |-> IF s \in owned /\ signal[s] # "shutdown"
                                  THEN "shutting_down" ELSE signal[s]]

\* Every owned signal is asked to shut down.
BeginRun(r, owned) ==
  /\ status' = [status EXCEPT ![r] = "inFlight"]
  /\ member' = [member EXCEPT ![r] =
                  [s \in Signal |-> IF s \notin owned THEN "out"
                                    ELSE IF signal[s] = "shutdown" THEN "fulfilled"
                                    ELSE "running"]]
  /\ signal' = Asked(owned)

\* What shutdownOwnedResources leaves: resources that could not be shut down are
\* kept.
StateAfter(ok) == IF ok THEN "shutdown" ELSE "shutdown_failed"

\* shutdownOwnedResources of a signal settles; nothing can fail where nothing
\* is held.
SignalSettles(s, ok) ==
  /\ signal[s] = "shutting_down"
  /\ ok \/ resource[s] = "held"
  /\ signal' = [signal EXCEPT ![s] = StateAfter(ok)]
  /\ resource' = IF ok THEN [resource EXCEPT ![s] = "released"] ELSE resource
  /\ member' = [r \in Run |->
                  IF member[r][s] # "running" THEN member[r]
                  ELSE [member[r] EXCEPT ![s] = IF ok THEN "fulfilled" ELSE "rejected"]]
  /\ UNCHANGED <<state, sdk, cleanup, pending, race, composite, started,
                 starting, status, caller>>

\* Fault: the results of Promise.allSettled are not looked at.
RunSettles_IgnoresRejections(r) ==
  /\ status[r] = "inFlight"
  /\ \A s \in Signal : member[r][s] # "running"
  /\ started' = {}
  /\ starting' = NoSignal
  /\ status' = [status EXCEPT ![r] = "fulfilled"]
  /\ composite' = IF r = "rollback" THEN composite ELSE "shutdown"
  /\ UNCHANGED <<state, sdk, cleanup, pending, race, signal, resource, member,
                 caller>>

\* Promise.allSettled: the fulfilled signals are released, the others stay
\* owned.
RunSettles(r) ==
  /\ status[r] = "inFlight"
  /\ \A s \in Signal : member[r][s] # "running"
  /\ LET done == {s \in Signal : member[r][s] = "fulfilled"}
         ok   == \A s \in Signal : member[r][s] # "rejected"
     IN  /\ started' = started \ done
         /\ starting' = IF starting \in done THEN NoSignal ELSE starting
         /\ status' = [status EXCEPT ![r] = IF ok THEN "fulfilled" ELSE "rejected"]
         /\ composite' = IF r = "rollback" THEN composite
                         ELSE IF ok THEN "shutdown" ELSE "shutdown_failed"
  /\ UNCHANGED <<state, sdk, cleanup, pending, race, signal, resource, member,
                 caller>>

-----------------------------------------------------------------------------
(* start() *)

NextToStart(s) ==
  /\ starting = NoSignal
  /\ s = StartOrder[Cardinality(started) + 1]

\* A disabled signal acquires nothing, any other its exporter, its processor or
\* reader, and its provider.
Acquires(s) == \E r \in {"none", "held"} : resource' = [resource EXCEPT ![s] = r]

SignalStarts(s) ==
  /\ composite = "starting" /\ race = "none"
  /\ Cardinality(started) < Len(StartOrder) /\ NextToStart(s)
  /\ started' = started \cup {s}
  /\ signal' = [signal EXCEPT ![s] = "started"]
  /\ Acquires(s)
  /\ UNCHANGED <<state, sdk, cleanup, pending, race, composite, starting,
                 member, status, caller>>

AllStarted ==
  /\ composite = "starting" /\ race = "none"
  /\ started = Signal
  /\ composite' = "started"
  /\ state' = "started"
  /\ UNCHANGED <<sdk, cleanup, pending, race, started, starting, signal,
                 resource, member, status, caller>>

\* A signal throws, after it acquired its exporter or before: the rollback is
\* raced against its timeout.
SignalFailsToStart(s) ==
  /\ composite = "starting" /\ race = "none"
  /\ Cardinality(started) < Len(StartOrder) /\ NextToStart(s)
  /\ starting' = s
  /\ Acquires(s)
  /\ BeginRun("rollback", Owned(started, s))
  /\ race' = "rollback"
  /\ UNCHANGED <<state, sdk, cleanup, pending, composite, started, caller>>

-----------------------------------------------------------------------------
(* shutdown() *)

\* Fault: the promise is not shared, and only one caller is answered.
Answer_OneCaller(result) ==
  \E c \in Caller : caller[c] = "waiting" /\ caller' = [caller EXCEPT ![c] = result]

Answer(result) ==
  caller' = [c \in Caller |-> IF caller[c] = "waiting" THEN result ELSE caller[c]]

AnswerAtOnce(c, result) ==
  /\ caller' = [caller EXCEPT ![c] = result]
  /\ UNCHANGED <<state, race, composite, signal, member, status>>

\* Fault: the settlement of a rollback that timed out is not awaited.
MayBegin_Unsettled ==
  /\ state \in {"started", "failed", "shutdown_failed"}
  /\ cleanup # "completed"

\* A new shutdown may begin: the last attempt, if any, ended in failure.
MayBegin ==
  /\ state \in {"started", "failed", "shutdown_failed"}
  /\ cleanup # "completed" /\ pending = "none"

\* A call finds the pipeline down, a shutdown under way (whose promise it
\* shares), a settlement outstanding, or else begins a shutdown.
Shutdown(c) ==
  /\ caller[c] # "waiting"
  /\ \/ /\ state = "shutdown" \/ (state = "failed" /\ cleanup = "completed")
        /\ AnswerAtOnce(c, "completed")
     \/ /\ state = "shutting_down"
        /\ AnswerAtOnce(c, "waiting")
     \/ /\ pending # "none"
        /\ AnswerAtOnce(c, "timedOut")
     \/ /\ MayBegin
        /\ state' = "shutting_down"
        /\ caller' = [caller EXCEPT ![c] = "waiting"]
        /\ composite' = "shutting_down"
        /\ race' = "shutdown"
        /\ BeginRun("shutdown", Owned(started, starting))
  /\ UNCHANGED <<sdk, cleanup, pending, started, starting, resource>>

\* The controller sees the result of a rollback (startOnce) or a shutdown
\* (applyShutdownResult) that ended before its timeout.
ResultInTime(r) ==
  /\ race = r
  /\ status[r] \in {"fulfilled", "rejected"}
  /\ race' = "none"
  /\ status' = [status EXCEPT ![r] = "idle"]
  /\ LET result == IF status[r] = "fulfilled" THEN "completed" ELSE "failed"
     IN  /\ sdk' = IF result = "completed" THEN "released" ELSE sdk
         /\ \/ /\ r = "rollback"
               /\ composite' = "failed"
               /\ state' = "failed"
               /\ cleanup' = result
               /\ UNCHANGED caller
            \/ /\ r = "shutdown"
               /\ state' = IF result = "completed" THEN "shutdown" ELSE "shutdown_failed"
               /\ Answer(result)
               /\ UNCHANGED <<composite, cleanup>>
  /\ UNCHANGED <<pending, started, starting, signal, resource, member>>

\* The timeout wins: the run goes on, and its settlement is observed.
TimedOut(r) ==
  /\ race = r
  /\ status[r] = "inFlight"
  /\ race' = "none"
  /\ pending' = r
  /\ \/ /\ r = "rollback"
        /\ composite' = "failed"
        /\ state' = "failed"
        /\ cleanup' = "timedOut"
        /\ UNCHANGED caller
     \/ /\ r = "shutdown"
        /\ state' = "shutdown_pending"
        /\ Answer("timedOut")
        /\ UNCHANGED <<composite, cleanup>>
  /\ UNCHANGED <<sdk, started, starting, signal, resource, member, status>>

\* observePendingFailedStartupCleanup and observePendingShutdown
LateResult(r) ==
  /\ pending = r
  /\ status[r] \in {"fulfilled", "rejected"}
  /\ pending' = "none"
  /\ status' = [status EXCEPT ![r] = "idle"]
  /\ LET result == IF status[r] = "fulfilled" THEN "completed" ELSE "failed"
     IN  /\ sdk' = IF result = "completed" THEN "released" ELSE sdk
         /\ \/ /\ r = "rollback"
               /\ cleanup' = result
               /\ UNCHANGED state
            \/ /\ r = "shutdown"
               /\ state' = IF result = "completed" THEN "shutdown" ELSE "shutdown_failed"
               /\ UNCHANGED cleanup
  /\ UNCHANGED <<race, composite, started, starting, signal, resource, member,
                 caller>>

-----------------------------------------------------------------------------
Next ==
  \/ \E s \in Signal :
       \/ SignalStarts(s) \/ SignalFailsToStart(s)
       \/ SignalSettles(s, TRUE) \/ SignalSettles(s, FALSE)
  \/ AllStarted
  \/ \E r \in Run : RunSettles(r) \/ ResultInTime(r) \/ TimedOut(r) \/ LateResult(r)
  \/ \E c \in Caller : Shutdown(c)

Spec == Init /\ [][Next]_vars

\* Timers fire and promise reactions run; an exporter may never settle.
Fairness ==
  \A r \in Run : WF_vars(RunSettles(r)) /\ WF_vars(ResultInTime(r) \/ TimedOut(r))

FairSpec == Spec /\ Fairness

-----------------------------------------------------------------------------
(* Properties *)

Held == {s \in Signal : resource[s] = "held"}

\* The controller gives its SDK up, and a caller is told "completed", only
\* when no exporter, processor or provider of any signal is left, whichever
\* signals failed, timed out or were shut down by an earlier attempt.
CompletedMeansReleased ==
  sdk = "released" \/ (\E c \in Caller : caller[c] = "completed") => Held = {}

\* A signal that still holds resources is owned by the composite, so that the
\* next shutdown reaches it: also the one that failed half-way through start.
HeldIsOwned == Held \subseteq Owned(started, starting)

\* A rollback and a shutdown never run at once over the same signals.
RunsNeverOverlap == \E r \in Run : status[r] = "idle"

\* An outstanding settlement, which makes the controller refuse to try again,
\* belongs to a run that will tell it; no run is left without observer.
PendingIsObserved ==
  \A r \in Run : status[r] # "idle" <=> r \in {race, pending}

\* No exporter is lost: what is held is owned, what is asked for is awaited, and
\* the controller lets go of nothing else.
NothingIsLost ==
  TypeOK /\ CompletedMeansReleased /\ HeldIsOwned /\ RunsNeverOverlap /\ PendingIsObserved

\* What the pipeline is to the session handlers (Pipeline).
Life ==
  IF state = "shutdown" \/ (state = "failed" /\ cleanup = "completed") THEN "down"
  ELSE IF state = "shutdown_failed" \/ (state = "failed" /\ cleanup = "failed") THEN "retryable"
  ELSE IF state \in {"shutdown_pending", "failed"} THEN "settling"
  ELSE IF state = "shutting_down" THEN "closing" ELSE state

Contract == INSTANCE Pipeline WITH life <- Life, held <- Held # {}

\* The controller keeps the promise of a pipeline, whichever signals fail, hang
\* or settle late.
ImplementsPipeline == Contract!Spec

\* Every caller of shutdown() is answered, though exporters may hang.
ShutdownAnswers ==
  \A c \in Caller : caller[c] = "waiting" ~> caller[c] # "waiting"

=============================================================================
