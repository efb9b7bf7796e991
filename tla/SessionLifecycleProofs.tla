------------------------ MODULE SessionLifecycleProofs ------------------------
(***************************************************************************)
(* The safety of the lifecycle handlers for every set of sessions and any  *)
(* number of deliveries and retries.                                       *)
(***************************************************************************)
EXTENDS SessionLifecycle, FiniteSetTheorems, SequenceTheorems, TLAPS

Teardown == {"clearing", "flushing", "shuttingDown"}

\* What the step of the running handler says of the session it handles.
Handling ==
  /\ pc \in Teardown => session # NoSession /\ handled = session /\ phase = "closing"
  /\ pc = "starting" => session = NoSession /\ handled # NoSession
  /\ pc \in {"configuring", "leaving"} => session = NoSession
  /\ pc \notin Teardown \cup {"starting"} => handled = NoSession

\* Whom each pipeline belongs to: the handler that starts it, the installed
\* session, or the shutdown that is owed.
Pipelines ==
  \A s \in Session :
    /\ controller[s] = "starting" <=> pc = "starting" /\ handled = s
    /\ controller[s] = "started" <=> session = s
    /\ controller[s] = "unsettled" <=> owned[<<s, "shutdown">>] # "none"
    /\ controller[s] \in {"unused", "starting"} => lease[s] = "none"

\* What is owed is owed by one session, which is not served any more but for
\* the flush of a teardown; nothing is owed while a session starts.
Debts ==
  /\ \A s, t \in Session, k, l \in Operation :
       owned[<<s, k>>] # "none" /\ owned[<<t, l>>] # "none" => s = t
  /\ \A s \in Session, k \in Operation :
       owned[<<s, k>>] # "none" =>
         /\ session # NoSession => s = session /\ k = "flush"
         /\ pc \notin {"configuring", "starting"}

\* A closed fence has somebody left to open it.
FenceIsAttended ==
  phase = "closing" =>
    pc \in Teardown \/ \E n \in DOMAIN queue : queue[n] = "session_shutdown"

IInv ==
  /\ TypeOK /\ Handling /\ Pipelines /\ Debts /\ FenceIsAttended
  /\ NoSpawnOutlivesTeardown /\ GaugeCountsServed /\ RuntimeIsCurrent


-----------------------------------------------------------------------------
(* The invariant is inductive *)

\* A step that leaves the gauge alone and serves whom it served.
LEMMA GaugeKept ==
  ASSUME GaugeCountsServed, UNCHANGED gauge, \A s \in Session : Serving(s)' <=> Serving(s)
  PROVE  GaugeCountsServed'
<1>1. {s \in Session : Serving(s)}' = {s \in Session : Serving(s)} /\ Exported' = Exported
  BY DEF Exported, gauge
<1>2. QED
  BY <1>1 DEF GaugeCountsServed, gauge

LEMMA InitIInv == Init => IInv
<1> SUFFICES ASSUME Init
             PROVE  IInv
  OBVIOUS
<1> USE NoSessionOutside DEF Init
<1>1. TypeOK
  BY BoundsNat DEF TypeOK, Steps, Operation
<1>2. Handling /\ Pipelines /\ Debts /\ FenceIsAttended
  BY DEF Handling, Teardown, Pipelines, Debts, FenceIsAttended, Operation
<1>3. NoSpawnOutlivesTeardown /\ RuntimeIsCurrent
  BY DEF NoSpawnOutlivesTeardown, RuntimeIsCurrent, Serving
<1>4. GaugeCountsServed
  BY FS_EmptySet DEF GaugeCountsServed, Exported, Serving
<1>5. QED
  BY <1>1, <1>2, <1>3, <1>4 DEF IInv

\* An event that Pi delivers only joins the queue; a shutdown closes the fence
\* and stays in the queue to open it.
LEMMA DeliverIInv ==
  ASSUME IInv, DeliverStart \/ DeliverShutdown
  PROVE  IInv'
<1> USE DEF IInv, TypeOK, spans, gauge, signals, Deliver
<1>1. PICK event \in {"session_start", "session_shutdown"} :
        /\ Deliver(event)
        /\ event = "session_shutdown" \/ phase' = phase
  BY DEF DeliverStart, DeliverShutdown
<1>2. UNCHANGED <<pc, purpose, handled, session, signals, owned, runtime, retries>>
  BY DEF DeliverStart, DeliverShutdown
<1>3. phase' \in {"open", "closing"}
  BY DEF DeliverStart, DeliverShutdown
<1>4. queue' \in Seq({"session_start", "session_shutdown"}) /\ deliveries' \in 0 .. MaxDeliveries
  BY <1>1, BoundsNat
<1>5. TypeOK'
  BY <1>2, <1>3, <1>4
<1>6. Handling'
  BY <1>1, <1>2, <1>3 DEF DeliverStart, DeliverShutdown, Handling, Teardown
<1>7. Pipelines' /\ Debts'
  BY <1>2 DEF Pipelines, Debts
<1>8. FenceIsAttended'
  <2>1. Len(queue') = Len(queue) + 1 /\ queue'[Len(queue) + 1] = event
    BY <1>1
  <2>2. \A n \in DOMAIN queue : n \in DOMAIN queue' /\ queue'[n] = queue[n]
    BY <1>1
  <2>3. CASE event = "session_shutdown"
    <3>1. Len(queue') \in DOMAIN queue' /\ queue'[Len(queue')] = "session_shutdown"
      BY <2>1, <2>3, <1>4
    <3>2. QED
      BY <3>1 DEF FenceIsAttended
  <2>4. CASE phase' = phase
    BY <2>2, <2>4, <1>2 DEF FenceIsAttended, Teardown
  <2>5. QED
    BY <1>1, <2>3, <2>4
<1>9. NoSpawnOutlivesTeardown' /\ GaugeCountsServed' /\ RuntimeIsCurrent'
  BY <1>2 DEF NoSpawnOutlivesTeardown, GaugeCountsServed, RuntimeIsCurrent, Serving, Exported
<1>10. QED
  BY <1>5, <1>6, <1>7, <1>8, <1>9

\* An event leaves the queue; no shutdown that keeps the fence closed is lost.
LEMMA DequeueKeepsShutdown ==
  ASSUME IInv, NEW event, Dequeue(event)
  PROVE  /\ queue' \in Seq({"session_start", "session_shutdown"})
         /\ event = "session_start" => FenceIsAttended \/ phase = "open"
         /\ event = "session_start" /\ (\E n \in DOMAIN queue : queue[n] = "session_shutdown") =>
              \E n \in DOMAIN queue' : queue'[n] = "session_shutdown"
<1> USE DEF IInv, TypeOK, Dequeue
<1>1. queue' \in Seq({"session_start", "session_shutdown"})
  OBVIOUS
<1>2. ASSUME event = "session_start",
             NEW n \in DOMAIN queue, queue[n] = "session_shutdown"
      PROVE  n - 1 \in DOMAIN queue' /\ queue'[n - 1] = "session_shutdown"
  BY <1>2
<1>3. QED
  BY <1>1, <1>2

\* The fence closes and the bookkeeping of the served session is undone before
\* the first await of its teardown.
LEMMA TeardownIInv ==
  ASSUME IInv, session # NoSession, NEW why \in {"shutdown", "duplicate"},
         BeginTeardown(session, why), TeardownBookkeeping(session), handled = NoSession,
         UNCHANGED <<session, controller, owned, runtime, bounds>>,
         queue' \in Seq({"session_start", "session_shutdown"})
  PROVE  IInv'
<1> USE NoSessionOutside
    DEF IInv, TypeOK, BeginTeardown, TeardownBookkeeping, WithLease, EndOpen, bounds, Serving
<1>1. session \in Session /\ session' = session /\ handled' = session /\ pc' = "clearing"
  OBVIOUS
<1>2. counted = {session} /\ activeAgents = 1
  <2>1. {s \in Session : Serving(s)} = {session}
    BY <1>1
  <2>2. QED
    BY <2>1, FS_Singleton DEF GaugeCountsServed
<1>3. counted' = {} /\ activeAgents' = 0
  BY <1>2
<1>4. TypeOK'
  BY <1>1, <1>3 DEF Steps
<1>5. Handling' /\ FenceIsAttended'
  BY <1>1 DEF Handling, FenceIsAttended, Teardown
<1>6. Pipelines'
  <2>1. controller[session] = "started" /\ pc # "starting"
    BY <1>1 DEF Pipelines, Handling
  <2>2. \A s \in Session : s # session => lease'[s] = lease[s]
    OBVIOUS
  <2>3. ASSUME NEW s \in Session
        PROVE  /\ controller'[s] = "starting" <=> pc' = "starting" /\ handled' = s
               /\ controller'[s] = "started" <=> session' = s
               /\ controller'[s] = "unsettled" <=> owned'[<<s, "shutdown">>] # "none"
               /\ controller'[s] \in {"unused", "starting"} => lease'[s] = "none"
    <3>1. /\ controller[s] # "starting" /\ (controller[s] = "started" <=> session = s)
          /\ controller[s] = "unsettled" <=> owned[<<s, "shutdown">>] # "none"
          /\ controller[s] \in {"unused", "starting"} => lease[s] = "none"
      BY <2>1 DEF Pipelines
    <3>2. controller' = controller /\ owned' = owned
      OBVIOUS
    <3>3. QED
      BY <1>1, <2>1, <2>2, <3>1, <3>2
  <2>4. QED
    BY <2>3 DEF Pipelines
<1>7. Debts'
  BY <1>1 DEF Debts
<1>8. NoSpawnOutlivesTeardown'
  BY <1>1 DEF NoSpawnOutlivesTeardown
<1>9. GaugeCountsServed'
  <2>1. Exported' = {}
    BY <1>1, <1>2 DEF Exported, GaugeCountsServed
  <2>2. QED
    <3>1. \A s \in Session : ~ Serving(s)'
      BY <1>1
    <3>2. {s \in Session : Serving(s)}' = {}
      BY <3>1
    <3>3. QED
      BY <1>3, <2>1, <3>2, FS_EmptySet DEF GaugeCountsServed
<1>10. RuntimeIsCurrent'
  BY <1>1 DEF RuntimeIsCurrent
<1>11. QED
  BY <1>4, <1>5, <1>6, <1>7, <1>8, <1>9, <1>10

LEMMA HandleShutdownIInv ==
  ASSUME IInv, HandleShutdown
  PROVE  IInv'
<1>1. pc = "idle" /\ handled = NoSession
  BY DEF HandleShutdown, Dequeue, IInv, Handling, Teardown
<1>2. queue' \in Seq({"session_start", "session_shutdown"})
  BY DequeueKeepsShutdown DEF HandleShutdown
<1>3. CASE session # NoSession
  BY <1>1, <1>2, <1>3, TeardownIInv DEF HandleShutdown
<1>4. CASE session = NoSession
  <2> USE <1>4 DEF IInv, TypeOK, HandleShutdown, spans, gauge, bounds
  <2>1. TypeOK'
    BY <1>2
  <2>2. Handling' /\ FenceIsAttended'
    BY <1>1 DEF Handling, FenceIsAttended, Teardown
  <2>3. Pipelines' /\ Debts'
    BY DEF Pipelines, Debts
  <2>4. NoSpawnOutlivesTeardown' /\ RuntimeIsCurrent'
    BY DEF NoSpawnOutlivesTeardown, RuntimeIsCurrent, Serving
  <2>5. GaugeCountsServed'
    BY GaugeKept DEF Serving
  <2>6. QED
    BY <2>1, <2>2, <2>3, <2>4, <2>5
<1>5. QED
  BY <1>3, <1>4

\* The steps of the handlers that start and stop nothing.
LEMMA WaitingIInv ==
  ASSUME IInv,
         \/ HandleStart \/ StatusCleared \/ StartDeferred \/ ConfigFails
         \/ ConfigDisabled \/ Leave
  PROVE  IInv'
<1> USE NoSessionOutside
    DEF IInv, TypeOK, HandleStart, StatusCleared, StartDeferred, ConfigFails, HandlerRejects,
        ConfigDisabled, ClearRuntime, Leave, spans, gauge, signals, bounds
<1>1. queue' \in Seq({"session_start", "session_shutdown"})
  BY DequeueKeepsShutdown
<1>2. TypeOK'
  BY <1>1 DEF Steps
<1>3. Handling'
  BY DEF Handling, Teardown, Dequeue
<1>4. Pipelines'
  <2>1. pc # "starting" /\ pc' # "starting" /\ session' = session
    BY DEF Handling, Dequeue
  <2>2. UNCHANGED <<controller, owned, lease>>
    OBVIOUS
  <2>3. QED
    BY <2>1, <2>2 DEF Pipelines
<1>5. Debts'
  BY DEF Debts, Handling, Dequeue
<1>6. FenceIsAttended'
  BY DequeueKeepsShutdown DEF FenceIsAttended, Teardown, Dequeue
<1>7. NoSpawnOutlivesTeardown' /\ RuntimeIsCurrent'
  BY DEF NoSpawnOutlivesTeardown, RuntimeIsCurrent, Serving, Handling
<1>8. GaugeCountsServed'
  <2>1. session' = session /\ handled' = handled
    BY DEF Handling
  <2>2. QED
    BY <2>1, GaugeKept DEF Serving
<1>9. QED
  BY <1>2, <1>3, <1>4, <1>5, <1>6, <1>7, <1>8

\* The owner grants a start: nothing is owed, and a live session is torn down.
LEMMA StartGrantedIInv ==
  ASSUME IInv, StartGranted
  PROVE  IInv'
<1>1. handled = NoSession /\ queue' = queue /\ pc = "resolving"
  BY DEF StartGranted, IInv, Handling, Teardown
<1>2. CASE session # NoSession
  BY <1>1, <1>2, TeardownIInv DEF StartGranted, IInv, TypeOK
<1>3. CASE session = NoSession
  <2> USE <1>1, <1>3 DEF IInv, TypeOK, StartGranted, spans, gauge, bounds
  <2>1. TypeOK'
    BY DEF Steps
  <2>2. Handling' /\ FenceIsAttended'
    BY DEF Handling, FenceIsAttended, Teardown
  <2>3. Pipelines' /\ Debts'
    BY DEF Pipelines, Debts, Owed
  <2>4. NoSpawnOutlivesTeardown' /\ GaugeCountsServed' /\ RuntimeIsCurrent'
    <3>1. session' = session /\ \A s \in Session : ~Serving(s) /\ ~Serving(s)'
      BY NoSessionOutside DEF Serving
    <3>2. GaugeCountsServed'
      BY <3>1, GaugeKept
    <3>3. NoSpawnOutlivesTeardown' /\ RuntimeIsCurrent'
      BY <3>1 DEF NoSpawnOutlivesTeardown, RuntimeIsCurrent
    <3>4. QED
      BY <3>2, <3>3
  <2>5. QED
    BY <2>1, <2>2, <2>3, <2>4
<1>4. QED
  BY <1>2, <1>3

\* A pipeline begins where none is live and nothing is owed.
LEMMA ConfigEnabledIInv ==
  ASSUME IInv, NEW s \in Session, ConfigEnabled(s)
  PROVE  IInv'
<1> USE NoSessionOutside DEF IInv, TypeOK, ConfigEnabled, spans, gauge, bounds
<1>1. TypeOK'
  BY DEF Steps
<1>2. Handling' /\ FenceIsAttended'
  BY DEF Handling, FenceIsAttended, Teardown
<1>3. Pipelines' /\ Debts'
  BY DEF Pipelines, Debts, Handling
<1>4. NoSpawnOutlivesTeardown' /\ RuntimeIsCurrent'
  BY DEF NoSpawnOutlivesTeardown, RuntimeIsCurrent, Serving, Handling
<1>5. GaugeCountsServed'
  BY DEF GaugeCountsServed, Serving, Exported, Handling
<1>6. QED
  BY <1>1, <1>2, <1>3, <1>4, <1>5

\* A session is installed, or its startup threw and its teardown begins: the
\* handler was the only one that had a pipeline.
LEMMA StartedIInv ==
  ASSUME IInv, StartupSucceeds \/ StartBookkeepingThrows
  PROVE  IInv'
<1> USE NoSessionOutside DEF IInv, TypeOK, TelemetryStarted, BeginTeardown, WithLease, bounds
<1>1. /\ pc = "starting" /\ session = NoSession /\ handled \in Session
      /\ session' = handled /\ controller' = [controller EXCEPT ![handled] = "started"]
      /\ UNCHANGED <<owned, spawn, queue>>
  BY DEF StartupSucceeds, StartBookkeepingThrows, Handling
<1>2. controller[handled] = "starting" /\ lease[handled] = "none"
  BY <1>1 DEF Pipelines
<1>3. counted = {} /\ activeAgents = 0 /\ \A s \in Session : lease[s] # "active"
  <2>1. {s \in Session : Serving(s)} = {}
    BY <1>1 DEF Serving
  <2>2. counted = {} /\ Exported = {} /\ activeAgents = Cardinality({})
    BY <2>1 DEF GaugeCountsServed
  <2>3. QED
    BY <2>2, FS_EmptySet DEF Exported
<1>4. TypeOK'
  <2>1. CASE StartupSucceeds
    BY <1>1, <1>3, <2>1 DEF StartupSucceeds, Steps
  <2>2. CASE StartBookkeepingThrows
    <3>1. runtime' \in Session \cup {NoSession} /\ sessionSpan' \in [Session -> {"none", "open", "ended"}]
      BY <1>1, <2>2 DEF StartBookkeepingThrows
    <3>2. lease' \in [Session -> {"none", "idle", "active", "disposed"}]
      BY <1>1, <2>2 DEF StartBookkeepingThrows
    <3>3. QED
      BY <1>1, <2>2, <3>1, <3>2 DEF StartBookkeepingThrows, Steps
  <2>3. QED
    BY <2>1, <2>2
<1>5. Handling' /\ FenceIsAttended'
  BY <1>1 DEF StartupSucceeds, StartBookkeepingThrows, Handling, FenceIsAttended, Teardown
<1>6. Pipelines'
  <2>1. pc' # "starting" /\ \A s \in Session : s # handled => lease'[s] = lease[s]
    BY <1>1 DEF StartupSucceeds, StartBookkeepingThrows
  <2>2. \A s \in Session : owned[<<s, "shutdown">>] = "none"
    BY <1>1 DEF Debts, Operation
  <2>3. \A s \in Session : controller[s] = "starting" <=> s = handled
    BY <1>1 DEF Pipelines
  <2>4. \A s \in Session : controller[s] # "started"
    <3>1. \A s \in Session : controller[s] = "started" <=> session = s
      BY DEF Pipelines
    <3>2. QED
      BY <1>1, <3>1
  <2>5. ASSUME NEW s \in Session
        PROVE  /\ controller'[s] = "starting" <=> pc' = "starting" /\ handled' = s
               /\ controller'[s] = "started" <=> session' = s
               /\ controller'[s] = "unsettled" <=> owned'[<<s, "shutdown">>] # "none"
               /\ controller'[s] \in {"unused", "starting"} => lease'[s] = "none"
    <3>1. CASE s = handled
      BY <1>1, <2>1, <2>2, <3>1
    <3>2. CASE s # handled
      <4>1. controller'[s] = controller[s] /\ lease'[s] = lease[s] /\ owned'[<<s, "shutdown">>] = "none"
        BY <1>1, <2>1, <2>2, <3>2
      <4>2. QED
        BY <1>1, <2>1, <2>2, <2>3, <2>4, <3>2, <4>1 DEF Pipelines
    <3>3. QED
      BY <3>1, <3>2
  <2>6. QED
    BY <2>5 DEF Pipelines
<1>7. Debts'
  BY <1>1 DEF Debts
<1>8. NoSpawnOutlivesTeardown'
  BY <1>1 DEF StartupSucceeds, StartBookkeepingThrows, NoSpawnOutlivesTeardown, Serving
<1>9. GaugeCountsServed'
  <2>1. CASE StartupSucceeds
    <3>1. counted' = {handled} /\ activeAgents' = 1 /\ Exported' = {handled}
      BY <1>1, <1>2, <1>3, <2>1 DEF StartupSucceeds, Exported
    <3>2. {s \in Session : Serving(s)}' = {handled}
      BY <1>1, <2>1 DEF StartupSucceeds, Serving
    <3>3. QED
      BY <3>1, <3>2, FS_Singleton DEF GaugeCountsServed
  <2>2. CASE StartBookkeepingThrows
    <3>1. counted' = {} /\ activeAgents' = 0 /\ Exported' = {}
      BY <1>1, <1>2, <1>3, <2>2 DEF StartBookkeepingThrows, Exported
    <3>2. {s \in Session : Serving(s)}' = {}
      BY <1>1, <2>2 DEF StartBookkeepingThrows, Serving
    <3>3. QED
      BY <3>1, <3>2, FS_EmptySet DEF GaugeCountsServed
  <2>3. QED
    BY <2>1, <2>2
<1>10. RuntimeIsCurrent'
  BY <1>1 DEF StartupSucceeds, StartBookkeepingThrows, RuntimeIsCurrent, Serving
<1>11. QED
  BY <1>4, <1>5, <1>6, <1>7, <1>8, <1>9, <1>10

-----------------------------------------------------------------------------
(* Operations of a pipeline, and what is retained of them *)

LEMMA OutcomeIsOwned ==
  ASSUME NEW outcome \in Outcome
  PROVE  /\ OwnedAfter(outcome) \in {"none", "retryable", "settling"}
         /\ ControllerAfter(outcome) \in {"unsettled", "shutdown"}
         /\ ControllerAfter(outcome) = "unsettled" <=> OwnedAfter(outcome) # "none"
  BY DEF Outcome, OwnedAfter, ControllerAfter

LEMMA FlushReturnsIInv ==
  ASSUME IInv, NEW outcome \in Outcome, FlushReturns(outcome)
  PROVE  IInv'
<1> USE NoSessionOutside, OutcomeIsOwned
    DEF IInv, TypeOK, FlushReturns, spans, gauge, signals, bounds
<1>1. session \in Session /\ handled = session
  BY DEF Handling, Teardown
<1>2. TypeOK'
  BY DEF Steps
<1>3. Handling' /\ FenceIsAttended'
  BY DEF Handling, FenceIsAttended, Teardown
<1>4. Pipelines'
  <2>1. UNCHANGED <<controller, session, lease, handled>> /\ pc # "starting" /\ pc' # "starting"
    OBVIOUS
  <2>2. \A s \in Session : owned'[<<s, "shutdown">>] = owned[<<s, "shutdown">>]
    BY <1>1 DEF Operation
  <2>3. ASSUME NEW s \in Session
        PROVE  /\ controller'[s] = "starting" <=> pc' = "starting" /\ handled' = s
               /\ controller'[s] = "started" <=> session' = s
               /\ controller'[s] = "unsettled" <=> owned'[<<s, "shutdown">>] # "none"
               /\ controller'[s] \in {"unused", "starting"} => lease'[s] = "none"
    BY <2>1, <2>2 DEF Pipelines
  <2>4. QED
    BY <2>3 DEF Pipelines
<1>5. Debts'
  BY <1>1 DEF Debts, Operation
<1>6. NoSpawnOutlivesTeardown' /\ GaugeCountsServed' /\ RuntimeIsCurrent'
  BY DEF NoSpawnOutlivesTeardown, GaugeCountsServed, RuntimeIsCurrent, Serving, Exported
<1>7. QED
  BY <1>2, <1>3, <1>4, <1>5, <1>6

\* The cleanup of a session ends: what it could not finish is owed, and owed by
\* no other.
LEMMA ShutdownReturnsIInv ==
  ASSUME IInv, NEW outcome \in Outcome, ShutdownReturns(outcome)
  PROVE  IInv'
<1> USE NoSessionOutside, OutcomeIsOwned
    DEF IInv, TypeOK, ShutdownReturns, Finalize, WithLease, spans, bounds
<1>1. /\ session \in Session /\ handled = session
      /\ session' = NoSession /\ phase' = "open" /\ handled' = NoSession
  BY DEF Handling, Teardown
<1>2. pc' \in {"idle", "configuring"}
  OBVIOUS
<1>3. TypeOK'
  BY <1>1, <1>2 DEF Steps
<1>4. Handling' /\ FenceIsAttended'
  BY <1>1, <1>2 DEF Handling, FenceIsAttended, Teardown
<1>5. Pipelines'
  <2>1. controller[session] = "started"
    BY <1>1 DEF Pipelines
  <2>2. pc = "shuttingDown" /\ \A s \in Session : controller[s] # "starting"
    BY DEF Pipelines
  <2>3. \A s \in Session \ {session} :
           /\ controller'[s] = controller[s] /\ lease'[s] = lease[s]
           /\ owned'[<<s, "shutdown">>] = owned[<<s, "shutdown">>]
    BY <1>1 DEF Operation
  <2>4. /\ controller'[session] = ControllerAfter(outcome)
        /\ owned'[<<session, "shutdown">>] = OwnedAfter(outcome)
    BY <1>1 DEF Operation
  <2>5. \A s \in Session \ {session} : controller[s] # "started"
    BY <1>1 DEF Pipelines
  <2>6. ASSUME NEW s \in Session
        PROVE  /\ controller'[s] = "starting" <=> pc' = "starting" /\ handled' = s
               /\ controller'[s] = "started" <=> session' = s
               /\ controller'[s] = "unsettled" <=> owned'[<<s, "shutdown">>] # "none"
               /\ controller'[s] \in {"unused", "starting"} => lease'[s] = "none"
    <3>1. CASE s = session
      BY <1>1, <1>2, <2>4, <3>1
    <3>2. CASE s # session
      BY <1>1, <1>2, <2>2, <2>3, <2>5, <3>2 DEF Pipelines
    <3>3. QED
      BY <3>1, <3>2
  <2>7. QED
    BY <2>6 DEF Pipelines
<1>6. Debts'
  BY <1>1 DEF Debts, Operation
<1>7. NoSpawnOutlivesTeardown'
  BY <1>1 DEF NoSpawnOutlivesTeardown, Serving
<1>8. GaugeCountsServed'
  BY <1>1 DEF GaugeCountsServed, Serving, Exported
<1>9. RuntimeIsCurrent'
  BY <1>1 DEF RuntimeIsCurrent, Serving
<1>10. QED
  BY <1>3, <1>4, <1>5, <1>6, <1>7, <1>8, <1>9

LEMMA StartupFailsIInv ==
  ASSUME IInv, NEW outcome \in Outcome, StartupFails(outcome)
  PROVE  IInv'
<1> USE NoSessionOutside, OutcomeIsOwned
    DEF IInv, TypeOK, StartupFails, ClearRuntime, spans, gauge, bounds
<1>1. handled \in Session /\ session = NoSession /\ session' = NoSession /\ handled' = NoSession
  BY DEF Handling
<1>2. TypeOK'
  BY <1>1 DEF Steps
<1>3. Handling' /\ FenceIsAttended'
  BY <1>1 DEF Handling, FenceIsAttended, Teardown
<1>4. Pipelines'
  <2>1. \A s \in Session \ {handled} :
           /\ controller'[s] = controller[s]
           /\ owned'[<<s, "shutdown">>] = owned[<<s, "shutdown">>]
    BY <1>1 DEF Operation
  <2>2. /\ controller'[handled] = ControllerAfter(outcome)
        /\ owned'[<<handled, "shutdown">>] = OwnedAfter(outcome)
    BY <1>1 DEF Operation
  <2>3. ASSUME NEW s \in Session
        PROVE  /\ controller'[s] = "starting" <=> pc' = "starting" /\ handled' = s
               /\ controller'[s] = "started" <=> session' = s
               /\ controller'[s] = "unsettled" <=> owned'[<<s, "shutdown">>] # "none"
               /\ controller'[s] \in {"unused", "starting"} => lease'[s] = "none"
    <3>1. CASE s = handled
      BY <1>1, <2>2, <3>1
    <3>2. CASE s # handled
      BY <1>1, <2>1, <3>2 DEF Pipelines
    <3>3. QED
      BY <3>1, <3>2
  <2>4. QED
    BY <2>3 DEF Pipelines
<1>5. Debts'
  BY <1>1 DEF Debts, Operation
<1>6. NoSpawnOutlivesTeardown' /\ GaugeCountsServed' /\ RuntimeIsCurrent'
  BY <1>1 DEF NoSpawnOutlivesTeardown, GaugeCountsServed, RuntimeIsCurrent, Serving, Exported
<1>7. QED
  BY <1>2, <1>3, <1>4, <1>5, <1>6

\* An operation that is owed is attempted again, or its last attempt settles.
LEMMA SettledIInv ==
  ASSUME IInv, NEW op \in Session \X Operation, NEW outcome \in Outcome,
         \/ RetryOwed(op, outcome)
         \/ Settle(op, outcome)
  PROVE  IInv'
<1> USE NoSessionOutside, OutcomeIsOwned DEF IInv, TypeOK, spans, gauge, bounds
<1>1. PICK s \in Session, k \in Operation : op = <<s, k>>
  OBVIOUS
<1>2. /\ owned[<<s, k>>] # "none"
      /\ owned' = [owned EXCEPT ![<<s, k>>] = OwnedAfter(outcome)]
      /\ controller' = IF k = "shutdown"
                       THEN [controller EXCEPT ![s] = ControllerAfter(outcome)]
                       ELSE controller
      /\ UNCHANGED <<queue, purpose, handled, session, phase, spans, gauge, runtime, deliveries>>
      /\ pc' = pc \/ (pc = "resolving" /\ pc' = "idle")
      /\ retries' \in 0 .. MaxRetries
  BY <1>1, BoundsNat DEF RetryOwed, Settle
<1>3. TypeOK'
  BY <1>2 DEF Steps
<1>4. Handling' /\ FenceIsAttended'
  BY <1>2 DEF Handling, FenceIsAttended, Teardown
<1>5. Pipelines'
  <2>1. \A t \in Session :
           t # s \/ k # "shutdown" =>
             /\ controller'[t] = controller[t]
             /\ owned'[<<t, "shutdown">>] = owned[<<t, "shutdown">>]
    BY <1>2 DEF Operation
  <2>2. k = "shutdown" =>
          /\ controller[s] = "unsettled"
          /\ controller'[s] = ControllerAfter(outcome)
          /\ owned'[<<s, "shutdown">>] = OwnedAfter(outcome)
    BY <1>2 DEF Pipelines
  <2>3. pc' = "starting" <=> pc = "starting"
    BY <1>2
  <2>4. ASSUME NEW t \in Session
        PROVE  /\ controller'[t] = "starting" <=> pc' = "starting" /\ handled' = t
               /\ controller'[t] = "started" <=> session' = t
               /\ controller'[t] = "unsettled" <=> owned'[<<t, "shutdown">>] # "none"
               /\ controller'[t] \in {"unused", "starting"} => lease'[t] = "none"
    BY <1>2, <2>1, <2>2, <2>3 DEF Pipelines
  <2>5. QED
    BY <2>4 DEF Pipelines
<1>6. Debts'
  BY <1>2 DEF Debts
<1>7. NoSpawnOutlivesTeardown' /\ GaugeCountsServed' /\ RuntimeIsCurrent'
  BY <1>2 DEF NoSpawnOutlivesTeardown, GaugeCountsServed, RuntimeIsCurrent, Serving, Exported
<1>8. QED
  BY <1>3, <1>4, <1>5, <1>6, <1>7

-----------------------------------------------------------------------------
(* Other handlers, and calls of a cached integration API *)

\* A call that is admitted finds the session served: the fence is closed from
\* the beginning of a teardown to its end.
LEMMA CallsIInv ==
  ASSUME IInv, StartSubagent \/ CompleteSubagent \/ StartWork \/ EndWork
  PROVE  IInv'
<1> USE NoSessionOutside
    DEF IInv, TypeOK, StartSubagent, CompleteSubagent, StartWork, EndWork, Admitted, gauge, bounds
<1>1. TypeOK'
  OBVIOUS
<1>2. Handling' /\ FenceIsAttended'
  BY DEF Handling, FenceIsAttended, Teardown
<1>3. Pipelines' /\ Debts'
  BY DEF Pipelines, Debts
<1>4. NoSpawnOutlivesTeardown'
  BY DEF NoSpawnOutlivesTeardown, Serving, Handling, Teardown
<1>5. RuntimeIsCurrent'
  BY DEF RuntimeIsCurrent, Serving
<1>6. GaugeCountsServed'
  BY GaugeKept DEF Serving
<1>7. QED
  BY <1>1, <1>2, <1>3, <1>4, <1>5, <1>6

-----------------------------------------------------------------------------
(* The theorems *)

\* The invariant of the lifecycle handlers: what the running handler, the
\* installed session, the fence and the owed operations know of each other.
THEOREM Inductive == Spec => []IInv
<1>1. IInv /\ [Next]_vars => IInv'
  <2> SUFFICES ASSUME IInv, [Next]_vars
               PROVE  IInv'
    OBVIOUS
  <2>1. CASE DeliverStart \/ DeliverShutdown
    BY <2>1, DeliverIInv
  <2>2. CASE HandlerStep
    <3>1. CASE HandleShutdown
      BY <3>1, HandleShutdownIInv
    <3>2. CASE \/ HandleStart \/ StatusCleared \/ StartDeferred \/ ConfigFails
               \/ ConfigDisabled \/ Leave
      BY <3>2, WaitingIInv
    <3>3. CASE StartGranted
      BY <3>3, StartGrantedIInv
    <3>4. CASE \E s \in Session : ConfigEnabled(s)
      BY <3>4, ConfigEnabledIInv
    <3>5. CASE StartupSucceeds \/ StartBookkeepingThrows
      BY <3>5, StartedIInv
    <3>6. ASSUME NEW outcome \in Outcome,
                 \/ FlushReturns(outcome) \/ ShutdownReturns(outcome)
                 \/ StartupFails(outcome)
          PROVE  IInv'
      BY <3>6, FlushReturnsIInv, ShutdownReturnsIInv, StartupFailsIInv
    <3>7. ASSUME NEW outcome \in Outcome, NEW op \in Owed, RetryOwed(op, outcome)
          PROVE  IInv'
      BY <3>7, SettledIInv DEF Owed
    <3>8. QED
      BY <2>2, <3>1, <3>2, <3>3, <3>4, <3>5, <3>6, <3>7 DEF HandlerStep
  <2>3. CASE StartSubagent \/ CompleteSubagent \/ StartWork \/ EndWork
    BY <2>3, CallsIInv
  <2>4. ASSUME NEW op \in Session \X Operation, NEW outcome \in Outcome, Settle(op, outcome)
        PROVE  IInv'
    BY <2>4, SettledIInv
  <2>5. CASE UNCHANGED vars
    BY <2>5 DEF vars, spans, gauge, bounds, IInv, TypeOK, Handling, Pipelines, Debts,
       FenceIsAttended, NoSpawnOutlivesTeardown, GaugeCountsServed, RuntimeIsCurrent, Serving,
       Exported
  <2>6. QED
    BY <2>1, <2>2, <2>3, <2>4, <2>5 DEF Next
<1>2. QED
  BY <1>1, InitIInv, PTL DEF Spec

\* Two pipelines are never live at once, and none starts while a flush or a
\* shutdown is owed (startTelemetrySession, resolveBeforeStart).
THEOREM NeverTwoPipelines == Spec => []OnePipeline
<1>1. IInv => OnePipeline
  <2> SUFFICES ASSUME IInv
               PROVE  OnePipeline
    OBVIOUS
  <2> USE NoSessionOutside DEF IInv, TypeOK
  <2>1. ASSUME NEW s \in Session, NEW t \in Session, Live(s), Live(t)
        PROVE  s = t
    <3>1. ASSUME NEW u \in Session, controller[u] = "unsettled"
          PROVE  session = NoSession /\ pc # "starting" /\ owned[<<u, "shutdown">>] # "none"
      BY <3>1 DEF Pipelines, Debts, Operation
    <3>2. CASE controller[s] = "unsettled" \/ controller[t] = "unsettled"
      <4>1. controller[s] = "unsettled" /\ controller[t] = "unsettled"
        BY <2>1, <3>1, <3>2 DEF Live, Pipelines
      <4>2. QED
        BY <3>1, <4>1 DEF Debts, Operation
    <3>3. CASE controller[s] # "unsettled" /\ controller[t] # "unsettled"
      <4>1. \A u \in {s, t} : (pc = "starting" /\ u = handled) \/ u = session
        BY <2>1, <3>3 DEF Live, Pipelines
      <4>2. QED
        BY <4>1 DEF Handling
    <3>4. QED
      BY <3>2, <3>3
  <2>2. pc = "starting" => Owed = {}
    BY DEF Owed, Debts
  <2>3. QED
    BY <2>1, <2>2 DEF OnePipeline
<1>2. QED
  BY <1>1, Inductive, PTL

\* A pipeline that is not shut down belongs to the running handler, to the
\* installed session, or to an operation that is retained.
THEOREM NoPipelineIsOrphaned == Spec => []NoOrphanPipeline
<1>1. IInv => NoOrphanPipeline
  BY DEF IInv, Pipelines, NoOrphanPipeline, Live
<1>2. QED
  BY <1>1, Inductive, PTL

\* No subagent operation, and no session span, stays open beyond the teardown
\* of its session, whatever calls arrive between its awaits.
THEOREM TeardownMissesNoSpawn == Spec => []NoSpawnOutlivesTeardown
<1>1. IInv => NoSpawnOutlivesTeardown
  BY DEF IInv
<1>2. QED
  BY <1>1, Inductive, PTL

\* The gauge, the lease, the state of /obs and the fence agree with the session
\* that is served, between any two steps of the handlers.
THEOREM SessionStateAgrees == Spec => []StateAgreesWithSession
<1>1. IInv => StateAgreesWithSession
  <2> SUFFICES ASSUME IInv
               PROVE  FenceReopens
    BY DEF IInv, StateAgreesWithSession
  <2>1. QED
    BY DEF IInv, TypeOK, FenceIsAttended, FenceReopens, Teardown
<1>2. QED
  BY <1>1, Inductive, PTL
-----------------------------------------------------------------------------
(* The handlers keep to the contracts of the registry and of the pipelines *)

\* A flush is owed only by a session that was started and whose teardown asked
\* for it.
FlushesAreLate ==
  \A s \in Session :
    owned[<<s, "flush">>] # "none" =>
      \/ pc = "shuttingDown" /\ handled = s
      \/ controller[s] \in {"unsettled", "shutdown"} /\ lease[s] # "none"

\* What a step owes to both contracts.
Keeps == FlushesAreLate' /\ PipelineSteps /\ [Ledger!Next]_(Ledger!vars)

\* What a client knows of a pipeline changes only with its controller, with the
\* shutdown that is owed of it, and when its teardown asks for a shutdown.
LEMMA SameLife ==
  ASSUME NEW s \in Session, controller'[s] = controller[s],
         controller[s] = "unsettled" => owned'[<<s, "shutdown">>] = owned[<<s, "shutdown">>],
         controller[s] = "started" =>
           (pc' = "shuttingDown" /\ handled' = s <=> pc = "shuttingDown" /\ handled = s)
  PROVE  UNCHANGED Contract(s)!vars
<1>1. Life(s)' = Life(s)
  BY DEF Life
<1>2. (controller[s] \in {"started", "unsettled"})' = (controller[s] \in {"started", "unsettled"})
  OBVIOUS
<1>3. QED
  BY <1>1, <1>2 DEF Contract!vars

\* A step that changes no pipeline and nothing that is owed.
LEMMA NothingSettles ==
  ASSUME IInv, FlushesAreLate, UNCHANGED <<controller, owned>>,
         \A s \in Session : lease'[s] # "none" <=> lease[s] # "none",
         pc' = "shuttingDown" <=> pc = "shuttingDown",
         pc = "shuttingDown" => handled' = handled
  PROVE  FlushesAreLate' /\ PipelineSteps /\ Owed' = Owed /\ Completed' = Completed
<1>1. FlushesAreLate'
  BY DEF FlushesAreLate
<1>2. PipelineSteps
  BY SameLife DEF PipelineSteps
<1>3. Owed' = Owed /\ Completed' = Completed
  BY DEF Owed, Completed
<1>4. QED
  BY <1>1, <1>2, <1>3

\* The steps that wait, deliver, refuse and clear, and those of other handlers.
LEMMA QuietKeeps ==
  ASSUME IInv, FlushesAreLate,
         \/ DeliverStart \/ DeliverShutdown
         \/ HandleStart \/ StatusCleared \/ StartDeferred \/ Leave
         \/ StartSubagent \/ CompleteSubagent \/ StartWork \/ EndWork
         \/ UNCHANGED vars
  PROVE  Keeps
<1> USE DEF Deliver, HandleStart, Dequeue, StatusCleared, StartDeferred, Leave, StartSubagent,
            CompleteSubagent, StartWork, EndWork, DeliverStart, DeliverShutdown, vars, signals,
            spans, gauge
<1>1. /\ UNCHANGED <<controller, owned, lease, handled>>
      /\ pc' = "shuttingDown" <=> pc = "shuttingDown"
      /\ pc' = "configuring" <=> pc = "configuring"
  OBVIOUS
<1>2. FlushesAreLate' /\ PipelineSteps /\ Owed' = Owed /\ Completed' = Completed
  BY <1>1, NothingSettles
<1>3. UNCHANGED Ledger!vars
  BY <1>1, <1>2 DEF Ledger!vars
<1>4. QED
  BY <1>2, <1>3 DEF Keeps

\* A teardown begins: the lease it deactivates was active.
LEMMA BookkeepingKeepsLeases ==
  ASSUME IInv, session # NoSession, handled = NoSession, TeardownBookkeeping(session)
  PROVE  \A s \in Session : lease'[s] # "none" <=> lease[s] # "none"
<1>1. session \in Session /\ Serving(session)
  BY NoSessionOutside DEF IInv, TypeOK, Serving
<1>2. lease[session] = "active"
  BY <1>1 DEF IInv, GaugeCountsServed, Exported
<1>3. QED
  BY <1>1, <1>2 DEF TeardownBookkeeping, WithLease, IInv, TypeOK

\* session_shutdown, and the answer of the registry: a session that is live is
\* torn down, and otherwise the decision to start is one the registry allows.
LEMMA DecisionsKeep ==
  ASSUME IInv, FlushesAreLate, HandleShutdown \/ StartGranted
  PROVE  Keeps
<1>1. pc \in {"idle", "resolving"} /\ handled = NoSession /\ UNCHANGED <<controller, owned>>
  BY DEF HandleShutdown, StartGranted, Dequeue, IInv, Handling, Teardown
<1>2. pc' # "shuttingDown"
  BY <1>1 DEF HandleShutdown, StartGranted, BeginTeardown
<1>3. \A s \in Session : lease'[s] # "none" <=> lease[s] # "none"
  BY <1>1, BookkeepingKeepsLeases DEF HandleShutdown, StartGranted, gauge
<1>4. FlushesAreLate' /\ PipelineSteps /\ Owed' = Owed /\ Completed' = Completed
  BY <1>1, <1>2, <1>3, NothingSettles
<1>5. pc' # "configuring" \/ Owed = {}
  BY <1>1 DEF HandleShutdown, StartGranted, BeginTeardown
<1>6. [Ledger!Next]_(Ledger!vars)
  <2>1. CASE pc' # "configuring"
    BY <1>1, <1>4, <2>1 DEF Ledger!vars
  <2>2. CASE pc' = "configuring"
    <3>1. Ledger!Judge
      BY <1>1, <1>4, <1>5, <2>2 DEF Ledger!Judge, Ledger!Decide
    <3>2. QED
      BY <3>1 DEF Ledger!Next
  <2>3. QED
    BY <2>1, <2>2
<1>7. QED
  BY <1>4, <1>6 DEF Keeps

\* The decision is used up: nothing is started.
LEMMA RefusalsKeep ==
  ASSUME IInv, FlushesAreLate, ConfigFails \/ ConfigDisabled
  PROVE  Keeps
<1> USE DEF ConfigFails, ConfigDisabled, HandlerRejects, signals, gauge
<1>1. /\ UNCHANGED <<controller, owned, lease>>
      /\ pc = "configuring" /\ pc' \in {"idle", "leaving"}
  OBVIOUS
<1>2. FlushesAreLate' /\ PipelineSteps /\ Owed' = Owed /\ Completed' = Completed
  BY <1>1, NothingSettles
<1>3. Ledger!Deliver
  BY <1>1, <1>2 DEF Ledger!Deliver
<1>4. QED
  BY <1>2, <1>3 DEF Keeps, Ledger!Next

\* The decision is used up by a pipeline that starts.
LEMMA ConfigEnabledKeeps ==
  ASSUME IInv, FlushesAreLate, NEW s \in Session, ConfigEnabled(s)
  PROVE  Keeps
<1> USE DEF IInv, TypeOK
<1>1. /\ controller[s] = "unused" /\ controller' = [controller EXCEPT ![s] = "starting"]
      /\ UNCHANGED <<owned, lease>>
      /\ pc = "configuring" /\ pc' = "starting"
  BY DEF ConfigEnabled, gauge
<1>2. owned[<<s, "flush">>] = "none"
  BY <1>1 DEF FlushesAreLate
<1>3. FlushesAreLate'
  BY <1>1, <1>2 DEF FlushesAreLate
<1>4. PipelineSteps
  <2>1. Contract(s)!Start
    BY <1>1 DEF Contract!Start, Life
  <2>2. ASSUME NEW t \in Session, t # s
        PROVE  UNCHANGED Contract(t)!vars
    BY <1>1, <2>2, SameLife
  <2>3. QED
    BY <2>1, <2>2 DEF PipelineSteps, Contract!Next
<1>5. Owed' = Owed /\ Completed' = Completed
  BY <1>1 DEF Owed, Completed
<1>6. Ledger!Deliver
  BY <1>1, <1>5 DEF Ledger!Deliver
<1>7. QED
  BY <1>3, <1>4, <1>6 DEF Keeps, Ledger!Next

\* The pipeline of the session that is installed is the one that started.
LEMMA StartedKeeps ==
  ASSUME IInv, FlushesAreLate, StartupSucceeds \/ StartBookkeepingThrows
  PROVE  Keeps
<1> USE DEF IInv, TypeOK
<1>1. /\ pc = "starting" /\ pc' \in {"idle", "clearing"} /\ handled \in Session
      /\ controller' = [controller EXCEPT ![handled] = "started"]
      /\ lease' \in {WithLease(handled, "active"), WithLease(handled, "idle")}
      /\ UNCHANGED owned
  BY NoSessionOutside DEF StartupSucceeds, StartBookkeepingThrows, TelemetryStarted,
     BeginTeardown, Handling
<1>2. controller[handled] = "starting" /\ owned[<<handled, "flush">>] = "none"
  BY <1>1 DEF Pipelines, FlushesAreLate
<1>3. \A s \in Session : s # handled => lease'[s] = lease[s]
  BY <1>1 DEF WithLease
<1>4. FlushesAreLate'
  BY <1>1, <1>2, <1>3 DEF FlushesAreLate
<1>5. PipelineSteps
  <2>1. PICK s \in Session : s = handled
    BY <1>1
  <2>2. Contract(s)!Started
    BY <1>1, <1>2, <2>1 DEF Contract!Started, Contract!MayHold, Life
  <2>3. ASSUME NEW t \in Session, t # s
        PROVE  UNCHANGED Contract(t)!vars
    BY <1>1, <2>1, <2>3, SameLife
  <2>4. QED
    BY <2>2, <2>3 DEF PipelineSteps, Contract!Next
<1>6. Owed' = Owed /\ Completed' = Completed
  BY <1>1, <1>2, <1>3 DEF Owed, Completed
<1>7. UNCHANGED Ledger!vars
  BY <1>1, <1>6 DEF Ledger!vars
<1>8. QED
  BY <1>4, <1>5, <1>7 DEF Keeps

\* One operation ends: the registry sees it complete, owes it from now on, or
\* owes it still.
LEMMA OneOperationEnds ==
  ASSUME TypeOK, NEW op \in Session \X Operation, NEW outcome \in Outcome,
         owned' = [owned EXCEPT ![op] = OwnedAfter(outcome)],
         op \notin Completed, op \in Completed' <=> outcome = "completed",
         \A other \in Session \X Operation :
           other # op => (other \in Completed' <=> other \in Completed),
         pc # "configuring", pc' = "configuring" => Owed' = {}
  PROVE  [Ledger!Next]_(Ledger!vars)
<1>1. OwnedAfter(outcome) = "none" <=> outcome = "completed"
  BY DEF Outcome, OwnedAfter
<1>2. owned'[op] = OwnedAfter(outcome) /\ \A other \in Session \X Operation :
        other # op => owned'[other] = owned[other]
  BY DEF TypeOK
<1>3. /\ Completed \subseteq Session \X Operation /\ Completed' \subseteq Session \X Operation
      /\ Owed \subseteq Session \X Operation /\ Owed' \subseteq Session \X Operation
  BY DEF Completed, Owed
<1>4. op \in Owed' <=> outcome # "completed"
  BY <1>1, <1>2 DEF Owed
<1>5. \A other \in Session \X Operation : other # op => (other \in Owed' <=> other \in Owed)
  BY <1>2 DEF Owed
<1>6. CASE outcome = "completed"
  <2>1. Completed' = Completed \cup {op}
    BY <1>3, <1>6
  <2>2. Owed' = Owed \ {op}
    BY <1>3, <1>4, <1>5, <1>6
  <2>3. Ledger!Decide
    BY DEF Ledger!Decide
  <2>4. Ledger!Complete(op)
    BY <2>1, <2>2, <2>3 DEF Ledger!Complete
  <2>5. QED
    BY <2>4 DEF Ledger!Next
<1>7. CASE outcome # "completed"
  <2>1. Completed' = Completed /\ pc' # "configuring"
    BY <1>3, <1>4, <1>7
  <2>2. Owed' = Owed \cup {op}
    BY <1>3, <1>4, <1>5, <1>7
  <2>3. CASE op \in Owed
    BY <2>1, <2>2, <2>3 DEF Ledger!vars
  <2>4. CASE op \notin Owed
    <3>1. Ledger!Own(op)
      BY <2>1, <2>2, <2>4 DEF Ledger!Own
    <3>2. QED
      BY <3>1 DEF Ledger!Next
  <2>5. QED
    BY <2>3, <2>4
<1>8. QED
  BY <1>6, <1>7

\* The flush of a teardown returns: it is complete or owed, and the pipeline is
\* asked to shut down.
LEMMA FlushKeeps ==
  ASSUME IInv, FlushesAreLate, NEW outcome \in Outcome, FlushReturns(outcome)
  PROVE  Keeps
<1> USE OutcomeIsOwned DEF IInv, TypeOK
<1>1. PICK s \in Session : s = handled
  BY DEF FlushReturns, Handling, Teardown
<1>2. /\ pc = "flushing" /\ pc' = "shuttingDown" /\ handled' = s /\ controller[s] = "started"
      /\ owned' = [owned EXCEPT ![<<s, "flush">>] = OwnedAfter(outcome)]
      /\ UNCHANGED <<controller, lease>>
  BY <1>1 DEF FlushReturns, Handling, Teardown, Pipelines, signals, gauge
<1>3. /\ owned[<<s, "flush">>] = "none" /\ <<s, "flush">> \in Session \X Operation
      /\ \A op \in Session \X Operation : op # <<s, "flush">> => owned'[op] = owned[op]
      /\ owned'[<<s, "flush">>] = OwnedAfter(outcome)
  BY <1>2 DEF FlushesAreLate, Operation
<1>4. FlushesAreLate'
  <2>1. ASSUME NEW t \in Session, t # s, owned'[<<t, "flush">>] # "none"
        PROVE  controller'[t] \in {"unsettled", "shutdown"} /\ lease'[t] # "none"
    BY <1>1, <1>2, <1>3, <2>1 DEF FlushesAreLate, Operation
  <2>2. QED
    BY <1>2, <2>1 DEF FlushesAreLate
<1>5. PipelineSteps
  <2>1. Contract(s)!Close
    BY <1>1, <1>2 DEF Contract!Close, Life
  <2>2. ASSUME NEW t \in Session, t # s
        PROVE  UNCHANGED Contract(t)!vars
    <3>1. owned'[<<t, "shutdown">>] = owned[<<t, "shutdown">>]
      BY <1>3, <2>2 DEF Operation
    <3>2. QED
      BY <1>1, <1>2, <2>2, <3>1, SameLife
  <2>3. QED
    BY <2>1, <2>2 DEF PipelineSteps, Contract!Next
<1>6. <<s, "flush">> \notin Completed
  BY <1>2 DEF Completed
<1>7. \A op \in Session \X Operation :
        op # <<s, "flush">> => (op \in Completed' <=> op \in Completed)
  BY <1>1, <1>2, <1>3 DEF Completed, Operation
<1>8. <<s, "flush">> \in Completed' <=> outcome = "completed"
  <2>1. OwnedAfter(outcome) = "none" <=> outcome = "completed"
    BY DEF Outcome, OwnedAfter
  <2>2. QED
    BY <1>2, <1>3, <2>1 DEF Completed
<1>9. [Ledger!Next]_(Ledger!vars)
  BY <1>2, <1>3, <1>6, <1>7, <1>8, OneOperationEnds
<1>10. QED
  BY <1>4, <1>5, <1>9 DEF Keeps

\* The cleanup of a session ends, and with it that of its pipeline; a new start
\* follows only when nothing is owed.
LEMMA ShutdownKeeps ==
  ASSUME IInv, FlushesAreLate, NEW outcome \in Outcome, ShutdownReturns(outcome)
  PROVE  Keeps
<1> USE OutcomeIsOwned DEF IInv, TypeOK
<1>1. PICK s \in Session : s = handled
  BY DEF ShutdownReturns, Handling, Teardown
<1> DEFINE op == <<s, "shutdown">>
<1>2. /\ pc = "shuttingDown" /\ pc' \in {"idle", "configuring"} /\ controller[s] = "started"
      /\ owned' = [owned EXCEPT ![op] = OwnedAfter(outcome)]
      /\ controller' = [controller EXCEPT ![s] = ControllerAfter(outcome)]
      /\ lease' = WithLease(s, "disposed")
      /\ pc' = "configuring" => \A other \in Session \X Operation : owned'[other] = "none"
  BY <1>1 DEF ShutdownReturns, Handling, Teardown, Pipelines, Finalize
<1>3. /\ owned[op] = "none" /\ op \in Session \X Operation
      /\ \A other \in Session \X Operation : other # op => owned'[other] = owned[other]
      /\ owned'[op] = OwnedAfter(outcome)
      /\ \A t \in Session : t # s => controller'[t] = controller[t] /\ lease'[t] = lease[t]
      /\ controller'[s] = ControllerAfter(outcome) /\ lease'[s] = "disposed"
  BY <1>2 DEF Pipelines, Operation, WithLease
<1> HIDE DEF op
<1>4. FlushesAreLate'
  <2>1. ASSUME NEW t \in Session, owned'[<<t, "flush">>] # "none"
        PROVE  controller'[t] \in {"unsettled", "shutdown"} /\ lease'[t] # "none"
    <3>1. owned[<<t, "flush">>] # "none"
      BY <1>3, <2>1 DEF Operation, op
    <3>2. CASE t = s
      BY <1>3, <3>2
    <3>3. CASE t # s
      BY <1>1, <1>3, <3>1, <3>3 DEF FlushesAreLate
    <3>4. QED
      BY <3>2, <3>3
  <2>2. QED
    BY <2>1 DEF FlushesAreLate
<1>5. PipelineSteps
  <2>1. Contract(s)!End(outcome)
    <3>1. Life(s) = "closing"
      BY <1>1, <1>2 DEF Life
    <3>2. Life(s)' = IF outcome = "completed" THEN "down" ELSE OwnedAfter(outcome)
      BY <1>3 DEF Life, Outcome, OwnedAfter, ControllerAfter, op
    <3>3. controller'[s] \in {"started", "unsettled"} <=> outcome # "completed"
      BY <1>3 DEF Outcome, ControllerAfter
    <3>4. QED
      BY <1>2, <3>1, <3>2, <3>3 DEF Contract!End, Contract!Busy, Contract!MayHold, Outcome, OwnedAfter
  <2>2. ASSUME NEW t \in Session, t # s
        PROVE  UNCHANGED Contract(t)!vars
    <3>1. owned'[<<t, "shutdown">>] = owned[<<t, "shutdown">>]
      BY <1>3, <2>2 DEF Operation, op
    <3>2. controller[t] # "started"
      BY <1>1, <1>2, <2>2 DEF Pipelines, Handling, Teardown
    <3>3. QED
      BY <1>3, <2>2, <3>1, <3>2, SameLife
  <2>3. outcome \in Contract(s)!Outcome
    BY DEF Contract!Outcome, Outcome
  <2>4. QED
    BY <2>1, <2>2, <2>3 DEF PipelineSteps, Contract!Next
<1>6. op \notin Completed /\ (op \in Completed' <=> outcome = "completed")
  BY <1>2, <1>3 DEF Completed, op, Outcome, ControllerAfter
<1>7. \A other \in Session \X Operation :
        other # op => (other \in Completed' <=> other \in Completed)
  <2>1. ASSUME NEW t \in Session, NEW k \in Operation, <<t, k>> # op
        PROVE  <<t, k>> \in Completed' <=> <<t, k>> \in Completed
    <3>1. owned'[<<t, k>>] = owned[<<t, k>>]
      BY <1>3, <2>1
    <3>2. CASE t # s
      BY <1>1, <1>2, <1>3, <3>1, <3>2 DEF Completed
    <3>3. CASE t = s
      BY <1>1, <1>2, <1>3, <2>1, <3>1, <3>3 DEF Completed, Operation, op
    <3>4. QED
      BY <3>2, <3>3
  <2>2. QED
    BY <2>1
<1>8. pc' = "configuring" => Owed' = {}
  BY <1>2 DEF Owed
<1>9. [Ledger!Next]_(Ledger!vars)
  BY <1>2, <1>3, <1>6, <1>7, <1>8, OneOperationEnds
<1>10. QED
  BY <1>4, <1>5, <1>9 DEF Keeps

\* A pipeline that failed to start is down, or its shutdown is owed: no session
\* was installed, and nothing of it was flushed.
LEMMA StartupFailsKeeps ==
  ASSUME IInv, FlushesAreLate, NEW outcome \in Outcome, StartupFails(outcome)
  PROVE  Keeps
<1> USE OutcomeIsOwned DEF IInv, TypeOK
<1>1. PICK s \in Session : s = handled
  BY DEF StartupFails, Handling
<1> DEFINE op == <<s, "shutdown">>
<1>2. /\ pc = "starting" /\ pc' = "leaving"
      /\ owned' = [owned EXCEPT ![op] = OwnedAfter(outcome)]
      /\ controller' = [controller EXCEPT ![s] = ControllerAfter(outcome)]
      /\ lease' = lease
  BY <1>1 DEF StartupFails, gauge
<1>3. controller[s] = "starting" /\ lease[s] = "none" /\ session = NoSession
  BY <1>1, <1>2 DEF Pipelines, Handling
<1>4. \A other \in Session \X Operation : owned[other] = "none"
  BY <1>2 DEF Debts
<1>5. /\ op \in Session \X Operation
      /\ \A other \in Session \X Operation : other # op => owned'[other] = owned[other]
      /\ owned'[op] = OwnedAfter(outcome)
      /\ \A t \in Session : t # s => controller'[t] = controller[t]
      /\ controller'[s] = ControllerAfter(outcome)
  BY <1>2 DEF Operation
<1> HIDE DEF op
<1>6. FlushesAreLate'
  BY <1>4, <1>5 DEF FlushesAreLate, Operation, op
<1>7. PipelineSteps
  <2>1. Contract(s)!End(outcome)
    <3>1. Life(s) = "starting"
      BY <1>2, <1>3 DEF Life
    <3>2. Life(s)' = IF outcome = "completed" THEN "down" ELSE OwnedAfter(outcome)
      BY <1>5 DEF Life, Outcome, OwnedAfter, ControllerAfter, op
    <3>3. controller'[s] \in {"started", "unsettled"} <=> outcome # "completed"
      BY <1>5 DEF Outcome, ControllerAfter
    <3>4. QED
      BY <3>1, <3>2, <3>3 DEF Contract!End, Contract!Busy, Contract!MayHold, Outcome, OwnedAfter
  <2>2. ASSUME NEW t \in Session, t # s
        PROVE  UNCHANGED Contract(t)!vars
    <3>1. owned'[<<t, "shutdown">>] = owned[<<t, "shutdown">>]
      BY <1>5, <2>2 DEF Operation, op
    <3>2. QED
      BY <1>2, <1>5, <2>2, <3>1, SameLife
  <2>3. outcome \in Contract(s)!Outcome
    BY DEF Contract!Outcome, Outcome
  <2>4. QED
    BY <2>1, <2>2, <2>3 DEF PipelineSteps, Contract!Next
<1>8. op \notin Completed /\ (op \in Completed' <=> outcome = "completed")
  BY <1>3, <1>5 DEF Completed, op, Outcome, ControllerAfter
<1>9. \A other \in Session \X Operation :
        other # op => (other \in Completed' <=> other \in Completed)
  <2>1. ASSUME NEW t \in Session, NEW k \in Operation, <<t, k>> # op
        PROVE  <<t, k>> \in Completed' <=> <<t, k>> \in Completed
    <3>1. owned'[<<t, k>>] = owned[<<t, k>>]
      BY <1>5, <2>1
    <3>2. CASE t # s
      BY <1>2, <1>5, <3>1, <3>2 DEF Completed
    <3>3. CASE t = s
      BY <1>2, <1>3, <2>1, <3>1, <3>3 DEF Completed, Operation, op
    <3>4. QED
      BY <3>2, <3>3
  <2>2. QED
    BY <2>1
<1>10. [Ledger!Next]_(Ledger!vars)
  BY <1>2, <1>5, <1>8, <1>9, OneOperationEnds
<1>11. QED
  BY <1>6, <1>7, <1>10 DEF Keeps

\* An operation that is owed is attempted again, or its last attempt settles;
\* the pipeline is asked nothing while its shutdown is in flight.
LEMMA SettledKeeps ==
  ASSUME IInv, FlushesAreLate, NEW op \in Session \X Operation, NEW outcome \in Outcome,
         RetryOwed(op, outcome) \/ Settle(op, outcome)
  PROVE  Keeps
<1> USE OutcomeIsOwned DEF IInv, TypeOK
<1>1. PICK s \in Session, k \in Operation : op = <<s, k>>
  OBVIOUS
<1>2. /\ owned[op] \in {"retryable", "settling"}
      /\ outcome = "timedOut" => owned[op] = "retryable"
      /\ owned' = [owned EXCEPT ![op] = OwnedAfter(outcome)]
      /\ controller' = IF k = "shutdown"
                       THEN [controller EXCEPT ![s] = ControllerAfter(outcome)]
                       ELSE controller
      /\ UNCHANGED <<lease, handled>>
      /\ pc' = pc \/ (pc = "resolving" /\ pc' = "idle")
  BY <1>1 DEF RetryOwed, Settle, gauge
<1>3. pc # "configuring" /\ pc' # "configuring"
  BY <1>1, <1>2 DEF Debts
<1>4. /\ \A other \in Session \X Operation : other # op => owned'[other] = owned[other]
      /\ owned'[op] = OwnedAfter(outcome)
      /\ \A t \in Session : t # s \/ k # "shutdown" => controller'[t] = controller[t]
      /\ k = "shutdown" => controller[s] = "unsettled" /\ controller'[s] = ControllerAfter(outcome)
  BY <1>1, <1>2 DEF Pipelines
<1>5. \A t \in Session : controller[t] \in {"unsettled", "shutdown"} =>
        controller'[t] \in {"unsettled", "shutdown"}
  BY <1>4
<1>6. FlushesAreLate'
  <2>1. ASSUME NEW t \in Session, owned'[<<t, "flush">>] # "none"
        PROVE  \/ pc' = "shuttingDown" /\ handled' = t
               \/ controller'[t] \in {"unsettled", "shutdown"} /\ lease'[t] # "none"
    <3>1. owned[<<t, "flush">>] # "none"
      BY <1>2, <1>4, <2>1 DEF Operation
    <3>2. QED
      BY <1>2, <1>5, <3>1 DEF FlushesAreLate
  <2>2. QED
    BY <2>1 DEF FlushesAreLate
<1>7. PipelineSteps
  <2>1. CASE k = "flush"
    <3>1. ASSUME NEW t \in Session
          PROVE  owned'[<<t, "shutdown">>] = owned[<<t, "shutdown">>]
      BY <1>1, <1>4, <2>1 DEF Operation
    <3>2. ASSUME NEW t \in Session
          PROVE  UNCHANGED Contract(t)!vars
      BY <1>2, <1>4, <2>1, <3>1, SameLife
    <3>3. QED
      BY <3>2 DEF PipelineSteps
  <2>2. CASE k = "shutdown"
    <3>1. Contract(s)!End(outcome)
      <4>1. Life(s) = owned[op] /\ controller[s] \in {"started", "unsettled"}
        BY <1>1, <1>4, <2>2 DEF Life
      <4>2. Life(s)' = IF outcome = "completed" THEN "down" ELSE OwnedAfter(outcome)
        BY <1>1, <1>4, <2>2 DEF Life, Outcome, OwnedAfter, ControllerAfter
      <4>3. controller'[s] \in {"started", "unsettled"} <=> outcome # "completed"
        BY <1>4, <2>2 DEF Outcome, ControllerAfter
      <4>4. QED
        BY <1>2, <4>1, <4>2, <4>3
           DEF Contract!End, Contract!Busy, Contract!MayHold, Outcome, OwnedAfter
    <3>2. ASSUME NEW t \in Session, t # s
          PROVE  UNCHANGED Contract(t)!vars
      <4>1. owned'[<<t, "shutdown">>] = owned[<<t, "shutdown">>]
        BY <1>1, <1>4, <3>2 DEF Operation
      <4>2. QED
        BY <1>2, <1>4, <3>2, <4>1, SameLife
    <3>3. outcome \in Contract(s)!Outcome
      BY DEF Contract!Outcome, Outcome
    <3>4. QED
      BY <3>1, <3>2, <3>3 DEF PipelineSteps, Contract!Next
  <2>3. QED
    BY <2>1, <2>2 DEF Operation
<1>8. op \notin Completed
  <2>1. k = "flush" \/ k = "shutdown"
    BY DEF Operation
  <2>2. QED
    BY <1>1, <1>2, <1>4, <2>1 DEF Completed
<1>9. op \in Completed' <=> outcome = "completed"
  <2>1. OwnedAfter(outcome) = "none" <=> outcome = "completed"
    BY DEF Outcome, OwnedAfter
  <2>2. CASE k = "flush"
    <3>1. \/ pc' = "shuttingDown" /\ handled' = s
          \/ controller'[s] \in {"unsettled", "shutdown"} /\ lease'[s] # "none"
      BY <1>1, <1>2, <1>5, <2>2 DEF FlushesAreLate
    <3>2. QED
      BY <1>1, <1>4, <2>1, <2>2, <3>1 DEF Completed
  <2>3. CASE k = "shutdown"
    BY <1>1, <1>4, <2>1, <2>3 DEF Completed
  <2>4. QED
    BY <2>2, <2>3 DEF Operation
<1>10. \A other \in Session \X Operation :
         other # op => (other \in Completed' <=> other \in Completed)
  <2>1. ASSUME NEW t \in Session, NEW l \in Operation, <<t, l>> # op
        PROVE  <<t, l>> \in Completed' <=> <<t, l>> \in Completed
    <3>1. owned'[<<t, l>>] = owned[<<t, l>>]
      BY <1>4, <2>1
    <3>2. /\ controller[t] \in {"unsettled", "shutdown"} <=> controller'[t] \in {"unsettled", "shutdown"}
          /\ l = "shutdown" => controller'[t] = controller[t]
      BY <1>1, <1>4, <2>1 DEF Operation
    <3>3. pc' = "shuttingDown" /\ handled' = t <=> pc = "shuttingDown" /\ handled = t
      BY <1>2
    <3>4. QED
      BY <1>2, <3>1, <3>2, <3>3 DEF Completed
  <2>2. QED
    BY <2>1
<1>11. [Ledger!Next]_(Ledger!vars)
  BY <1>2, <1>3, <1>8, <1>9, <1>10, OneOperationEnds
<1>12. QED
  BY <1>6, <1>7, <1>11 DEF Keeps

\* The handlers use the registry as its ledger allows, and every pipeline as it
\* promises to behave: none is asked for a shutdown while one is in flight, none
\* that is down is asked again, and a start needs a ledger without debts.
THEOREM ContractsAreKept == Spec => KeepsItsContracts
<1>1. Init => FlushesAreLate /\ Ledger!Init /\ \A s \in Session : Contract(s)!Init
  BY DEF Init, FlushesAreLate, Ledger!Init, Owed, Completed, Contract!Init, Life, Operation
<1>2. IInv /\ FlushesAreLate /\ [Next]_vars => Keeps
  <2> SUFFICES ASSUME IInv, FlushesAreLate, [Next]_vars
               PROVE  Keeps
    OBVIOUS
  <2>1. CASE \/ DeliverStart \/ DeliverShutdown
             \/ StartSubagent \/ CompleteSubagent \/ StartWork \/ EndWork
             \/ UNCHANGED vars
    BY <2>1, QuietKeeps
  <2>2. CASE HandlerStep
    <3>1. CASE HandleStart \/ StatusCleared \/ StartDeferred \/ Leave
      BY <3>1, QuietKeeps
    <3>2. CASE HandleShutdown \/ StartGranted
      BY <3>2, DecisionsKeep
    <3>3. CASE ConfigFails \/ ConfigDisabled
      BY <3>3, RefusalsKeep
    <3>4. CASE \E s \in Session : ConfigEnabled(s)
      BY <3>4, ConfigEnabledKeeps
    <3>5. CASE StartupSucceeds \/ StartBookkeepingThrows
      BY <3>5, StartedKeeps
    <3>6. ASSUME NEW outcome \in Outcome,
                 \/ FlushReturns(outcome) \/ ShutdownReturns(outcome)
                 \/ StartupFails(outcome)
          PROVE  Keeps
      BY <3>6, FlushKeeps, ShutdownKeeps, StartupFailsKeeps
    <3>7. ASSUME NEW outcome \in Outcome, NEW op \in Owed, RetryOwed(op, outcome)
          PROVE  Keeps
      BY <3>7, SettledKeeps DEF Owed
    <3>8. QED
      BY <2>2, <3>1, <3>2, <3>3, <3>4, <3>5, <3>6, <3>7 DEF HandlerStep
  <2>3. ASSUME NEW op \in Session \X Operation, NEW outcome \in Outcome, Settle(op, outcome)
        PROVE  Keeps
    BY <2>3, SettledKeeps
  <2>4. QED
    BY <2>1, <2>2, <2>3 DEF Next
<1>3. IInv /\ FlushesAreLate /\ [Next]_vars => FlushesAreLate'
  BY <1>2 DEF Keeps
<1>4. IInv /\ FlushesAreLate /\ [Next]_vars => [PipelineSteps]_vars
  BY <1>2 DEF Keeps
<1>5. IInv /\ FlushesAreLate /\ [Next]_vars => [Ledger!Next]_(Ledger!vars)
  BY <1>2 DEF Keeps
<1>6. QED
  BY <1>1, <1>3, <1>4, <1>5, Inductive, PTL DEF Spec, KeepsItsContracts, Ledger!Spec

=============================================================================
