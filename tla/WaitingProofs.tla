---------------------------- MODULE WaitingProofs ----------------------------
(***************************************************************************)
(* The safety of the four parts that wait, for every number of callers,    *)
(* commands, entries, sessions and options: an inductive invariant for     *)
(* each, and one step of the composition is a step of one part and a       *)
(* stutter of the others.                                                  *)
(***************************************************************************)
EXTENDS MCWaiting, FiniteSetTheorems, SequenceTheorems, TLAPS

-----------------------------------------------------------------------------
(* The controller of a pipeline                                            *)

\* Nothing is acquired but while the composite starts, and before a rollback
\* begins only the signals that are started hold anything.
Starting ==
  /\ state = "starting" <=> composite = "starting"
  /\ state = "starting" => settlement = "none" /\ sdk = "owned" /\ race # "shutdown"
  /\ race # "none" => state \in {"starting", "shutting_down"} /\ settlement = "none"
  /\ state = "starting" /\ race = "none" =>
       /\ starting = Controller!NoSignal
       /\ \A s \in Controller!Signal :
            signals[s] \in {"idle", "started"} /\ (resource[s] = "held" => s \in started)

\* Each way of saying that the pipeline is down says it of the SDK, and an SDK
\* that is given up leaves nothing behind.
Releases ==
  /\ state = "shutdown" \/ cleanup = "completed" \/ (\E c \in Caller : caller[c] = "completed")
       => sdk = "released"
  /\ sdk = "released" => Controller!Held = {}
  /\ \A s \in Controller!Signal : signals[s] = "shutdown" => resource[s] # "held"

\* A run that is under way knows every signal that is owned, and one that was
\* fulfilled has left nothing.
RunsKnowTheirs ==
  \A r \in Controller!Run :
    /\ status[r] = "inFlight" =>
         \A s \in Controller!Signal :
           /\ member[r][s] = "out" <=> s \notin Controller!Owned(started, starting)
           /\ member[r][s] = "fulfilled" => resource[s] # "held"
    /\ status[r] = "fulfilled" => Controller!Held = {}

ControllerIInv ==
  NothingIsLost /\ Starting /\ Releases /\ RunsKnowTheirs

\* The controller begins with nothing acquired and nobody waiting.
LEMMA ControllerInit == PartsInit => ControllerIInv
<1> SUFFICES ASSUME PartsInit
             PROVE  ControllerIInv
  OBVIOUS
<1> USE DEF PartsInit, Controller!Init, Controller!Run, Controller!Signal, Controller!NoSignal
<1>1. NothingIsLost
  BY DEF NothingIsLost, Controller!NothingIsLost, Controller!TypeOK,
     Controller!CompletedMeansReleased, Controller!HeldIsOwned, Controller!RunsNeverOverlap,
     Controller!PendingIsObserved, Controller!Held
<1>2. Starting /\ Releases /\ RunsKnowTheirs
  BY DEF Starting, Releases, RunsKnowTheirs, Controller!Held
<1>3. QED
  BY <1>1, <1>2 DEF ControllerIInv

\* The parts of the invariant, as the lemmas below use and prove them.
LEMMA ControllerParts ==
  ControllerIInv <=>
    /\ Controller!TypeOK /\ Controller!CompletedMeansReleased /\ Controller!HeldIsOwned
    /\ Controller!RunsNeverOverlap /\ Controller!PendingIsObserved
    /\ Starting /\ Releases /\ RunsKnowTheirs
  BY DEF ControllerIInv, NothingIsLost, Controller!NothingIsLost

\* At most one run is under way: the one that is raced or the one whose late
\* settlement is awaited.
LEMMA RunUnderWay ==
  ASSUME Controller!TypeOK, Controller!PendingIsObserved, Starting
  PROVE  \A r, q \in Controller!Run : status[r] # "idle" /\ status[q] # "idle" => r = q
  BY DEF Controller!TypeOK, Controller!PendingIsObserved, Starting, Controller!Run

\* A signal starts, or fails to and is rolled back with the ones before it.
LEMMA SignalStartsIInv ==
  ASSUME ControllerIInv, NEW s \in Controller!Signal,
         Controller!SignalStarts(s) \/ Controller!SignalFailsToStart(s)
  PROVE  ControllerIInv'
<1> USE ControllerParts
    DEF Controller!TypeOK, Controller!Run, Controller!Signal, Controller!NoSignal
<1>1. /\ composite = "starting" /\ state = "starting" /\ race = "none" /\ settlement = "none"
      /\ starting = Controller!NoSignal /\ sdk = "owned"
      /\ composite' = composite /\ state' = state /\ settlement' = settlement /\ sdk' = sdk
      /\ caller' = caller /\ cleanup' = cleanup
  BY DEF Controller!SignalStarts, Controller!SignalFailsToStart, Controller!NextToStart, Starting
<1>2. \A r \in Controller!Run : status[r] = "idle"
  BY <1>1 DEF Controller!PendingIsObserved
<1>3. PICK held \in {"none", "held"} : resource' = [resource EXCEPT ![s] = held]
  BY DEF Controller!SignalStarts, Controller!SignalFailsToStart, Controller!Acquires
<1>4. ~ (state = "shutdown" \/ cleanup = "completed" \/ \E c \in Caller : caller[c] = "completed")
  BY <1>1 DEF Releases
<1>5. CASE Controller!SignalStarts(s)
  <2> USE <1>5 DEF Controller!SignalStarts
  <2>1. Controller!TypeOK'
    BY <1>3
  <2>2. Controller!CompletedMeansReleased'
    BY <1>1, <1>4 DEF Controller!CompletedMeansReleased
  <2>3. Controller!HeldIsOwned'
    BY <1>1, <1>3 DEF Controller!HeldIsOwned, Controller!Held, Controller!Owned
  <2>4. Controller!RunsNeverOverlap' /\ Controller!PendingIsObserved'
    BY <1>1 DEF Controller!RunsNeverOverlap, Controller!PendingIsObserved
  <2>5. Starting'
    BY <1>1, <1>3 DEF Starting
  <2>6. Releases'
    BY <1>1, <1>3, <1>4 DEF Releases
  <2>7. RunsKnowTheirs'
    BY <1>2 DEF RunsKnowTheirs
  <2>8. QED
    BY <2>1, <2>2, <2>3, <2>4, <2>5, <2>6, <2>7 DEF ControllerIInv, NothingIsLost,
       Controller!NothingIsLost
<1>6. CASE Controller!SignalFailsToStart(s)
  <2> USE <1>6 DEF Controller!SignalFailsToStart
  <2>1. /\ status' = [status EXCEPT !["rollback"] = "inFlight"] /\ race' = "rollback"
        /\ signals' = Controller!Asked(Controller!Owned(started, s))
        /\ started' = started /\ starting' = s
        /\ member' = [member EXCEPT !["rollback"] =
                        [t \in Controller!Signal |->
                           IF t \notin Controller!Owned(started, s) THEN "out"
                           ELSE IF signals[t] = "shutdown" THEN "fulfilled" ELSE "running"]]
    BY DEF Controller!BeginRun
  <2>2. \A t \in Controller!Signal : signals[t] # "shutdown" /\ signals'[t] # "shutdown"
    BY <1>1, <2>1 DEF Starting, Controller!Asked
  <2>3. signals' \in [Controller!Signal -> {"idle", "started", "shutting_down",
                                            "shutdown_failed", "shutdown"}]
    BY <2>1 DEF Controller!Asked
  <2>4. Controller!TypeOK'
    BY <1>3, <2>1, <2>3
  <2>5. Controller!CompletedMeansReleased'
    BY <1>1, <1>4 DEF Controller!CompletedMeansReleased
  <2>6. Controller!HeldIsOwned'
    BY <1>1, <1>3, <2>1 DEF Controller!HeldIsOwned, Controller!Held, Controller!Owned
  <2>7. Controller!RunsNeverOverlap' /\ Controller!PendingIsObserved'
    BY <1>1, <1>2, <2>1 DEF Controller!RunsNeverOverlap, Controller!PendingIsObserved
  <2>8. Starting'
    BY <1>1, <2>1 DEF Starting
  <2>9. Releases'
    BY <1>1, <1>4, <2>2 DEF Releases
  <2>10. RunsKnowTheirs'
    <3>1. \A t \in Controller!Signal :
             /\ member'["rollback"][t] # "fulfilled"
             /\ member'["rollback"][t] = "out" <=> t \notin Controller!Owned(started', starting')
      BY <2>1, <2>2
    <3>2. status'["rollback"] = "inFlight" /\ status'["shutdown"] = "idle"
      BY <1>2, <2>1
    <3>3. QED
      BY <3>1, <3>2 DEF RunsKnowTheirs
  <2>11. QED
    BY <2>4, <2>5, <2>6, <2>7, <2>8, <2>9, <2>10 DEF ControllerIInv, NothingIsLost,
       Controller!NothingIsLost
<1>7. QED
  BY <1>5, <1>6

LEMMA AllStartedIInv ==
  ASSUME ControllerIInv, Controller!AllStarted
  PROVE  ControllerIInv'
<1> USE ControllerParts
    DEF Controller!TypeOK, Controller!Run, Controller!Signal, Controller!NoSignal,
        Controller!AllStarted
<1>1. Controller!TypeOK'
  OBVIOUS
<1>2. /\ Controller!CompletedMeansReleased' /\ Controller!HeldIsOwned'
      /\ Controller!RunsNeverOverlap' /\ Controller!PendingIsObserved'
  BY DEF Controller!CompletedMeansReleased, Controller!HeldIsOwned, Controller!RunsNeverOverlap,
     Controller!PendingIsObserved, Controller!Held, Controller!Owned
<1>3. Starting'
  BY DEF Starting
<1>4. Releases' /\ RunsKnowTheirs'
  BY DEF Releases, RunsKnowTheirs, Controller!Held, Controller!Owned
<1>5. QED
  BY <1>1, <1>2, <1>3, <1>4 DEF ControllerIInv, NothingIsLost,
     Controller!NothingIsLost

\* A signal settles: what it held is released, or it stays what the next
\* shutdown asks for.
LEMMA SignalSettlesIInv ==
  ASSUME ControllerIInv, NEW s \in Controller!Signal, NEW ok \in BOOLEAN,
         Controller!SignalSettles(s, ok)
  PROVE  ControllerIInv'
<1> USE ControllerParts
    DEF Controller!TypeOK, Controller!Run, Controller!Signal, Controller!NoSignal,
        Controller!SignalSettles
<1>1. Controller!StateAfter(ok) \in {"shutdown", "shutdown_failed"}
      /\ (Controller!StateAfter(ok) = "shutdown" <=> ok)
  BY DEF Controller!StateAfter
<1>2. /\ signals' = [signals EXCEPT ![s] = Controller!StateAfter(ok)]
      /\ resource' = IF ok THEN [resource EXCEPT ![s] = "released"] ELSE resource
  OBVIOUS
<1>3. \A r \in Controller!Run, t \in Controller!Signal :
        member'[r][t] = IF t = s /\ member[r][t] = "running"
                        THEN (IF ok THEN "fulfilled" ELSE "rejected") ELSE member[r][t]
  OBVIOUS
<1>4. member' \in [Controller!Run -> [Controller!Signal -> {"out", "running", "fulfilled", "rejected"}]]
  OBVIOUS
<1>5. Controller!TypeOK'
  BY <1>1, <1>2, <1>4
<1>6. Controller!Held' \subseteq Controller!Held /\ (ok => resource'[s] # "held")
  BY <1>2 DEF Controller!Held
<1>7. /\ Controller!CompletedMeansReleased' /\ Controller!HeldIsOwned'
      /\ Controller!RunsNeverOverlap' /\ Controller!PendingIsObserved'
  BY <1>6 DEF Controller!CompletedMeansReleased, Controller!HeldIsOwned,
     Controller!RunsNeverOverlap, Controller!PendingIsObserved, Controller!Owned
<1>8. Starting'
  <2>1. ~ (state = "starting" /\ race = "none")
    BY DEF Starting
  <2>2. QED
    BY <2>1 DEF Starting
<1>9. Releases'
  BY <1>1, <1>2, <1>6 DEF Releases
<1>10. RunsKnowTheirs'
  BY <1>2, <1>3, <1>6 DEF RunsKnowTheirs, Controller!Owned
<1>11. QED
  BY <1>5, <1>7, <1>8, <1>9, <1>10 DEF ControllerIInv, NothingIsLost,
     Controller!NothingIsLost

\* A run settles: what was fulfilled is not owned any more and holds nothing.
LEMMA RunSettlesIInv ==
  ASSUME ControllerIInv, NEW r \in Controller!Run, Controller!RunSettles(r)
  PROVE  ControllerIInv'
<1> USE ControllerParts
    DEF Controller!TypeOK, Controller!Run, Controller!Signal, Controller!NoSignal,
        Controller!RunSettles
<1> DEFINE done == {s \in Controller!Signal : member[r][s] = "fulfilled"}
           ok   == \A s \in Controller!Signal : member[r][s] # "rejected"
<1>1. /\ status[r] = "inFlight"
      /\ started' = started \ done
      /\ starting' = IF starting \in done THEN Controller!NoSignal ELSE starting
      /\ status' = [status EXCEPT ![r] = IF ok THEN "fulfilled" ELSE "rejected"]
      /\ composite' = IF r = "rollback" THEN composite
                      ELSE IF ok THEN "shutdown" ELSE "shutdown_failed"
  OBVIOUS
<1>2. Controller!Owned(started', starting') = Controller!Owned(started, starting) \ done
  BY <1>1 DEF Controller!Owned
<1>3. done \cap Controller!Held = {}
  BY <1>1 DEF RunsKnowTheirs, Controller!Held
<1>4. ok => Controller!Held = {}
  <2>1. \A s \in Controller!Signal :
          ok => member[r][s] \in {"out", "fulfilled"}
    OBVIOUS
  <2>2. QED
    BY <1>1, <1>3, <2>1 DEF RunsKnowTheirs, Controller!HeldIsOwned, Controller!Held
<1>5. Controller!TypeOK'
  BY <1>1
<1>6. Controller!Held' = Controller!Held
  BY DEF Controller!Held
<1>7. Controller!CompletedMeansReleased' /\ Controller!HeldIsOwned'
  BY <1>2, <1>3, <1>6 DEF Controller!CompletedMeansReleased, Controller!HeldIsOwned
<1>8. Controller!RunsNeverOverlap' /\ Controller!PendingIsObserved'
  BY <1>1, RunUnderWay DEF Controller!RunsNeverOverlap, Controller!PendingIsObserved
<1>9. Starting'
  BY <1>1 DEF Starting, Controller!PendingIsObserved
<1>10. Releases'
  BY <1>6 DEF Releases
<1>11. RunsKnowTheirs'
  <2>1. \A q \in Controller!Run : q # r => status'[q] = "idle"
    BY <1>1, RunUnderWay
  <2>2. status'[r] \in {"fulfilled", "rejected"} /\ (status'[r] = "fulfilled" => ok)
    BY <1>1
  <2>3. QED
    BY <1>4, <1>6, <2>1, <2>2 DEF RunsKnowTheirs
<1>12. QED
  BY <1>5, <1>7, <1>8, <1>9, <1>10, <1>11 DEF ControllerIInv, NothingIsLost,
     Controller!NothingIsLost

\* A caller is answered, or begins a shutdown of everything that is owned.
LEMMA ShutdownIInv ==
  ASSUME ControllerIInv, NEW c \in Caller, Controller!Shutdown(c)
  PROVE  ControllerIInv'
<1> USE ControllerParts
    DEF Controller!TypeOK, Controller!Run, Controller!Signal, Controller!NoSignal
<1>1. UNCHANGED <<sdk, cleanup, settlement, started, starting, resource>>
  BY DEF Controller!Shutdown
<1>2. Controller!Held' = Controller!Held
        /\ Controller!Owned(started', starting') = Controller!Owned(started, starting)
  BY <1>1 DEF Controller!Held, Controller!Owned
<1>3. ASSUME NEW result \in {"completed", "waiting", "timedOut"}, Controller!AnswerAtOnce(c, result),
             result = "completed" => sdk = "released"
      PROVE  ControllerIInv'
  <2> USE <1>1, <1>3 DEF Controller!AnswerAtOnce
  <2>1. Controller!TypeOK'
    OBVIOUS
  <2>2. /\ Controller!CompletedMeansReleased' /\ Controller!HeldIsOwned'
        /\ Controller!RunsNeverOverlap' /\ Controller!PendingIsObserved'
    BY <1>2 DEF Releases, Controller!CompletedMeansReleased, Controller!HeldIsOwned,
       Controller!RunsNeverOverlap, Controller!PendingIsObserved
  <2>3. Starting'
    BY DEF Starting
  <2>4. Releases' /\ RunsKnowTheirs'
    BY <1>2 DEF Releases, RunsKnowTheirs
  <2>5. QED
    BY <2>1, <2>2, <2>3, <2>4 DEF ControllerIInv, NothingIsLost,
       Controller!NothingIsLost
<1>4. ASSUME Controller!MayBegin, state' = "shutting_down", composite' = "shutting_down",
             caller' = [caller EXCEPT ![c] = "waiting"], race' = "shutdown",
             Controller!BeginRun("shutdown", Controller!Owned(started, starting))
      PROVE  ControllerIInv'
  <2> USE <1>1, <1>4 DEF Controller!MayBegin
  <2> DEFINE owned == Controller!Owned(started, starting)
  <2>1. /\ status' = [status EXCEPT !["shutdown"] = "inFlight"]
        /\ signals' = Controller!Asked(owned)
        /\ member' = [member EXCEPT !["shutdown"] =
                        [t \in Controller!Signal |->
                           IF t \notin owned THEN "out"
                           ELSE IF signals[t] = "shutdown" THEN "fulfilled" ELSE "running"]]
    BY DEF Controller!BeginRun
  <2>2. race = "none" /\ \A r \in Controller!Run : status[r] = "idle"
    BY DEF Starting, Controller!PendingIsObserved
  <2>3. signals' \in [Controller!Signal -> {"idle", "started", "shutting_down",
                                            "shutdown_failed", "shutdown"}]
        /\ \A t \in Controller!Signal : signals'[t] = "shutdown" => signals[t] = "shutdown"
    BY <2>1 DEF Controller!Asked
  <2>4. Controller!TypeOK'
    BY <2>1, <2>3
  <2>5. Controller!CompletedMeansReleased' /\ Controller!HeldIsOwned'
    BY <1>2 DEF Controller!CompletedMeansReleased, Controller!HeldIsOwned
  <2>6. Controller!RunsNeverOverlap' /\ Controller!PendingIsObserved'
    BY <2>1, <2>2 DEF Controller!RunsNeverOverlap, Controller!PendingIsObserved
  <2>7. Starting'
    BY DEF Starting
  <2>8. Releases'
    BY <1>2, <2>3 DEF Releases
  <2>9. RunsKnowTheirs'
    <3>1. \A t \in Controller!Signal :
             /\ member'["shutdown"][t] = "out" <=> t \notin Controller!Owned(started', starting')
             /\ member'["shutdown"][t] = "fulfilled" => resource'[t] # "held"
      BY <1>2, <2>1 DEF Releases
    <3>2. status'["shutdown"] = "inFlight" /\ status'["rollback"] = "idle"
      BY <2>1, <2>2
    <3>3. QED
      BY <3>1, <3>2 DEF RunsKnowTheirs
  <2>10. QED
    BY <2>4, <2>5, <2>6, <2>7, <2>8, <2>9 DEF ControllerIInv, NothingIsLost,
       Controller!NothingIsLost
<1>5. QED
  BY <1>3, <1>4 DEF Controller!Shutdown, Releases

\* The outcome of a run reaches the controller, in time, as a timeout, or late.
LEMMA ResultIInv ==
  ASSUME ControllerIInv, NEW r \in Controller!Run,
         Controller!ResultInTime(r) \/ Controller!TimedOut(r) \/ Controller!LateResult(r)
  PROVE  ControllerIInv'
<1> USE ControllerParts
    DEF Controller!TypeOK, Controller!Run, Controller!Signal, Controller!NoSignal
<1>1. UNCHANGED <<started, starting, signals, resource, member>>
  BY DEF Controller!ResultInTime, Controller!TimedOut, Controller!LateResult
<1>2. Controller!Held' = Controller!Held
        /\ Controller!Owned(started', starting') = Controller!Owned(started, starting)
  BY <1>1 DEF Controller!Held, Controller!Owned
<1>3. ASSUME NEW result, Controller!Answer(result)
      PROVE  \A c \in Caller : caller'[c] \in {caller[c], result}
  BY <1>3 DEF Controller!Answer
<1>4. caller' \in [Caller -> {"idle", "waiting", "completed", "failed", "timedOut"}]
  BY DEF Controller!ResultInTime, Controller!TimedOut, Controller!LateResult, Controller!Answer
<1>5. \/ status' = [status EXCEPT ![r] = "idle"] /\ race' # r /\ settlement' # r
      \/ status' = status /\ status[r] = "inFlight" /\ race = r /\ race' = "none" /\ settlement' = r
  BY DEF Controller!ResultInTime, Controller!TimedOut, Controller!LateResult, Starting
<1>6. sdk' = "released" => sdk = "released" \/ status[r] = "fulfilled"
  BY DEF Controller!ResultInTime, Controller!TimedOut, Controller!LateResult
<1>7. Controller!TypeOK'
  BY <1>1, <1>4, <1>5 DEF Controller!ResultInTime, Controller!TimedOut, Controller!LateResult
<1>8. sdk' = "released" => Controller!Held' = {}
  BY <1>2, <1>6 DEF Releases, RunsKnowTheirs
<1>9. state' = "shutdown" \/ cleanup' = "completed" \/ (\E c \in Caller : caller'[c] = "completed")
        => sdk' = "released"
  BY <1>3 DEF Controller!ResultInTime, Controller!TimedOut, Controller!LateResult, Releases
<1>10. Controller!CompletedMeansReleased' /\ Controller!HeldIsOwned'
  BY <1>2, <1>8, <1>9 DEF Controller!CompletedMeansReleased, Controller!HeldIsOwned
<1>11. Controller!RunsNeverOverlap' /\ Controller!PendingIsObserved'
  BY <1>5 DEF Controller!ResultInTime, Controller!TimedOut, Controller!LateResult, Starting,
     Controller!RunsNeverOverlap, Controller!PendingIsObserved
<1>12. Starting'
  BY <1>1 DEF Controller!ResultInTime, Controller!TimedOut, Controller!LateResult, Starting
<1>13. Releases'
  BY <1>1, <1>8, <1>9 DEF Releases
<1>14. RunsKnowTheirs'
  BY <1>1, <1>2, <1>5 DEF RunsKnowTheirs
<1>15. QED
  BY <1>7, <1>10, <1>11, <1>12, <1>13, <1>14 DEF ControllerIInv, NothingIsLost,
     Controller!NothingIsLost

LEMMA ControllerStep ==
  ASSUME ControllerIInv, Controller!Next
  PROVE  ControllerIInv'
  BY SignalStartsIInv, SignalSettlesIInv, AllStartedIInv, RunSettlesIInv, ResultIInv, ShutdownIInv
  DEF Controller!Next

LEMMA ControllerStutters ==
  ASSUME ControllerIInv, UNCHANGED controllerVars
  PROVE  ControllerIInv'
<1> USE ControllerParts DEF controllerVars
<1>1. Controller!TypeOK'
  BY DEF Controller!TypeOK
<1>2. Controller!Held' = Controller!Held
        /\ Controller!Owned(started', starting') = Controller!Owned(started, starting)
  BY DEF Controller!Held, Controller!Owned
<1>3. /\ Controller!CompletedMeansReleased' /\ Controller!HeldIsOwned'
      /\ Controller!RunsNeverOverlap' /\ Controller!PendingIsObserved'
  BY <1>2 DEF Controller!CompletedMeansReleased, Controller!HeldIsOwned,
     Controller!RunsNeverOverlap, Controller!PendingIsObserved
<1>4. Starting' /\ Releases' /\ RunsKnowTheirs'
  BY <1>2 DEF Starting, Releases, RunsKnowTheirs
<1>5. QED
  BY <1>1, <1>3, <1>4 DEF ControllerIInv, NothingIsLost,
     Controller!NothingIsLost

-----------------------------------------------------------------------------
(* The controller keeps the promise of a pipeline                          *)

\* Which run is raced, and which is awaited, as the state of the controller and
\* the result of its rollback tell it.
Phases ==
  /\ race = "rollback" => state = "starting"
  /\ race = "shutdown" <=> state = "shutting_down"
  /\ settlement = "rollback" <=> state = "failed" /\ cleanup = "timedOut"
  /\ settlement = "shutdown" <=> state = "shutdown_pending"
  /\ state = "failed" => cleanup # "none"
  /\ cleanup = "timedOut" => state = "failed"

\* A signal that shuts down does so for a run that is in flight.
ShutdownsAreAwaited ==
  \A s \in Controller!Signal :
    signals[s] = "shutting_down" =>
      \E r \in Controller!Run : status[r] = "inFlight" /\ member[r][s] = "running"

AttemptsAreKnown == Phases /\ ShutdownsAreAwaited

\* A step of the contract, or none.
ContractStep == [Controller!Contract!Next]_(Controller!Contract!vars)

LEMMA PhasesKept ==
  ASSUME ControllerIInv, Phases, Controller!Next
  PROVE  Phases'
<1> USE ControllerParts DEF Controller!TypeOK, Controller!Run, Phases
<1>1. ASSUME NEW s \in Controller!Signal,
             \/ Controller!SignalStarts(s) \/ Controller!SignalFailsToStart(s)
             \/ Controller!SignalSettles(s, TRUE) \/ Controller!SignalSettles(s, FALSE)
      PROVE  Phases'
  BY <1>1 DEF Controller!SignalStarts, Controller!SignalFailsToStart, Controller!SignalSettles,
     Starting
<1>2. CASE Controller!AllStarted
  BY <1>2 DEF Controller!AllStarted, Starting
<1>3. ASSUME NEW r \in Controller!Run, Controller!RunSettles(r)
      PROVE  Phases'
  BY <1>3 DEF Controller!RunSettles
<1>4. ASSUME NEW r \in Controller!Run, Controller!ResultInTime(r)
      PROVE  Phases'
  BY <1>4 DEF Controller!ResultInTime, Starting
<1>5. ASSUME NEW r \in Controller!Run, Controller!TimedOut(r)
      PROVE  Phases'
  BY <1>5 DEF Controller!TimedOut, Starting
<1>6. ASSUME NEW r \in Controller!Run, Controller!LateResult(r)
      PROVE  Phases'
  BY <1>6 DEF Controller!LateResult, Starting
<1>7. ASSUME NEW c \in Caller, Controller!Shutdown(c)
      PROVE  Phases'
  BY <1>7 DEF Controller!Shutdown, Controller!AnswerAtOnce, Controller!MayBegin, Starting
<1>8. QED
  BY <1>1, <1>2, <1>3, <1>4, <1>5, <1>6, <1>7 DEF Controller!Next

\* While nothing is raced and nothing awaited, no signal shuts down.
LEMMA NothingShutsDown ==
  ASSUME ControllerIInv, ShutdownsAreAwaited, race = "none", settlement = "none"
  PROVE  \A s \in Controller!Signal : signals[s] # "shutting_down"
  BY ControllerParts DEF ShutdownsAreAwaited, Controller!PendingIsObserved, Controller!Run

\* A run that begins when no signal shuts down awaits each one it asks.
LEMMA RunAwaits ==
  ASSUME ControllerIInv, NEW r \in Controller!Run, NEW owned, Controller!BeginRun(r, owned),
         \A s \in Controller!Signal : signals[s] # "shutting_down"
  PROVE  ShutdownsAreAwaited'
<1> USE ControllerParts DEF Controller!TypeOK
<1>1. status'[r] = "inFlight"
  BY DEF Controller!BeginRun
<1>2. ASSUME NEW s \in Controller!Signal, signals'[s] = "shutting_down"
      PROVE  s \in owned /\ signals[s] # "shutdown"
  BY <1>2 DEF Controller!BeginRun, Controller!Asked
<1>3. ASSUME NEW s \in Controller!Signal, signals'[s] = "shutting_down"
      PROVE  member'[r][s] = "running"
  BY <1>2, <1>3 DEF Controller!BeginRun
<1>4. QED
  BY <1>1, <1>3 DEF ShutdownsAreAwaited

LEMMA AwaitedKept ==
  ASSUME ControllerIInv, AttemptsAreKnown, Controller!Next
  PROVE  ShutdownsAreAwaited'
<1> USE ControllerParts DEF Controller!TypeOK, AttemptsAreKnown
<1>1. ASSUME NEW s \in Controller!Signal, Controller!SignalStarts(s)
      PROVE  ShutdownsAreAwaited'
  BY <1>1 DEF Controller!SignalStarts, ShutdownsAreAwaited
<1>2. ASSUME NEW s \in Controller!Signal, Controller!SignalFailsToStart(s)
      PROVE  ShutdownsAreAwaited'
  <2>1. race = "none" /\ settlement = "none"
    BY <1>2 DEF Controller!SignalFailsToStart, Starting
  <2>2. "rollback" \in Controller!Run
    BY DEF Controller!Run
  <2>3. QED
    BY <1>2, <2>1, <2>2, NothingShutsDown, RunAwaits DEF Controller!SignalFailsToStart
<1>3. ASSUME NEW s \in Controller!Signal, NEW ok \in BOOLEAN, Controller!SignalSettles(s, ok)
      PROVE  ShutdownsAreAwaited'
  <2>1. signals'[s] # "shutting_down" /\ status' = status
    BY <1>3 DEF Controller!SignalSettles, Controller!StateAfter
  <2>2. \A t \in Controller!Signal : t # s =>
          signals'[t] = signals[t] /\ \A r \in Controller!Run : member'[r][t] = member[r][t]
    BY <1>3 DEF Controller!SignalSettles
  <2>3. QED
    BY <2>1, <2>2 DEF ShutdownsAreAwaited
<1>4. CASE Controller!AllStarted
  BY <1>4 DEF Controller!AllStarted, ShutdownsAreAwaited
<1>5. ASSUME NEW r \in Controller!Run, Controller!RunSettles(r)
      PROVE  ShutdownsAreAwaited'
  <2>1. \A q \in Controller!Run : status[q] = "inFlight" => q = r
    BY <1>5, RunUnderWay DEF Controller!RunSettles
  <2>2. \A s \in Controller!Signal : signals[s] # "shutting_down"
    BY <1>5, <2>1 DEF Controller!RunSettles, ShutdownsAreAwaited
  <2>3. QED
    BY <1>5, <2>2 DEF Controller!RunSettles, ShutdownsAreAwaited
<1>6. ASSUME NEW r \in Controller!Run,
             Controller!ResultInTime(r) \/ Controller!TimedOut(r) \/ Controller!LateResult(r)
      PROVE  ShutdownsAreAwaited'
  <2>1. UNCHANGED <<signals, member>>
    BY <1>6 DEF Controller!ResultInTime, Controller!TimedOut, Controller!LateResult
  <2>2. \A q \in Controller!Run : status[q] = "inFlight" => status'[q] = "inFlight"
    BY <1>6 DEF Controller!ResultInTime, Controller!TimedOut, Controller!LateResult
  <2>3. QED
    BY <2>1, <2>2 DEF ShutdownsAreAwaited
<1>7. ASSUME NEW c \in Caller, Controller!Shutdown(c)
      PROVE  ShutdownsAreAwaited'
  <2>1. CASE UNCHANGED <<signals, member, status>>
    BY <2>1 DEF ShutdownsAreAwaited
  <2>2. CASE Controller!MayBegin /\ Controller!BeginRun("shutdown", Controller!Owned(started, starting))
    <3>1. race = "none" /\ settlement = "none"
      BY <2>2 DEF Controller!MayBegin, Starting
    <3>2. "shutdown" \in Controller!Run
      BY DEF Controller!Run
    <3>3. QED
      BY <2>2, <3>1, <3>2, NothingShutsDown, RunAwaits
  <2>3. QED
    BY <1>7, <2>1, <2>2 DEF Controller!Shutdown, Controller!AnswerAtOnce
<1>8. QED
  BY <1>1, <1>2, <1>3, <1>4, <1>5, <1>6, <1>7 DEF Controller!Next

\* A step that moves the controller no further, and may release exporters while
\* an attempt is in flight.
LEMMA SameLife ==
  ASSUME Controller!Life' = Controller!Life,
         \/ Controller!Held' = Controller!Held
         \/ /\ Controller!Life \in {"starting", "closing", "settling"}
            /\ Controller!Life = "starting" \/ Controller!Held' \subseteq Controller!Held
  PROVE  ContractStep
<1>1. CASE Controller!Held' = Controller!Held
  BY <1>1 DEF ContractStep, Controller!Contract!vars
<1>2. CASE /\ Controller!Life \in {"starting", "closing", "settling"}
           /\ Controller!Life = "starting" \/ Controller!Held' \subseteq Controller!Held
  <2>1. Controller!Held' # {} => Controller!Held # {} \/ Controller!Life = "starting"
    BY <1>2
  <2>2. Controller!Contract!Progress
    BY <1>2, <2>1 DEF Controller!Contract!Progress, Controller!Contract!Busy, Controller!Contract!MayHold
  <2>3. QED
    BY <2>2 DEF ContractStep, Controller!Contract!Next
<1>3. QED
  BY <1>1, <1>2

\* The signals start, are rolled back and shut down as a pipeline may.
LEMMA SignalsKeepContract ==
  ASSUME ControllerIInv, AttemptsAreKnown, NEW s \in Controller!Signal,
         \/ Controller!SignalStarts(s) \/ Controller!SignalFailsToStart(s)
         \/ Controller!SignalSettles(s, TRUE) \/ Controller!SignalSettles(s, FALSE)
  PROVE  ContractStep
<1> USE ControllerParts DEF Controller!TypeOK, AttemptsAreKnown
<1>1. UNCHANGED <<state, cleanup>>
  BY DEF Controller!SignalStarts, Controller!SignalFailsToStart, Controller!SignalSettles
<1>2. Controller!Life' = Controller!Life
  BY <1>1 DEF Controller!Life
<1>3. CASE Controller!SignalStarts(s) \/ Controller!SignalFailsToStart(s)
  <2>1. state = "starting"
    BY <1>3 DEF Controller!SignalStarts, Controller!SignalFailsToStart, Starting
  <2>2. Controller!Life = "starting"
    BY <2>1 DEF Controller!Life
  <2>3. QED
    BY <1>2, <2>2, SameLife
<1>4. ASSUME NEW ok \in BOOLEAN, Controller!SignalSettles(s, ok)
      PROVE  ContractStep
  <2>1. Controller!Held' \subseteq Controller!Held
    BY <1>4 DEF Controller!SignalSettles, Controller!Held
  <2>2. race # "none" \/ settlement # "none"
    BY <1>4, NothingShutsDown DEF Controller!SignalSettles
  <2>3. Controller!Life \in {"starting", "closing", "settling"}
    BY <2>2 DEF Phases, Controller!Life, Controller!Run
  <2>4. QED
    BY <1>2, <2>1, <2>3, SameLife
<1>5. QED
  BY <1>3, <1>4

\* A shutdown begins only over a pipeline that is started or may be asked again.
LEMMA ShutdownKeepsContract ==
  ASSUME ControllerIInv, AttemptsAreKnown, NEW c \in Caller, Controller!Shutdown(c)
  PROVE  ContractStep
<1> USE ControllerParts DEF Controller!TypeOK, AttemptsAreKnown
<1>1. Controller!Held' = Controller!Held /\ cleanup' = cleanup
  BY DEF Controller!Shutdown, Controller!Held
<1>2. CASE state' = state
  <2>1. Controller!Life' = Controller!Life
    BY <1>1, <1>2 DEF Controller!Life
  <2>2. QED
    BY <1>1, <2>1, SameLife
<1>3. CASE Controller!MayBegin /\ state' = "shutting_down"
  <2>1. Controller!Life \in {"started", "retryable"} /\ Controller!Life' = "closing"
    BY <1>3 DEF Controller!MayBegin, Phases, Controller!Life
  <2>2. Controller!Contract!Close
    BY <1>1, <2>1 DEF Controller!Contract!Close
  <2>3. QED
    BY <2>2 DEF ContractStep, Controller!Contract!Next
<1>4. QED
  BY <1>2, <1>3 DEF Controller!Shutdown, Controller!AnswerAtOnce

\* An attempt ends as the pipeline may: completed only with nothing held.
LEMMA ResultKeepsContract ==
  ASSUME ControllerIInv, AttemptsAreKnown, NEW r \in Controller!Run,
         Controller!ResultInTime(r) \/ Controller!TimedOut(r) \/ Controller!LateResult(r)
  PROVE  ContractStep
<1> USE ControllerParts DEF Controller!TypeOK, AttemptsAreKnown, Controller!Run
<1>1. Controller!Held' = Controller!Held
  BY DEF Controller!ResultInTime, Controller!TimedOut, Controller!LateResult, Controller!Held
<1>2. CASE Controller!TimedOut(r)
  <2>1. Controller!Life \in {"starting", "closing"} /\ Controller!Life' = "settling"
    BY <1>2 DEF Controller!TimedOut, Phases, Controller!Life
  <2>2. Controller!Contract!End("timedOut")
    BY <1>1, <2>1 DEF Controller!Contract!End, Controller!Contract!Busy, Controller!Contract!MayHold
  <2>3. QED
    BY <2>2 DEF ContractStep, Controller!Contract!Next, Controller!Contract!Outcome
<1>3. CASE Controller!ResultInTime(r) \/ Controller!LateResult(r)
  <2>1. status[r] \in {"fulfilled", "rejected"}
    BY <1>3 DEF Controller!ResultInTime, Controller!LateResult
  <2>2. Controller!Life \in {"starting", "closing", "settling"}
    BY <1>3 DEF Controller!ResultInTime, Controller!LateResult, Phases, Controller!Life
  <2>3. CASE status[r] = "fulfilled"
    <3>1. Controller!Held = {}
      BY <2>3 DEF RunsKnowTheirs
    <3>2. Controller!Life' = "down"
      BY <1>3, <2>3 DEF Controller!ResultInTime, Controller!LateResult, Phases, Controller!Life
    <3>3. Controller!Contract!End("completed")
      BY <1>1, <2>2, <3>1, <3>2
         DEF Controller!Contract!End, Controller!Contract!Busy, Controller!Contract!MayHold
    <3>4. QED
      BY <3>3 DEF ContractStep, Controller!Contract!Next, Controller!Contract!Outcome
  <2>4. CASE status[r] = "rejected"
    <3>1. Controller!Life' = "retryable"
      BY <1>3, <2>4 DEF Controller!ResultInTime, Controller!LateResult, Phases, Controller!Life
    <3>2. Controller!Contract!End("failed")
      BY <1>1, <2>2, <3>1
         DEF Controller!Contract!End, Controller!Contract!Busy, Controller!Contract!MayHold
    <3>3. QED
      BY <3>2 DEF ContractStep, Controller!Contract!Next, Controller!Contract!Outcome
  <2>5. QED
    BY <2>1, <2>3, <2>4
<1>4. QED
  BY <1>2, <1>3

LEMMA ControllerKeepsContract ==
  ASSUME ControllerIInv, AttemptsAreKnown, Controller!Next
  PROVE  ContractStep
<1>1. CASE Controller!AllStarted
  <2>1. Controller!Life = "starting" /\ Controller!Life' = "started" /\ Controller!Held' = Controller!Held
    BY <1>1, ControllerParts DEF Controller!AllStarted, Controller!Life, Controller!Held, Starting
  <2>2. Controller!Contract!Started
    BY <2>1 DEF Controller!Contract!Started, Controller!Contract!MayHold
  <2>3. QED
    BY <2>2 DEF ContractStep, Controller!Contract!Next
<1>2. ASSUME NEW r \in Controller!Run, Controller!RunSettles(r)
      PROVE  ContractStep
  <2>1. Controller!Life' = Controller!Life /\ Controller!Held' = Controller!Held
    BY <1>2 DEF Controller!RunSettles, Controller!Life, Controller!Held
  <2>2. QED
    BY <2>1, SameLife
<1>3. QED
  BY <1>1, <1>2, SignalsKeepContract, ShutdownKeepsContract, ResultKeepsContract
  DEF Controller!Next

\* A step of another part leaves the controller and its contract alone.
LEMMA ControllerRests ==
  ASSUME AttemptsAreKnown, UNCHANGED controllerVars
  PROVE  AttemptsAreKnown' /\ ContractStep
<1> USE DEF controllerVars
<1>1. AttemptsAreKnown'
  BY DEF AttemptsAreKnown, Phases, ShutdownsAreAwaited
<1>2. Controller!Life' = Controller!Life /\ Controller!Held' = Controller!Held
  BY DEF Controller!Life, Controller!Held
<1>3. QED
  BY <1>1, <1>2, SameLife

-----------------------------------------------------------------------------
(* /obs backfill                                                           *)

BackfillTypes ==
  /\ step \in {"idle", "loading", "confirming", "waiting", "reading", "setup", "emitting",
              "flushing", "stopping", "over"}
  /\ pending \in {"none", "failed", "timed_out", "cancelled"}
  /\ op \in [label : {"none", "idle", "setup", "emit", "flush", "shutdown"},
             promise : {"none", "pending", "ok", "error", "abort", "timeout"},
             race : {"none", "racing", "timing_out", "cancelling", "ok", "error", "abort",
                     "timeout", "cancelled"}]
  /\ build \in [selected : Nat, scanned : Nat, eligible : Nat, skipped : Nat, refused : Nat]
  /\ progress \in [attempted : Nat, queued : Nat, flushed : {"no", "yes"}]
  /\ exporter \in [st : {"none", "setup", "live", "stopped"},
                   late : {"none", "awaited", "arrived", "over"}]
  /\ world \in [late : Nat, queued : Nat, sent : Nat]
  /\ signal \in [caller : {"live", "aborted"}, run : {"live", "aborted"}]
  /\ told \in [status : {"none", "usage", "skipped", "error", "cancelled", "completed", "partial"},
               confirmed : Nat, unknown : Nat, notAttempted : Int,
               type : {"none", "info", "warning", "error"}]

\* A race that was won was won by the promise; an operation that is over is
\* forgotten with its race.  Only the run that gave up a setup can have an
\* exporter that arrives late, and it is over.
Races ==
  /\ op.race = "ok" => op.promise = "ok"
  /\ op.race \in {"racing", "timing_out", "cancelling"} => op.promise = "pending"
  /\ op.promise = "pending" => op.label # "none"
  /\ op.promise = "none" => op = NoOp
  /\ step \in {"idle", "loading", "confirming", "reading", "over"} => op = NoOp
  /\ step = "waiting" => op.label = "idle"
  /\ step = "setup" => op.label = "setup"
  /\ step = "emitting" => op = NoOp \/ op.label = "emit"
  /\ step = "flushing" => op.label = "flush"
  /\ step = "stopping" => op.label = "shutdown" /\ exporter.st = "stopped"
  /\ exporter.late # "none" => step = "over"

\* Emits whose promise may still be fulfilled.
OpenEmits == world.late + IF op.label = "emit" /\ op.promise = "pending" THEN 1 ELSE 0

\* What was attempted bounds what may be queued, and what is queued what is
\* sent; before the first emit there is nothing to send.
Bounds ==
  /\ world.sent <= world.queued
  /\ world.queued + OpenEmits <= progress.attempted
  /\ progress.attempted <= build.selected
  /\ step \in {"idle", "loading", "confirming", "waiting", "reading"} =>
       build = NothingBuilt /\ exporter = [st |-> "none", late |-> "none"]
  /\ step \in {"idle", "loading", "confirming", "waiting", "reading", "setup"} =>
       progress = NoProgress

\* A record that was acknowledged is queued, and as long as no emit failed all
\* of them were acknowledged.
Acknowledged ==
  /\ step = "emitting" =>
       /\ world.late = 0 /\ progress.flushed = "no"
       /\ IF op = NoOp THEN progress.queued = progress.attempted /\ world.queued = progress.attempted
          ELSE progress.queued + 1 = progress.attempted
               /\ world.queued = IF op.promise = "ok" THEN progress.attempted ELSE progress.queued
  /\ step = "flushing" =>
       /\ world.late = 0 /\ progress.flushed = "no" /\ progress.attempted = build.selected
       /\ progress.queued = progress.attempted /\ world.queued = progress.attempted
       /\ op.promise = "ok" => world.sent = world.queued
  /\ progress.flushed = "yes" =>
       /\ progress.queued = progress.attempted /\ progress.attempted = build.selected
       /\ world.sent = progress.queued /\ world.queued = progress.queued
  /\ step = "stopping" /\ pending = "none" => progress.flushed = "yes"
  /\ step \notin {"stopping", "over"} => pending = "none"

\* A summary counts what the run attempted; without one nothing is told yet.
Summed ==
  /\ step # "over" => told = Untold
  /\ told.status \in {"completed", "partial", "cancelled"} =>
       IF progress.flushed = "yes"
       THEN told.confirmed = progress.queued /\ told.unknown = 0
            /\ told.notAttempted = build.selected - progress.attempted
       ELSE told.confirmed = 0 /\ told.unknown = progress.attempted
            /\ (build.scanned > 0 => told.notAttempted = build.selected - progress.attempted)

BackfillIInv == BackfillTypes /\ Races /\ Bounds /\ Acknowledged /\ Summed

\* No command has been given and nothing is counted.
LEMMA BackfillInit == PartsInit => BackfillIInv
<1> SUFFICES ASSUME PartsInit
             PROVE  BackfillIInv
  OBVIOUS
<1> USE BoundsAreNat DEF PartsInit, Init, NoOp, NothingBuilt, NoProgress, Untold
<1>1. BackfillTypes /\ Races
  BY DEF BackfillTypes, Races
<1>2. Bounds /\ Acknowledged /\ Summed
  BY DEF Bounds, Acknowledged, Summed, OpenEmits
<1>3. QED
  BY <1>1, <1>2 DEF BackfillIInv

\* What is built of the entries is counted.
LEMMA BuildIsCounted ==
  ASSUME NEW n \in Nat, NEW listed \in [1..n -> Entry]
  PROVE  BuildRecords(listed) \in [selected : Nat, scanned : Nat, eligible : Nat, skipped : Nat,
                                    refused : Nat]
<1> DEFINE eligible == {i \in DOMAIN listed : Eligible(listed[i])}
           RecordsBefore(i) == {j \in eligible : j < i /\ Convertible(listed[j])}
           within == {i \in eligible : Cardinality(RecordsBefore(i)) < MaxRecords}
           selected == {i \in within : Convertible(listed[i])}
<1>1. IsFiniteSet(DOMAIN listed) /\ Len(listed) = n
  BY FS_Interval
<1>2. \A S : S \subseteq DOMAIN listed => Cardinality(S) \in Nat
  BY <1>1, FS_Subset, FS_CardinalityType
<1>3. /\ Cardinality(selected) \in Nat /\ Cardinality(eligible) \in Nat
      /\ Cardinality(eligible \ within) \in Nat
      /\ Cardinality({i \in selected : listed[i] = "refused"}) \in Nat
  BY <1>2
<1>4. QED
  BY <1>1, <1>3 DEF BuildRecords

\* A step that leaves the counts of the run and its operation alone.
LEMMA SameCounts ==
  ASSUME BackfillIInv, UNCHANGED <<op, build, progress, pending, exporter, world>>,
         BackfillTypes',
         \/ UNCHANGED <<step, told>>
         \/ step = "idle" /\ step' = "loading" /\ told' = told
         \/ step = "loading" /\ step' = "confirming" /\ told' = told
  PROVE  BackfillIInv'
<1> USE DEF BackfillIInv
<1>1. Races'
  BY DEF Races
<1>2. Bounds'
  BY DEF Bounds, OpenEmits
<1>3. Acknowledged' /\ Summed'
  BY DEF Acknowledged, Summed
<1>4. QED
  BY <1>1, <1>2, <1>3

\* A command that ends before it replays anything.
LEMMA EndsBeforeReplay ==
  ASSUME BackfillIInv, UNCHANGED <<progress, pending, exporter, world>>, op' = NoOp, build' = build,
         step \in {"idle", "loading", "confirming", "waiting", "reading"}, signal' = signal,
         NEW s \in {"usage", "cancelled", "skipped", "error"}, NEW type \in {"warning", "error"},
         Tell(s, type, 0, 0, 0)
  PROVE  BackfillIInv'
<1> USE DEF BackfillIInv, Tell
<1>1. /\ build = NothingBuilt /\ progress = NoProgress /\ pending = "none"
      /\ exporter = [st |-> "none", late |-> "none"]
  BY DEF Bounds, Acknowledged
<1>2. BackfillTypes'
  BY DEF BackfillTypes, NoOp
<1>3. Races'
  BY DEF Races, NoOp
<1>4. Bounds'
  BY <1>1 DEF Bounds, OpenEmits, NoOp, BackfillTypes
<1>5. Acknowledged' /\ Summed'
  BY <1>1 DEF Acknowledged, Summed, NoProgress, NothingBuilt
<1>6. QED
  BY <1>2, <1>3, <1>4, <1>5

LEMMA BeforeReplayIInv ==
  ASSUME BackfillIInv, Begin \/ LoadConfig \/ Confirm \/ WaitedForIdle
  PROVE  BackfillIInv'
<1>1. /\ UNCHANGED <<signal, build, progress, pending, exporter, world>>
      /\ step \in {"idle", "loading", "confirming", "waiting"}
  BY DEF Begin, LoadConfig, Confirm, WaitedForIdle
<1>2. told = Untold
  BY <1>1 DEF BackfillIInv, Summed
<1>3. CASE Begin \/ LoadConfig
  <2>1. op' = op /\ op = NoOp
    BY <1>3 DEF Begin, LoadConfig, BackfillIInv, Races
  <2>2. \/ step = "idle" /\ step' = "loading" /\ told' = told
        \/ step = "loading" /\ step' = "confirming" /\ told' = told
        \/ \E s \in {"usage", "cancelled", "skipped", "error"}, type \in {"warning", "error"} :
             Tell(s, type, 0, 0, 0)
    BY <1>3 DEF Begin, LoadConfig, TellCancelled, TellError
  <2>3. step' \in {"loading", "confirming"} /\ told' = told => BackfillTypes'
    BY <1>1, <2>1 DEF BackfillIInv, BackfillTypes
  <2>4. QED
    BY <1>1, <2>1, <2>2, <2>3, SameCounts, EndsBeforeReplay
<1>4. CASE Confirm \/ WaitedForIdle
  <2>1. CASE \E s \in {"usage", "cancelled", "skipped", "error"}, type \in {"warning", "error"} :
               Tell(s, type, 0, 0, 0)
    <3>1. op' = NoOp
      BY <1>4, <2>1 DEF Confirm, WaitedForIdle, BackfillIInv, Races, Tell
    <3>2. QED
      BY <1>1, <2>1, <3>1, EndsBeforeReplay
  <2>2. CASE /\ told' = told
             /\ \/ step' = "reading" /\ op' = NoOp
                \/ step' = "waiting" /\ op' = Race("idle")
    <3> USE <1>1, <1>2, <2>2 DEF BackfillIInv, NoOp, Race
    <3>1. BackfillTypes'
      BY DEF BackfillTypes
    <3>2. Races'
      BY DEF Races
    <3>3. Bounds'
      BY DEF Bounds, OpenEmits, BackfillTypes
    <3>4. Acknowledged' /\ Summed'
      BY DEF Acknowledged, Summed
    <3>5. QED
      BY <3>1, <3>2, <3>3, <3>4
  <2>3. QED
    BY <1>4, <2>1, <2>2 DEF Confirm, WaitedForIdle, TellCancelled, TellError
<1>5. QED
  BY <1>3, <1>4

\* An operation settles; an emit that succeeds is queued, a flush sends.
LEMMA SettleIInv ==
  ASSUME BackfillIInv, NEW result \in {"ok", "error", "abort", "timeout"}, Settle(result)
  PROVE  BackfillIInv'
<1> USE DEF BackfillIInv
<1>1. /\ op.promise = "pending" /\ op.label \in {"idle", "setup", "emit", "flush", "shutdown"}
      /\ op'.label = op.label /\ op'.promise = result
      /\ op' \in [label : {"none", "idle", "setup", "emit", "flush", "shutdown"},
                  promise : {"none", "pending", "ok", "error", "abort", "timeout"},
                  race : {"none", "racing", "timing_out", "cancelling", "ok", "error", "abort",
                          "timeout", "cancelled"}]
      /\ op'.race = "ok" => result = "ok"
      /\ op'.race \notin {"racing", "timing_out", "cancelling"}
      /\ op # NoOp /\ op' # NoOp
  <2>1. op.promise = "pending" /\ op.label \in {"idle", "setup", "emit", "flush", "shutdown"}
    BY DEF Settle, BackfillTypes, Races
  <2> DEFINE ended == CASE op.race = "racing" -> result
                       [] op.race = "timing_out" -> "timeout"
                       [] op.race = "cancelling" -> "cancelled"
                       [] OTHER -> op.race
  <2>2. op' = [op EXCEPT !.promise = result, !.race = ended]
    BY DEF Settle
  <2>3. /\ ended \in {"none", "ok", "error", "abort", "timeout", "cancelled"}
        /\ ended = "ok" => result = "ok"
    BY <2>1 DEF BackfillTypes, Races
  <2> HIDE DEF ended
  <2>4. /\ op'.label = op.label /\ op'.promise = result /\ op'.race = ended
        /\ op' \in [label : {"none", "idle", "setup", "emit", "flush", "shutdown"},
                    promise : {"none", "pending", "ok", "error", "abort", "timeout"},
                    race : {"none", "racing", "timing_out", "cancelling", "ok", "error", "abort",
                            "timeout", "cancelled"}]
    BY <2>2, <2>3 DEF BackfillTypes
  <2>5. QED
    BY <2>1, <2>3, <2>4 DEF NoOp
<1>2. UNCHANGED <<step, window, build, progress, pending, told>>
  BY DEF Settle
<1>3. /\ step \in {"waiting", "setup", "emitting", "flushing", "stopping"}
      /\ signal' \in [caller : {"live", "aborted"}, run : {"live", "aborted"}]
  BY <1>1 DEF Settle, Races, BackfillTypes, AbortRun
<1>4. /\ exporter' \in [st : {"none", "setup", "live", "stopped"},
                        late : {"none", "awaited", "arrived", "over"}]
      /\ exporter' # exporter => op.label = "setup"
      /\ exporter'.late = exporter.late
  BY DEF Settle, BackfillTypes
<1>5. CASE result = "ok" /\ op.label = "emit"
  <2>1. world' = [world EXCEPT !.queued = @ + 1]
    BY <1>5 DEF Settle
  <2>2. /\ world' \in [late : Nat, queued : Nat, sent : Nat]
        /\ world'.queued = world.queued + 1 /\ world'.late = world.late /\ world'.sent = world.sent
    BY <2>1 DEF BackfillTypes
  <2>3. BackfillTypes' /\ Races'
    BY <1>1, <1>2, <1>3, <1>4, <1>5, <2>2 DEF BackfillTypes, Races
  <2>4. Bounds'
    BY <1>1, <1>2, <1>4, <1>5, <2>2 DEF Bounds, OpenEmits, BackfillTypes, Races
  <2>5. Acknowledged' /\ Summed'
    BY <1>1, <1>2, <1>5, <2>2 DEF Acknowledged, Summed, Races, BackfillTypes, Bounds, NoProgress
  <2>6. QED
    BY <2>3, <2>4, <2>5
<1>6. CASE result = "ok" /\ op.label = "flush"
  <2>1. world' = [world EXCEPT !.sent = world.queued]
    BY <1>6 DEF Settle
  <2>2. /\ world' \in [late : Nat, queued : Nat, sent : Nat]
        /\ world'.queued = world.queued /\ world'.late = world.late /\ world'.sent = world.queued
    BY <2>1 DEF BackfillTypes
  <2>3. BackfillTypes' /\ Races'
    BY <1>1, <1>2, <1>3, <1>4, <1>6, <2>2 DEF BackfillTypes, Races
  <2>4. Bounds'
    BY <1>1, <1>2, <1>4, <1>6, <2>2 DEF Bounds, OpenEmits, BackfillTypes, Races
  <2>5. Acknowledged' /\ Summed'
    BY <1>1, <1>2, <1>6, <2>2 DEF Acknowledged, Summed, Races, BackfillTypes, Bounds, NoProgress
  <2>6. QED
    BY <2>3, <2>4, <2>5
<1>7. CASE result # "ok" \/ op.label \notin {"emit", "flush"}
  <2>1. world' = world
    BY <1>7 DEF Settle
  <2>2. BackfillTypes' /\ Races'
    BY <1>1, <1>2, <1>3, <1>4, <2>1 DEF BackfillTypes, Races
  <2>3. Bounds'
    BY <1>1, <1>2, <1>4, <2>1 DEF Bounds, OpenEmits, BackfillTypes, Races
  <2>4. Acknowledged' /\ Summed'
    BY <1>1, <1>2, <1>7, <2>1 DEF Acknowledged, Summed, Races, BackfillTypes, Bounds, NoProgress
  <2>5. QED
    BY <2>2, <2>3, <2>4
<1>8. QED
  BY <1>5, <1>6, <1>7

\* A timer fires, the caller aborts, or the moment of grace is over: the promise
\* of the operation and the counts stay what they are.
LEMMA RaceIInv ==
  ASSUME BackfillIInv, OperationTimesOut \/ Abort \/ CleanupEnds
  PROVE  BackfillIInv'
<1> USE DEF BackfillIInv
<1>1. UNCHANGED <<step, window, build, progress, pending, exporter, world, told>>
  BY DEF OperationTimesOut, Abort, CleanupEnds
<1>2. /\ op'.label = op.label /\ op'.promise = op.promise
      /\ op' \in [label : {"none", "idle", "setup", "emit", "flush", "shutdown"},
                  promise : {"none", "pending", "ok", "error", "abort", "timeout"},
                  race : {"none", "racing", "timing_out", "cancelling", "ok", "error", "abort",
                          "timeout", "cancelled"}]
      /\ op' = op \/ (op.promise = "pending" /\ op'.race # "ok")
  BY DEF OperationTimesOut, Abort, CleanupEnds, CleanupOver, BackfillTypes, Races
<1>3. signal' \in [caller : {"live", "aborted"}, run : {"live", "aborted"}]
  BY DEF OperationTimesOut, Abort, CleanupEnds, AbortRun, BackfillTypes
<1>4. op' = NoOp <=> op = NoOp
  BY <1>2 DEF NoOp
<1>5. BackfillTypes' /\ Races'
  BY <1>1, <1>2, <1>3, <1>4 DEF BackfillTypes, Races
<1>6. Bounds'
  BY <1>1, <1>2 DEF Bounds, OpenEmits
<1>7. Acknowledged' /\ Summed'
  BY <1>1, <1>2, <1>4 DEF Acknowledged, Summed
<1>8. QED
  BY <1>5, <1>6, <1>7

\* What a summary says, and what its counts are.
LEMMA SummaryCounts ==
  ASSUME NEW b \in [selected : Nat, scanned : Nat, eligible : Nat, skipped : Nat, refused : Nat],
         NEW p \in [attempted : Nat, queued : Nat, flushed : {"no", "yes"}],
         NEW error, Summarise(b, p, error)
  PROVE  /\ step' = "over"
         /\ told' \in [status : {"none", "usage", "skipped", "error", "cancelled", "completed", "partial"},
                       confirmed : Nat, unknown : Nat, notAttempted : Int,
                       type : {"none", "info", "warning", "error"}]
         /\ told'.confirmed = IF p.flushed = "yes" THEN p.queued ELSE 0
         /\ told'.unknown = IF p.flushed = "yes" THEN 0 ELSE p.attempted
         /\ told'.notAttempted = b.selected - p.attempted
         /\ told'.status = "completed" <=> error = "none"
<1> DEFINE s == CASE error = "none" -> "completed" [] error = "cancelled" -> "cancelled" [] OTHER -> "partial"
           type == IF error = "none" /\ b.skipped = 0 /\ b.refused = 0 THEN "info" ELSE "warning"
<1>1. /\ Outcome(b, p).confirmed = IF p.flushed = "yes" THEN p.queued ELSE 0
      /\ Outcome(b, p).unknown = IF p.flushed = "yes" THEN 0 ELSE p.attempted
      /\ Outcome(b, p).notAttempted = b.selected - p.attempted
  BY DEF Outcome
<1>2. /\ step' = "over"
      /\ told' = [status |-> s, confirmed |-> Outcome(b, p).confirmed, unknown |-> Outcome(b, p).unknown,
                  notAttempted |-> Outcome(b, p).notAttempted, type |-> type]
  BY DEF Summarise, Tell
<1>3. s \in {"completed", "cancelled", "partial"} /\ (s = "completed" <=> error = "none")
      /\ type \in {"info", "warning"}
  OBVIOUS
<1> HIDE DEF s, type
<1>4. QED
  BY <1>1, <1>2, <1>3

\* The run ends with a summary of what it attempted.
LEMMA SummarisedIInv ==
  ASSUME BackfillIInv, step \notin {"over"}, op' = NoOp, NEW error,
         build' \in [selected : Nat, scanned : Nat, eligible : Nat, skipped : Nat, refused : Nat],
         build' = build \/ (step = "reading" /\ progress = NoProgress),
         UNCHANGED <<signal, progress, pending, world>>,
         exporter' \in [st : {"none", "setup", "live", "stopped"},
                        late : {"none", "awaited", "arrived", "over"}],
         step \in {"reading", "setup", "stopping"},
         Summarise(build', progress, error)
  PROVE  BackfillIInv'
<1> USE DEF BackfillIInv
<1>1. progress \in [attempted : Nat, queued : Nat, flushed : {"no", "yes"}]
  BY DEF BackfillTypes
<1>2. /\ step' = "over"
      /\ told' \in [status : {"none", "usage", "skipped", "error", "cancelled", "completed", "partial"},
                    confirmed : Nat, unknown : Nat, notAttempted : Int,
                    type : {"none", "info", "warning", "error"}]
      /\ told'.confirmed = IF progress.flushed = "yes" THEN progress.queued ELSE 0
      /\ told'.unknown = IF progress.flushed = "yes" THEN 0 ELSE progress.attempted
      /\ told'.notAttempted = build'.selected - progress.attempted
  BY <1>1, SummaryCounts
<1>3. op.label # "emit" /\ op'.label # "emit"
  BY DEF Races, NoOp
<1>4. BackfillTypes' /\ Races'
  BY <1>2 DEF BackfillTypes, Races, NoOp
<1>5. Bounds'
  BY <1>2, <1>3 DEF Bounds, OpenEmits, NoProgress, BackfillTypes
<1>6. Acknowledged'
  BY <1>2 DEF Acknowledged, NoProgress
<1>7. Summed'
  BY <1>2 DEF Summed
<1>8. QED
  BY <1>4, <1>5, <1>6, <1>7

\* The entries are read: the run ends at once, or an exporter is set up.
LEMMA ReadEntriesIInv ==
  ASSUME BackfillIInv, ReadEntries
  PROVE  BackfillIInv'
<1> USE BoundsAreNat
<1>1. /\ step = "reading" /\ op = NoOp /\ progress = NoProgress
      /\ UNCHANGED <<window, signal, progress, pending, world>>
      /\ exporter = [st |-> "none", late |-> "none"] /\ told = Untold
  BY DEF ReadEntries, BackfillIInv, Races, Bounds, Summed
<1>2. CASE TellError /\ UNCHANGED <<op, build, exporter>>
  BY <1>1, <1>2, EndsBeforeReplay DEF TellError
<1>3. ASSUME NEW n \in 0..MaxEntries, NEW list \in [1..n -> Entry], build' = BuildRecords(list),
             \/ \E error : Summarise(build', progress, error) /\ UNCHANGED <<op, exporter>>
             \/ /\ step' = "setup" /\ op' = Race("setup")
                /\ exporter' = [exporter EXCEPT !.st = "setup"]
                /\ UNCHANGED told
      PROVE  BackfillIInv'
  <2>1. build' \in [selected : Nat, scanned : Nat, eligible : Nat, skipped : Nat, refused : Nat]
    BY <1>3, BuildIsCounted
  <2>2. CASE \E error : Summarise(build', progress, error) /\ UNCHANGED <<op, exporter>>
    <3>1. exporter' \in [st : {"none", "setup", "live", "stopped"},
                         late : {"none", "awaited", "arrived", "over"}]
      BY <1>1, <2>2
    <3>2. QED
      BY <1>1, <2>1, <2>2, <3>1, SummarisedIInv
  <2>3. CASE /\ step' = "setup" /\ op' = Race("setup")
             /\ exporter' = [exporter EXCEPT !.st = "setup"]
             /\ UNCHANGED told
    <3> USE <1>1, <2>3 DEF BackfillIInv, Race, NoOp, NoProgress
    <3>1. BackfillTypes' /\ Races'
      BY <2>1 DEF BackfillTypes, Races
    <3>2. Bounds'
      BY <2>1 DEF Bounds, OpenEmits, BackfillTypes
    <3>3. pending = "none" /\ progress.flushed = "no" /\ told.status = "none"
      BY DEF Acknowledged, Untold
    <3>4. Acknowledged'
      BY <3>3 DEF Acknowledged
    <3>5. Summed'
      BY <3>3 DEF Summed
    <3>6. QED
      BY <3>1, <3>2, <3>4, <3>5
  <2>4. QED
    BY <1>3, <2>2, <2>3
<1>4. CASE ~(TellError /\ UNCHANGED <<op, build, exporter>>)
  <2>1. PICK list \in UNION {[1..n -> Entry] : n \in 0..MaxEntries} :
          /\ build' = BuildRecords(list)
          /\ \/ \E error : Summarise(build', progress, error) /\ UNCHANGED <<op, exporter>>
             \/ /\ step' = "setup" /\ op' = Race("setup")
                /\ exporter' = [exporter EXCEPT !.st = "setup"]
                /\ UNCHANGED told
    BY <1>1, <1>4 DEF ReadEntries
  <2>2. QED
    BY <1>3, <2>1
<1>5. QED
  BY <1>2, <1>4

LEMMA SetupConcludedIInv ==
  ASSUME BackfillIInv, SetupConcluded
  PROVE  BackfillIInv'
<1>1. /\ step = "setup" /\ op' = NoOp /\ UNCHANGED <<window, signal, build, progress, pending, world>>
      /\ progress = NoProgress /\ op.label = "setup"
  BY DEF SetupConcluded, BackfillIInv, Bounds, Over
<1>2. CASE op.race = "ok"
  <2>1. step' = "emitting" /\ UNCHANGED <<exporter, told>>
    BY <1>2 DEF SetupConcluded
  <2> USE <1>1, <2>1 DEF BackfillIInv, NoOp, NoProgress
  <2>2. world.late = 0 /\ world.queued = 0
    BY DEF Bounds, OpenEmits, BackfillTypes
  <2>3. BackfillTypes' /\ Races'
    BY DEF BackfillTypes, Races
  <2>4. Bounds'
    BY DEF Bounds, OpenEmits, BackfillTypes
  <2>5. Acknowledged' /\ Summed'
    BY <2>2 DEF Acknowledged, Summed
  <2>6. QED
    BY <2>3, <2>4, <2>5
<1>3. CASE op.race # "ok"
  <2>1. /\ exporter' = [exporter EXCEPT !.late = Disposal(op.promise)]
        /\ Summarise(build', progress, ErrorOf(op.race))
    BY <1>1, <1>3 DEF SetupConcluded
  <2>2. Disposal(op.promise) \in {"awaited", "arrived", "over"}
    BY DEF Disposal
  <2>3. exporter' \in [st : {"none", "setup", "live", "stopped"},
                       late : {"none", "awaited", "arrived", "over"}]
        /\ build' \in [selected : Nat, scanned : Nat, eligible : Nat, skipped : Nat, refused : Nat]
    BY <1>1, <2>1, <2>2 DEF BackfillIInv, BackfillTypes
  <2>4. QED
    BY <1>1, <2>1, <2>3, SummarisedIInv
<1>4. QED
  BY <1>2, <1>3

\* The exporter is shut down, with the first error of the run or none.
LEMMA ShutDownIInv ==
  ASSUME BackfillIInv, NEW error \in {"none", "failed", "timed_out", "cancelled"}, ShutDown(error),
         step \in {"emitting", "flushing"}, UNCHANGED <<signal, build, told>>,
         world' \in [late : Nat, queued : Nat, sent : Nat],
         world'.sent = world.sent, world'.queued = world.queued,
         world'.late = world.late + IF op.label = "emit" /\ op.promise = "pending" THEN 1 ELSE 0,
         progress' \in [attempted : Nat, queued : Nat, flushed : {"no", "yes"}],
         progress'.attempted = progress.attempted, progress'.queued = progress.queued,
         error = "none" => progress'.flushed = "yes",
         progress'.flushed = "yes" => step = "flushing" /\ op.promise = "ok"
  PROVE  BackfillIInv'
<1> USE DEF BackfillIInv, ShutDown, Race, NoOp
<1>1. BackfillTypes'
  BY DEF BackfillTypes
<1>2. exporter'.st = "stopped"
  BY DEF BackfillTypes
<1>3. Races'
  BY <1>2 DEF Races
<1>4. Bounds'
  BY DEF Bounds, OpenEmits, BackfillTypes
<1>5. Acknowledged'
  BY DEF Acknowledged
<1>6. Summed'
  BY DEF Summed, Untold
<1>7. QED
  BY <1>1, <1>3, <1>4, <1>5, <1>6

\* A record is handed over, or the records are flushed.
LEMMA EmitNextIInv ==
  ASSUME BackfillIInv, EmitNext
  PROVE  BackfillIInv'
<1>1. /\ step = "emitting" /\ op = NoOp /\ UNCHANGED <<signal, build, world, told>>
      /\ op.label = "none" /\ op.promise = "none" /\ op.race = "none"
      /\ progress.flushed = "no" /\ pending = "none" /\ told = Untold
      /\ progress \in [attempted : Nat, queued : Nat, flushed : {"no", "yes"}]
      /\ world.late = 0 /\ progress.queued = progress.attempted
      /\ world.queued = progress.attempted
  BY DEF EmitNext, NoOp, BackfillIInv, Acknowledged, Summed, BackfillTypes
<1>2. CASE signal.run = "aborted"
  <2>1. ShutDown("cancelled") /\ progress' = progress
    BY <1>2 DEF EmitNext
  <2>2. world.late = world.late + IF op.label = "emit" /\ op.promise = "pending" THEN 1 ELSE 0
    BY <1>1
  <2>3. world \in [late : Nat, queued : Nat, sent : Nat]
    BY DEF BackfillIInv, BackfillTypes
  <2>4. QED
    BY <1>1, <2>1, <2>2, <2>3, ShutDownIInv
<1>3. CASE signal.run = "live" /\ progress.attempted < build.selected
  <2>1. /\ op' = Race("emit") /\ progress' = [progress EXCEPT !.attempted = @ + 1]
        /\ UNCHANGED <<step, exporter, pending>>
    BY <1>3 DEF EmitNext
  <2>2. /\ progress' \in [attempted : Nat, queued : Nat, flushed : {"no", "yes"}]
        /\ progress'.attempted = progress.attempted + 1 /\ progress'.queued = progress.queued
        /\ progress'.flushed = "no"
    BY <1>1, <2>1
  <2>3. /\ op' # NoOp /\ op'.label = "emit" /\ op'.promise = "pending" /\ op'.race = "racing"
        /\ op' \in [label : {"none", "idle", "setup", "emit", "flush", "shutdown"},
                    promise : {"none", "pending", "ok", "error", "abort", "timeout"},
                    race : {"none", "racing", "timing_out", "cancelling", "ok", "error", "abort",
                            "timeout", "cancelled"}]
    BY <2>1 DEF Race, NoOp
  <2> USE DEF BackfillIInv
  <2>4. BackfillTypes' /\ Races'
    BY <1>1, <2>1, <2>2, <2>3 DEF BackfillTypes, Races
  <2>5. Bounds'
    BY <1>1, <1>3, <2>1, <2>2, <2>3 DEF Bounds, OpenEmits, BackfillTypes
  <2>6. Acknowledged'
    BY <1>1, <2>1, <2>2, <2>3 DEF Acknowledged, BackfillTypes
  <2>7. Summed'
    BY <1>1, <2>1 DEF Summed, Untold
  <2>8. QED
    BY <2>4, <2>5, <2>6, <2>7
<1>4. CASE signal.run = "live" /\ ~(progress.attempted < build.selected)
  <2>1. step' = "flushing" /\ op' = Race("flush") /\ UNCHANGED <<progress, exporter, pending>>
    BY <1>4 DEF EmitNext
  <2> USE <1>1, <2>1 DEF BackfillIInv, Race
  <2>2. progress.attempted = build.selected
    BY <1>4 DEF Bounds, BackfillTypes
  <2>3. BackfillTypes'
    BY DEF BackfillTypes
  <2>4. Races'
    BY DEF Races, NoOp
  <2>5. Bounds'
    BY DEF Bounds, OpenEmits
  <2>6. Acknowledged'
    BY <2>2 DEF Acknowledged
  <2>7. Summed'
    BY DEF Summed, Untold
  <2>8. QED
    BY <2>3, <2>4, <2>5, <2>6, <2>7
<1>5. QED
  BY <1>2, <1>3, <1>4 DEF BackfillIInv, BackfillTypes

\* An emit was acknowledged, or it ends the run and may still succeed.
LEMMA EmitConcludedIInv ==
  ASSUME BackfillIInv, EmitConcluded
  PROVE  BackfillIInv'
<1>1. /\ step = "emitting" /\ op.label = "emit" /\ op # NoOp
      /\ op.race \in {"ok", "error", "abort", "timeout", "cancelled"}
      /\ UNCHANGED <<signal, build, told>> /\ told = Untold /\ pending = "none"
      /\ progress \in [attempted : Nat, queued : Nat, flushed : {"no", "yes"}]
      /\ world \in [late : Nat, queued : Nat, sent : Nat]
      /\ progress.flushed = "no" /\ world.late = 0
      /\ progress.queued + 1 = progress.attempted
      /\ world.queued = IF op.promise = "ok" THEN progress.attempted ELSE progress.queued
  BY DEF EmitConcluded, Over, NoOp, BackfillIInv, Acknowledged, Summed, BackfillTypes
<1>2. /\ world' \in [late : Nat, queued : Nat, sent : Nat]
      /\ world'.sent = world.sent /\ world'.queued = world.queued
      /\ world'.late = world.late + IF op.label = "emit" /\ op.promise = "pending" THEN 1 ELSE 0
  BY <1>1 DEF EmitConcluded
<1>3. CASE op.race = "ok"
  <2>1. /\ progress' = [progress EXCEPT !.queued = @ + 1] /\ op' = NoOp
        /\ UNCHANGED <<step, exporter, pending>> /\ op.promise = "ok" /\ world' = world
    BY <1>3 DEF EmitConcluded, BackfillIInv, Races
  <2>2. /\ progress' \in [attempted : Nat, queued : Nat, flushed : {"no", "yes"}]
        /\ progress'.attempted = progress.attempted /\ progress'.queued = progress.attempted
        /\ progress'.flushed = "no"
    BY <1>1, <2>1
  <2> USE DEF BackfillIInv
  <2>3. BackfillTypes' /\ Races'
    BY <1>1, <2>1, <2>2 DEF BackfillTypes, Races, NoOp
  <2>4. Bounds'
    BY <1>1, <2>1, <2>2 DEF Bounds, OpenEmits, NoOp, BackfillTypes
  <2>5. Acknowledged'
    BY <1>1, <2>1, <2>2 DEF Acknowledged
  <2>6. Summed'
    BY <1>1, <2>1 DEF Summed, Untold
  <2>7. QED
    BY <2>3, <2>4, <2>5, <2>6
<1>4. CASE op.race # "ok"
  <2>1. ShutDown(ErrorOf(op.race)) /\ progress' = progress
    BY <1>4 DEF EmitConcluded
  <2>2. ErrorOf(op.race) \in {"failed", "timed_out", "cancelled"}
    BY DEF ErrorOf
  <2>3. QED
    BY <1>1, <1>2, <2>1, <2>2, ShutDownIInv
<1>5. QED
  BY <1>3, <1>4

LEMMA FlushConcludedIInv ==
  ASSUME BackfillIInv, FlushConcluded
  PROVE  BackfillIInv'
<1> DEFINE error == CASE op.race # "ok" -> ErrorOf(op.race)
                      [] op.race = "ok" /\ signal.run = "aborted" -> "cancelled"
                      [] OTHER -> "none"
<1>1. /\ step = "flushing" /\ op.label = "flush" /\ ShutDown(error)
      /\ UNCHANGED <<signal, build, told, world>>
      /\ progress \in [attempted : Nat, queued : Nat, flushed : {"no", "yes"}]
      /\ world \in [late : Nat, queued : Nat, sent : Nat]
      /\ progress' = [progress EXCEPT !.flushed = IF op.race = "ok" THEN "yes" ELSE "no"]
  BY DEF FlushConcluded, Over, BackfillIInv, BackfillTypes
<1>2. /\ progress' \in [attempted : Nat, queued : Nat, flushed : {"no", "yes"}]
      /\ progress'.attempted = progress.attempted /\ progress'.queued = progress.queued
      /\ progress'.flushed = "yes" <=> op.race = "ok"
  BY <1>1
<1>3. /\ error \in {"none", "failed", "timed_out", "cancelled"}
      /\ error = "none" => op.race = "ok"
  BY DEF ErrorOf
<1>4. world.late = world.late + IF op.label = "emit" /\ op.promise = "pending" THEN 1 ELSE 0
  BY <1>1
<1>5. op.race = "ok" => op.promise = "ok"
  BY DEF BackfillIInv, Races
<1> HIDE DEF error
<1>6. QED
  BY <1>1, <1>2, <1>3, <1>4, <1>5, ShutDownIInv

LEMMA ShutdownConcludedIInv ==
  ASSUME BackfillIInv, ShutdownConcluded
  PROVE  BackfillIInv'
<1>1. /\ step = "stopping" /\ op' = NoOp
      /\ UNCHANGED <<signal, build, progress, pending, exporter, world>>
      /\ \E error : Summarise(build', progress, error)
  BY DEF ShutdownConcluded
<1>2. /\ build' \in [selected : Nat, scanned : Nat, eligible : Nat, skipped : Nat, refused : Nat]
      /\ exporter' \in [st : {"none", "setup", "live", "stopped"},
                        late : {"none", "awaited", "arrived", "over"}]
  BY <1>1 DEF BackfillIInv, BackfillTypes
<1>3. QED
  BY <1>1, <1>2, SummarisedIInv

\* What goes on by itself touches the exporter, or what is queued and sent.
LEMMA LateIInv ==
  ASSUME BackfillIInv, LateSetup \/ Dispose \/ LateEmit \/ Send
  PROVE  BackfillIInv'
<1> USE DEF BackfillIInv
<1>1. UNCHANGED <<step, window, signal, op, build, progress, pending, told>>
  BY DEF LateSetup, Dispose, LateEmit, Send
<1>2. CASE LateSetup \/ Dispose
  <2>1. /\ world' = world /\ exporter.late \in {"awaited", "arrived"}
        /\ exporter' \in [st : {"none", "setup", "live", "stopped"},
                          late : {"none", "awaited", "arrived", "over"}]
    BY <1>2 DEF LateSetup, Dispose, Disposal, BackfillTypes
  <2>2. step = "over"
    BY <2>1 DEF Races
  <2>3. BackfillTypes' /\ Races'
    BY <1>1, <2>1, <2>2 DEF BackfillTypes, Races
  <2>4. Bounds'
    BY <1>1, <2>1, <2>2 DEF Bounds, OpenEmits
  <2>5. Acknowledged' /\ Summed'
    BY <1>1, <2>1 DEF Acknowledged, Summed
  <2>6. QED
    BY <2>3, <2>4, <2>5
<1>3. CASE LateEmit
  <2>1. PICK queued \in {0, 1} :
          world.late > 0 /\ world' = [world EXCEPT !.late = @ - 1, !.queued = @ + queued]
    BY <1>3 DEF LateEmit
  <2>2. /\ exporter' = exporter /\ world' \in [late : Nat, queued : Nat, sent : Nat]
        /\ world'.late + 1 = world.late /\ world'.queued = world.queued + queued
        /\ world'.sent = world.sent
    <3>1. world \in [late : Nat, queued : Nat, sent : Nat] /\ exporter' = exporter
      BY <1>3 DEF LateEmit, BackfillTypes
    <3>2. world.late - 1 \in Nat /\ world.queued + queued \in Nat
      BY <2>1, <3>1
    <3>3. /\ world'.late = world.late - 1 /\ world'.queued = world.queued + queued
          /\ world'.sent = world.sent
      BY <2>1, <3>1
    <3>4. world' = [late |-> world.late - 1, queued |-> world.queued + queued, sent |-> world.sent]
      BY <2>1, <3>1
    <3>5. QED
      BY <3>1, <3>2, <3>4
  <2>3. BackfillTypes' /\ Races'
    BY <1>1, <2>2 DEF BackfillTypes, Races
  <2>4. Bounds'
    BY <1>1, <2>2 DEF Bounds, OpenEmits, BackfillTypes
  <2>5. /\ step \notin {"emitting", "flushing"} /\ progress.flushed = "no"
    BY <2>1 DEF Acknowledged, Bounds, OpenEmits, BackfillTypes
  <2>6. Acknowledged' /\ Summed'
    BY <1>1, <2>5 DEF Acknowledged, Summed
  <2>7. QED
    BY <2>3, <2>4, <2>6
<1>4. CASE Send
  <2>1. /\ world.sent < world.queued /\ exporter' = exporter
        /\ world' \in [late : Nat, queued : Nat, sent : Nat]
        /\ world'.late = world.late /\ world'.queued = world.queued
        /\ world'.sent = world.sent + 1
    BY <1>4 DEF Send, BackfillTypes
  <2>2. BackfillTypes' /\ Races'
    BY <1>1, <2>1 DEF BackfillTypes, Races
  <2>3. Bounds'
    BY <1>1, <2>1 DEF Bounds, OpenEmits, BackfillTypes
  <2>4. progress.flushed = "no" /\ ~(step = "flushing" /\ op.promise = "ok")
    BY <2>1 DEF Acknowledged, BackfillTypes
  <2>5. Acknowledged' /\ Summed'
    BY <1>1, <2>1, <2>4 DEF Acknowledged, Summed
  <2>6. QED
    BY <2>2, <2>3, <2>5
<1>5. QED
  BY <1>2, <1>3, <1>4

\* The operations of a run, in its order, and what may happen at any time.
LEMMA BackfillStep == ASSUME BackfillIInv, Next PROVE BackfillIInv'
<1>1. CASE Begin \/ LoadConfig \/ Confirm \/ WaitedForIdle
  BY <1>1, BeforeReplayIInv
<1>2. CASE ReadEntries
  BY <1>2, ReadEntriesIInv
<1>3. CASE SetupConcluded
  BY <1>3, SetupConcludedIInv
<1>4. CASE EmitNext
  BY <1>4, EmitNextIInv
<1>5. CASE EmitConcluded
  BY <1>5, EmitConcludedIInv
<1>6. CASE FlushConcluded
  BY <1>6, FlushConcludedIInv
<1>7. CASE ShutdownConcluded
  BY <1>7, ShutdownConcludedIInv
<1>8. CASE \E result \in {"ok", "error", "abort", "timeout"} : Settle(result)
  BY <1>8, SettleIInv
<1>9. CASE OperationTimesOut \/ Abort \/ CleanupEnds
  BY <1>9, RaceIInv
<1>10. CASE LateSetup \/ Dispose \/ LateEmit \/ Send
  BY <1>10, LateIInv
<1>11. QED
  BY <1>1, <1>2, <1>3, <1>4, <1>5, <1>6, <1>7, <1>8, <1>9, <1>10 DEF Next, Proceed, External

LEMMA BackfillStutters == ASSUME BackfillIInv, UNCHANGED vars PROVE BackfillIInv'
<1> USE DEF vars
<1>1. BackfillTypes' /\ Races'
  BY DEF BackfillIInv, BackfillTypes, Races
<1>2. Bounds'
  BY DEF BackfillIInv, Bounds, OpenEmits
<1>3. Acknowledged' /\ Summed'
  BY DEF BackfillIInv, Acknowledged, Summed
<1>4. QED
  BY <1>1, <1>2, <1>3 DEF BackfillIInv

\* A record that the summary counts as confirmed was sent, and what was sent is
\* confirmed or unknown.
LEMMA BackfillHonest == ASSUME BackfillIInv PROVE CountsAreHonest
<1> USE DEF BackfillIInv
<1>1. CASE progress.flushed = "yes"
  BY <1>1 DEF CountsAreHonest, Summed, Acknowledged, Bounds, BackfillTypes
<1>2. CASE progress.flushed = "no"
  BY <1>2 DEF CountsAreHonest, Summed, OpenEmits, Bounds, BackfillTypes
<1>3. QED
  BY <1>1, <1>2 DEF BackfillTypes

\* A summary says "completed" without an error only, which leaves two steps: the
\* entries gave nothing to send, or the exporter has shut down after a flush
\* that was acknowledged.
LEMMA CompletedStep ==
  ASSUME BackfillIInv, Next, told'.status = "completed", told.status = "none"
  PROVE  /\ world.sent = build'.selected /\ signal.run = "live"
         /\ exporter.st \in {"none", "stopped"} /\ op.promise \in {"none", "ok"}
<1>1. progress \in [attempted : Nat, queued : Nat, flushed : {"no", "yes"}]
      /\ build \in [selected : Nat, scanned : Nat, eligible : Nat, skipped : Nat, refused : Nat]
  BY DEF BackfillIInv, BackfillTypes
<1>2. \/ ReadEntries /\ step = "reading"
      \/ SetupConcluded /\ step = "setup"
      \/ ShutdownConcluded /\ step = "stopping"
  <2>1. ~(Begin \/ LoadConfig \/ Confirm \/ WaitedForIdle)
    BY DEF Begin, LoadConfig, Confirm, WaitedForIdle, Tell, TellCancelled, TellError
  <2>2. ~(EmitNext \/ EmitConcluded \/ FlushConcluded)
    BY DEF EmitNext, EmitConcluded, FlushConcluded
  <2>3. ~(\E result \in {"ok", "error", "abort", "timeout"} : Settle(result))
    BY DEF Settle
  <2>4. ~(OperationTimesOut \/ Abort \/ CleanupEnds)
    BY DEF OperationTimesOut, Abort, CleanupEnds
  <2>5. ~(LateSetup \/ Dispose \/ LateEmit \/ Send)
    BY DEF LateSetup, Dispose, LateEmit, Send
  <2>6. QED
    BY <2>1, <2>2, <2>3, <2>4, <2>5
       DEF Next, Proceed, External, ReadEntries, SetupConcluded, ShutdownConcluded
<1>3. CASE ReadEntries /\ step = "reading"
  <2>1. /\ op = NoOp /\ progress = NoProgress /\ exporter.st = "none" /\ op.promise = "none"
        /\ world.sent = 0
    BY <1>3 DEF BackfillIInv, Races, Bounds, NoProgress, NoOp, BackfillTypes, OpenEmits
  <2>2. PICK list \in UNION {[1..n -> Entry] : n \in 0..MaxEntries} :
          LET b == BuildRecords(list) IN
            /\ build' = b
            /\ \/ signal.run = "aborted" /\ Summarise(b, NoProgress, "cancelled")
               \/ signal.run = "live" /\ b.selected = 0 /\ Summarise(b, NoProgress, "none")
               \/ Summarise(b, NoProgress, "failed")
    BY <1>3 DEF ReadEntries, Tell, TellError
  <2>3. PICK n \in 0..MaxEntries : list \in [1..n -> Entry]
    BY <2>2
  <2>4. BuildRecords(list) \in [selected : Nat, scanned : Nat, eligible : Nat, skipped : Nat, refused : Nat]
    BY <2>3, BoundsAreNat, BuildIsCounted
  <2>5. NoProgress \in [attempted : Nat, queued : Nat, flushed : {"no", "yes"}]
    BY DEF NoProgress
  <2>6. \A error : Summarise(BuildRecords(list), NoProgress, error) => error = "none"
    BY <2>4, <2>5, SummaryCounts
  <2>7. QED
    BY <2>1, <2>2, <2>6
<1>4. CASE SetupConcluded /\ step = "setup"
  <2>1. op.race # "ok" /\ Summarise(build, progress, ErrorOf(op.race))
    BY <1>4 DEF SetupConcluded
  <2>2. ErrorOf(op.race) # "none"
    BY DEF ErrorOf
  <2>3. QED
    BY <1>1, <2>1, <2>2, SummaryCounts
<1>5. CASE ShutdownConcluded /\ step = "stopping"
  <2> DEFINE error == FirstError(pending, op.race)
             last == IF error = "none" /\ signal.run = "aborted" THEN "cancelled" ELSE error
  <2>1. Summarise(build, progress, last) /\ build' = build
    BY <1>5 DEF ShutdownConcluded
  <2>2. last = "none"
    <3> HIDE DEF last
    <3>1. QED
      BY <1>1, <2>1, SummaryCounts
  <2>3. error = "none" /\ signal.run = "live"
    BY <2>2 DEF BackfillIInv, BackfillTypes
  <2>4. pending = "none" /\ op.race = "ok"
    BY <2>3 DEF FirstError, ErrorOf
  <2>5. op.promise = "ok" /\ exporter.st = "stopped" /\ progress.flushed = "yes"
    BY <1>5, <2>4 DEF BackfillIInv, Races, Acknowledged
  <2>6. world.sent = build.selected
    BY <2>5 DEF BackfillIInv, Acknowledged
  <2>7. QED
    BY <2>1, <2>3, <2>5, <2>6
<1>6. QED
  BY <1>2, <1>3, <1>4, <1>5

-----------------------------------------------------------------------------
(* The commands of the shell                                               *)

\* A command is begun once and its result is appended once, after the entries
\* that were there when the followed command began.
ResultsComeOnce ==
  /\ \A b \in timers : span[b] # "none"
  /\ \A i, j \in DOMAIN entries : entries[i] = entries[j] => i = j
  /\ \A b \in running : counted[b] = 0 /\ b \notin Shell!Finished
  /\ \A i \in DOMAIN entries : i > cursor => counted[entries[i]] = 0

\* A followed command that has run alone is the only one that can be running,
\* and the only one whose result a poll can find.
AloneIsAlone ==
  followed \in Command \ overlapped =>
    /\ running \subseteq {followed}
    /\ followed \in timers => \A i \in DOMAIN entries : i > cursor => entries[i] = followed

ShellIInv == CommandsAreAccounted /\ ResultsComeOnce /\ AloneIsAlone

LEMMA ShellParts ==
  ShellIInv <=>
    /\ Shell!TypeOK /\ Shell!OpenIsFollowed /\ Shell!ResultCountedOnce /\ Shell!AloneGetsItsOwn
    /\ ResultsComeOnce /\ AloneIsAlone
  BY DEF ShellIInv, CommandsAreAccounted, Shell!CommandsAreAccounted

LEMMA ShellInit == PartsInit => ShellIInv
<1> SUFFICES ASSUME PartsInit
             PROVE  ShellIInv
  OBVIOUS
<1> USE NoCommandIsNone DEF PartsInit, Shell!Init
<1>1. Shell!TypeOK
  BY DEF Shell!TypeOK
<1>2. Shell!OpenIsFollowed /\ Shell!ResultCountedOnce /\ Shell!AloneGetsItsOwn
  BY DEF Shell!OpenIsFollowed, Shell!ResultCountedOnce, Shell!AloneGetsItsOwn
<1>3. ResultsComeOnce /\ AloneIsAlone
  BY DEF ResultsComeOnce, AloneIsAlone
<1>4. QED
  BY <1>1, <1>2, <1>3 DEF ShellIInv, CommandsAreAccounted, Shell!CommandsAreAccounted

\* A command begins: the one that was followed is not followed any more, and
\* the new one only when it is the only one.
LEMMA UserBashIInv ==
  ASSUME ShellIInv, NEW b \in Command, Shell!UserBash(b)
  PROVE  ShellIInv'
<1> USE NoCommandIsNone, ShellParts DEF Shell!TypeOK, Shell!UserBash
<1>1. /\ b \notin running /\ b \notin Shell!Finished /\ span[b] = "none" /\ counted[b] = 0
      /\ b \notin timers
  BY DEF Shell!Fresh, ResultsComeOnce
<1>2. /\ running' = running \cup {b}
      /\ overlapped' \subseteq Command /\ overlapped \subseteq overlapped'
      /\ running # {} => b \in overlapped' /\ running \subseteq overlapped'
      /\ UNCHANGED <<entries, matched, counted, session>>
  OBVIOUS
<1>3. Shell!Finished' = Shell!Finished
  BY <1>2 DEF Shell!Finished
<1>4. CASE followed # NoCommand /\ Shell!ClosePending /\ UNCHANGED cursor
  <2> USE <1>4 DEF Shell!ClosePending
  <2>1. Shell!TypeOK'
    BY <1>2
  <2>2. Shell!OpenIsFollowed'
    BY DEF Shell!OpenIsFollowed
  <2>3. Shell!ResultCountedOnce' /\ Shell!AloneGetsItsOwn'
    BY <1>2 DEF Shell!ResultCountedOnce, Shell!AloneGetsItsOwn
  <2>4. ResultsComeOnce' /\ AloneIsAlone'
    BY <1>1, <1>2, <1>3 DEF ResultsComeOnce, AloneIsAlone
  <2>5. QED
    BY <2>1, <2>2, <2>3, <2>4 DEF ShellIInv, CommandsAreAccounted, Shell!CommandsAreAccounted
<1>5. CASE followed = NoCommand /\ Shell!Follow(b)
  <2> USE <1>5 DEF Shell!Follow
  <2>1. Shell!TypeOK'
    BY <1>2, SMTT(30)
  <2>2. Shell!OpenIsFollowed'
    BY <1>1 DEF Shell!OpenIsFollowed
  <2>3. Shell!ResultCountedOnce' /\ Shell!AloneGetsItsOwn'
    BY <1>2 DEF Shell!ResultCountedOnce, Shell!AloneGetsItsOwn
  <2>4. ResultsComeOnce'
    BY <1>1, <1>2, <1>3 DEF ResultsComeOnce
  <2>5. AloneIsAlone'
    BY <1>1, <1>2 DEF AloneIsAlone
  <2>6. QED
    BY <2>1, <2>2, <2>3, <2>4, <2>5 DEF ShellIInv, CommandsAreAccounted, Shell!CommandsAreAccounted
<1>6. QED
  BY <1>4, <1>5

\* A result is appended behind the cursor.
LEMMA RecordEntryIInv ==
  ASSUME ShellIInv, NEW b \in Command, Shell!RecordEntry(b)
  PROVE  ShellIInv'
<1> USE NoCommandIsNone, ShellParts DEF Shell!TypeOK, Shell!RecordEntry
<1>1. /\ Len(entries') = Len(entries) + 1 /\ entries'[Len(entries) + 1] = b
      /\ \A i \in DOMAIN entries : entries'[i] = entries[i]
      /\ DOMAIN entries' = DOMAIN entries \cup {Len(entries) + 1}
  OBVIOUS
<1>2. b \in running /\ counted[b] = 0 /\ b \notin Shell!Finished
  BY DEF ResultsComeOnce
<1>3. Shell!Finished' = Shell!Finished \cup {b}
  BY <1>1 DEF Shell!Finished
<1>4. Shell!TypeOK'
  BY <1>1
<1>5. Shell!OpenIsFollowed' /\ Shell!ResultCountedOnce' /\ Shell!AloneGetsItsOwn'
  BY DEF Shell!OpenIsFollowed, Shell!ResultCountedOnce, Shell!AloneGetsItsOwn
<1>6. ResultsComeOnce'
  BY <1>1, <1>2, <1>3 DEF ResultsComeOnce, Shell!Finished
<1>7. AloneIsAlone'
  BY <1>1, <1>2 DEF AloneIsAlone
<1>8. QED
  BY <1>4, <1>5, <1>6, <1>7 DEF ShellIInv, CommandsAreAccounted, Shell!CommandsAreAccounted

\* The result of command b is counted, and given to the command that is
\* followed: to b itself when that one is alone.
LEMMA RecordBashKeeps ==
  ASSUME ShellIInv, NEW b \in Command, Shell!RecordBashExecution(b), counted[b] = 0,
         followed \in Command \ overlapped => b = followed,
         overlapped' = overlapped
  PROVE  /\ followed' = NoCommand
         /\ span' \in [Command -> {"none", "open", "completed", "incomplete"}]
         /\ matched' \in [Command -> Command \cup {NoCommand}]
         /\ counted' = [counted EXCEPT ![b] = 1]
         /\ \A c \in Command : span[c] # "none" => span'[c] # "none"
         /\ Shell!OpenIsFollowed' /\ Shell!ResultCountedOnce' /\ Shell!AloneGetsItsOwn'
<1> USE NoCommandIsNone, ShellParts DEF Shell!TypeOK, Shell!RecordBashExecution
<1>1. /\ followed' = NoCommand /\ counted' = [counted EXCEPT ![b] = 1]
      /\ span' \in [Command -> {"none", "open", "completed", "incomplete"}]
      /\ matched' \in [Command -> Command \cup {NoCommand}]
      /\ \A c \in Command : span[c] # "none" => span'[c] # "none"
  OBVIOUS
<1>2. Shell!OpenIsFollowed'
  BY <1>1 DEF Shell!OpenIsFollowed
<1>3. Shell!ResultCountedOnce'
  BY <1>1 DEF Shell!ResultCountedOnce
<1>4. Shell!AloneGetsItsOwn'
  BY <1>1 DEF Shell!AloneGetsItsOwn
<1>5. QED
  BY <1>1, <1>2, <1>3, <1>4

LEMMA MessageEndIInv ==
  ASSUME ShellIInv, NEW b \in Command, Shell!MessageEnd(b)
  PROVE  ShellIInv'
<1> USE NoCommandIsNone, ShellParts DEF Shell!TypeOK, Shell!MessageEnd
<1>1. b \in running /\ counted[b] = 0 /\ b \notin Shell!Finished
  BY DEF ResultsComeOnce
<1>2. followed \in Command \ overlapped => b = followed
  BY <1>1 DEF AloneIsAlone
<1>3. /\ followed' = NoCommand
      /\ span' \in [Command -> {"none", "open", "completed", "incomplete"}]
      /\ matched' \in [Command -> Command \cup {NoCommand}]
      /\ counted' = [counted EXCEPT ![b] = 1]
      /\ \A c \in Command : span[c] # "none" => span'[c] # "none"
      /\ Shell!OpenIsFollowed' /\ Shell!ResultCountedOnce' /\ Shell!AloneGetsItsOwn'
  BY <1>1, <1>2, RecordBashKeeps
<1>4. Shell!TypeOK'
  BY <1>3
<1>5. Shell!Finished' = Shell!Finished
  BY DEF Shell!Finished
<1>6. \A i \in DOMAIN entries : entries[i] # b
  BY <1>1 DEF Shell!Finished
<1>7. ResultsComeOnce' /\ AloneIsAlone'
  BY <1>3, <1>5, <1>6 DEF ResultsComeOnce, AloneIsAlone
<1>8. QED
  BY <1>3, <1>4, <1>7 DEF ShellIInv, CommandsAreAccounted, Shell!CommandsAreAccounted

LEMMA PollIInv ==
  ASSUME ShellIInv, NEW b \in Command, Shell!Poll(b)
  PROVE  ShellIInv'
<1> USE NoCommandIsNone, ShellParts DEF Shell!TypeOK, Shell!Poll, Shell!pi
<1>1. UNCHANGED <<running, entries, overlapped, session>> /\ timers' = timers \ {b}
  OBVIOUS
<1>2. Shell!Finished' = Shell!Finished
  BY <1>1 DEF Shell!Finished
<1>3. CASE followed # b /\ UNCHANGED <<followed, cursor, span, matched, counted>>
  <2>1. Shell!TypeOK'
    BY <1>1, <1>3
  <2>2. Shell!OpenIsFollowed' /\ Shell!ResultCountedOnce' /\ Shell!AloneGetsItsOwn'
    BY <1>1, <1>3 DEF Shell!OpenIsFollowed, Shell!ResultCountedOnce, Shell!AloneGetsItsOwn
  <2>3. ResultsComeOnce' /\ AloneIsAlone'
    BY <1>1, <1>2, <1>3 DEF ResultsComeOnce, AloneIsAlone
  <2>4. QED
    BY <2>1, <2>2, <2>3 DEF ShellIInv, CommandsAreAccounted, Shell!CommandsAreAccounted
<1>4. CASE /\ followed = b /\ cursor < Len(entries) /\ cursor' = Len(entries)
           /\ Shell!RecordBashExecution(entries[cursor + 1])
  <2> DEFINE found == entries[cursor + 1]
  <2>1. cursor + 1 \in DOMAIN entries /\ found \in Shell!Finished /\ found \in Command
    BY <1>4 DEF Shell!Finished
  <2>2. counted[found] = 0 /\ found \notin running
    BY <2>1 DEF ResultsComeOnce
  <2>3. followed \in Command \ overlapped => found = followed
    BY <1>4, <2>1 DEF AloneIsAlone
  <2>4. /\ followed' = NoCommand
        /\ span' \in [Command -> {"none", "open", "completed", "incomplete"}]
        /\ matched' \in [Command -> Command \cup {NoCommand}]
        /\ counted' = [counted EXCEPT ![found] = 1]
        /\ \A c \in Command : span[c] # "none" => span'[c] # "none"
        /\ Shell!OpenIsFollowed' /\ Shell!ResultCountedOnce' /\ Shell!AloneGetsItsOwn'
    BY <1>1, <1>4, <2>1, <2>2, <2>3, RecordBashKeeps
  <2>5. Shell!TypeOK'
    BY <1>1, <1>4, <2>1, <2>4
  <2>6. ResultsComeOnce' /\ AloneIsAlone'
    BY <1>1, <1>2, <1>4, <2>2, <2>4 DEF ResultsComeOnce, AloneIsAlone
  <2>7. QED
    BY <2>4, <2>5, <2>6 DEF ShellIInv, CommandsAreAccounted, Shell!CommandsAreAccounted
<1>5. QED
  BY <1>3, <1>4

\* What is followed is given up: a poll fails, or the session ends.
LEMMA ClosedIInv ==
  ASSUME ShellIInv,
         \/ \E b \in Command : Shell!PollFails(b)
         \/ Shell!EndAllActiveSpans \/ Shell!ClearSession
  PROVE  ShellIInv'
<1> USE NoCommandIsNone, ShellParts
    DEF Shell!TypeOK, Shell!PollFails, Shell!EndAllActiveSpans, Shell!ClearSession,
        Shell!ClosePending, Shell!pi
<1>1. /\ UNCHANGED <<running, entries, cursor, matched, counted, overlapped>>
      /\ timers' \subseteq timers
      /\ \/ UNCHANGED <<followed, span>>
         \/ /\ followed \in Command /\ followed' = NoCommand
            /\ span' = [span EXCEPT ![followed] = "incomplete"]
  OBVIOUS
<1>2. Shell!Finished' = Shell!Finished
  BY <1>1 DEF Shell!Finished
<1>3. Shell!TypeOK'
  BY <1>1
<1>4. Shell!OpenIsFollowed' /\ Shell!ResultCountedOnce' /\ Shell!AloneGetsItsOwn'
  BY <1>1 DEF Shell!OpenIsFollowed, Shell!ResultCountedOnce, Shell!AloneGetsItsOwn
<1>5. ResultsComeOnce' /\ AloneIsAlone'
  BY <1>1, <1>2 DEF ResultsComeOnce, AloneIsAlone
<1>6. QED
  BY <1>3, <1>4, <1>5 DEF ShellIInv, CommandsAreAccounted, Shell!CommandsAreAccounted

LEMMA ShellStep ==
  ASSUME ShellIInv, Shell!Next
  PROVE  ShellIInv'
  BY UserBashIInv, RecordEntryIInv, MessageEndIInv, PollIInv, ClosedIInv DEF Shell!Next

LEMMA ShellStutters ==
  ASSUME ShellIInv, UNCHANGED shellVars
  PROVE  ShellIInv'
<1> USE ShellParts DEF shellVars
<1>1. Shell!TypeOK' /\ Shell!Finished' = Shell!Finished
  BY DEF Shell!TypeOK, Shell!Finished
<1>2. Shell!OpenIsFollowed' /\ Shell!ResultCountedOnce' /\ Shell!AloneGetsItsOwn'
  BY DEF Shell!OpenIsFollowed, Shell!ResultCountedOnce, Shell!AloneGetsItsOwn
<1>3. ResultsComeOnce' /\ AloneIsAlone'
  BY <1>1 DEF ResultsComeOnce, AloneIsAlone
<1>4. QED
  BY <1>1, <1>2, <1>3 DEF ShellIInv, CommandsAreAccounted, Shell!CommandsAreAccounted

-----------------------------------------------------------------------------
(* The commands that ask the backends                                      *)

Requested == [st : {"done", "fetching", "reading"}, timer : {"off", "armed", "fired"},
              body : {"none", "open"}, size : Nat, try : 0..2,
              status : {"none", "ok", "missing", "error"},
              result : {"none", "rows", "empty", "failed", "skipped"}]

CommandShape == DOMAIN command = {"kind", "step", "tokens", "request", "config", "seen"}

\* A request that is done has no timer left, and an answered command has none
\* that is not done.
RequestsEnd ==
  /\ \A p \in DOMAIN request :
       request[p] \in Requested /\ (request[p].st = "done" => request[p].timer = "off")
  /\ command.step \notin {"asking", "over"} => DOMAIN request = {}
  /\ command.step = "over" => \A p \in DOMAIN request : request[p].st = "done"

\* The session an option names is the one the command is about; only /obs trace
\* has such options.
NamedSession ==
  /\ command.step = "idle" => command.tokens = <<>>
  /\ \A i \in DOMAIN command.tokens :
       command.tokens[i].opt \in {"session=", "value"} =>
         /\ command.kind = "trace"
         /\ command.request.scope = "session" /\ command.request.id = command.tokens[i].id

QueriesIInv ==
  /\ CommandShape /\ RequestsEnd /\ OneFailureHidesNone
  /\ NamedSession /\ AnswerOfOneSession
  /\ answer = Queries!NoAnswer \/ command.step = "over"

LEMMA QueriesInit == PartsInit => QueriesIInv
<1> SUFFICES ASSUME PartsInit
             PROVE  QueriesIInv
  OBVIOUS
<1> USE DEF PartsInit, Queries!Init
<1>1. CommandShape /\ RequestsEnd /\ NamedSession
  BY DEF CommandShape, RequestsEnd, NamedSession
<1>2. OneFailureHidesNone /\ AnswerOfOneSession
  BY DEF OneFailureHidesNone, Queries!OneFailureHidesNone,
     AnswerOfOneSession, Queries!AnswerOfOneSession, Queries!NoAnswer
<1>3. QED
  BY <1>1, <1>2 DEF QueriesIInv

\* The shapes a request can have: not sent, sent, and being read.
LEMMA RequestShapes ==
  /\ \A result \in {"none", "rows", "empty", "failed", "skipped"} :
       /\ Queries!Unsent(result) \in Requested
       /\ Queries!Unsent(result).st = "done" /\ Queries!Unsent(result).timer = "off"
  /\ \A try \in 0..2 : Queries!Sent(try) \in Requested /\ Queries!Sent(try).st = "fetching"
  /\ \A r \in Requested :
       Queries!ReadOn(r) \in Requested
       /\ (Queries!ReadOn(r).st = "done" => Queries!ReadOn(r).timer = "off")
  BY DEF Queries!Unsent, Queries!Sent, Queries!ReadOn, Queries!Settled, Requested

\* What comes of a response that was read whole is a settled request, or a second
\* attempt.
LEMMA ConcludedShape ==
  ASSUME NEW p, NEW r, NEW st, NEW next \in Queries!Concluded(p, r, st)
  PROVE  next \in Requested /\ (next.st = "done" => next.timer = "off")
<1>1. Queries!Results(p, st) \subseteq {"rows", "empty", "failed"}
  BY DEF Queries!Results, Queries!HealthResults, Queries!TempoResults, Queries!LokiResults,
     Queries!PrometheusResults
<1>2. next = Queries!Sent(2) \/ \E result \in Queries!Results(p, st) : next = Queries!Unsent(result)
  BY DEF Queries!Concluded, Queries!Settled
<1>3. QED
  BY <1>1, <1>2, RequestShapes

\* A step of the transport changes one request that is not done, and no command.
LEMMA TransportIInv ==
  ASSUME QueriesIInv, NEW p \in DOMAIN request, Queries!Transport(p)
  PROVE  QueriesIInv'
<1> USE DEF QueriesIInv
<1>1. UNCHANGED <<command, observed, answer>>
  BY DEF Queries!Transport, Queries!Respond, Queries!FetchFails, Queries!Chunk, Queries!BodyEnds,
     Queries!BodyFails, Queries!Timeout
<1>2. request[p] \in Requested /\ request[p].st # "done"
  BY DEF Queries!Transport, Queries!Respond, Queries!FetchFails, Queries!Chunk, Queries!BodyEnds,
     Queries!BodyFails, Queries!Timeout, RequestsEnd
<1>3. PICK next \in Requested : /\ request' = [request EXCEPT ![p] = next]
                                /\ next.st = "done" => next.timer = "off"
  <2>1. CASE Queries!Respond(p)
    <3>1. PICK st \in {"ok", "missing", "error"}, length \in {"within", "beyond"},
               stream \in {"none", "open"} :
            LET r == [request[p] EXCEPT !.body = stream, !.status = st] IN
            \E next \in IF p = "collector" THEN {Queries!Settled(r, Queries!Reachable(st))}
                        ELSE IF length = "beyond" THEN {Queries!Settled(r, "failed")}
                        ELSE IF stream = "none" THEN Queries!Concluded(p, r, st)
                        ELSE {Queries!ReadOn(r)} :
              request' = [request EXCEPT ![p] = next]
      BY <2>1 DEF Queries!Respond
    <3> DEFINE r == [request[p] EXCEPT !.body = stream, !.status = st]
    <3>2. r \in Requested
      BY <1>2 DEF Requested
    <3>3. Queries!Reachable(st) \in {"failed", "rows"}
      BY DEF Queries!Reachable
    <3>4. PICK next : /\ next \in IF p = "collector" THEN {Queries!Settled(r, Queries!Reachable(st))}
                                ELSE IF length = "beyond" THEN {Queries!Settled(r, "failed")}
                                ELSE IF stream = "none" THEN Queries!Concluded(p, r, st)
                                ELSE {Queries!ReadOn(r)}
                      /\ request' = [request EXCEPT ![p] = next]
      BY <3>1
    <3>5. CASE next \in Queries!Concluded(p, r, st)
      <4>1. next \in Requested /\ (next.st = "done" => next.timer = "off")
        BY <3>5, ConcludedShape
      <4>2. QED
        BY <3>4, <4>1
    <3>6. CASE next \notin Queries!Concluded(p, r, st)
      <4>1. next \in {Queries!Unsent("failed"), Queries!Unsent("rows"), Queries!ReadOn(r)}
        BY <3>3, <3>4, <3>6 DEF Queries!Settled
      <4>2. QED
        BY <3>2, <3>4, <4>1, RequestShapes
    <3>7. QED
      BY <3>5, <3>6
  <2>2. CASE Queries!FetchFails(p) \/ Queries!BodyFails(p)
    BY <2>2, RequestShapes DEF Queries!FetchFails, Queries!BodyFails, Queries!Settled
  <2>3. CASE Queries!Chunk(p)
    <3>1. [request[p] EXCEPT !.size = request[p].size + 1] \in Requested
      BY <1>2 DEF Requested
    <3> DEFINE read == Queries!ReadOn([request[p] EXCEPT !.size = request[p].size + 1])
    <3>2. \/ request' = [request EXCEPT ![p] = Queries!Unsent("failed")]
          \/ request' = [request EXCEPT ![p] = read]
      BY <2>3 DEF Queries!Chunk, Queries!Settled
    <3>3. read \in Requested /\ (read.st = "done" => read.timer = "off")
      BY <3>1, RequestShapes
    <3>4. QED
      BY <3>2, <3>3, RequestShapes
  <2>4. CASE Queries!BodyEnds(p)
    <3>1. PICK next \in Queries!Concluded(p, [request[p] EXCEPT !.body = "none"], request[p].status) :
            request' = [request EXCEPT ![p] = next]
      BY <2>4 DEF Queries!BodyEnds
    <3>2. next \in Requested /\ (next.st = "done" => next.timer = "off")
      BY ConcludedShape
    <3>3. QED
      BY <3>1, <3>2
  <2>5. CASE Queries!Timeout(p)
    <3>1. [request[p] EXCEPT !.timer = "fired"] \in Requested
            /\ [request[p] EXCEPT !.timer = "fired"].st = request[p].st
      BY <1>2 DEF Requested
    <3>2. QED
      BY <1>2, <2>5, <3>1, RequestShapes DEF Queries!Timeout, Queries!Settled
  <2>6. QED
    BY <2>1, <2>2, <2>3, <2>4, <2>5 DEF Queries!Transport
<1>4. command.step # "over" /\ command.step = "asking"
  BY <1>2 DEF RequestsEnd
<1>5. RequestsEnd'
  BY <1>1, <1>3, <1>4 DEF RequestsEnd
<1>6. OneFailureHidesNone'
  BY <1>1, <1>4 DEF OneFailureHidesNone, Queries!OneFailureHidesNone
<1>7. NamedSession' /\ AnswerOfOneSession'
  BY <1>1 DEF NamedSession, AnswerOfOneSession, Queries!AnswerOfOneSession
<1>8. QED
  BY <1>1, <1>5, <1>6, <1>7 DEF CommandShape

\* Sessions come and go without a word to the command that waits.
LEMMA SessionsIInv ==
  ASSUME QueriesIInv, UNCHANGED <<command, request, answer>>
  PROVE  QueriesIInv'
<1> USE DEF QueriesIInv
<1>1. CommandShape' /\ RequestsEnd' /\ NamedSession' /\ AnswerOfOneSession'
  BY DEF CommandShape, RequestsEnd, NamedSession, AnswerOfOneSession, Queries!AnswerOfOneSession
<1>2. OneFailureHidesNone'
  BY DEF OneFailureHidesNone, Queries!OneFailureHidesNone, Queries!With
<1>3. QED
  BY <1>1, <1>2

\* parseObsTraceOptions either refuses the options or takes the session that
\* they name.
LEMMA ParseNamesSession ==
  ASSUME NEW n \in Nat, NEW tokens \in [1..n -> Queries!Token],
         Queries!ParseTraceOptions(tokens) # Queries!Usage,
         NEW k \in DOMAIN tokens, tokens[k].opt \in {"session=", "value"}
  PROVE  /\ Queries!ParseTraceOptions(tokens).scope = "session"
         /\ Queries!ParseTraceOptions(tokens).id = tokens[k].id
<1>1. Len(tokens) = n /\ DOMAIN tokens = 1..n /\ tokens # <<>>
  OBVIOUS
<1>2. /\ Queries!Recognised(tokens, 1) /\ n = Queries!Width(tokens[1])
      /\ Queries!ParseTraceOptions(tokens) = Queries!RequestAt(tokens, 1)
  BY <1>1 DEF Queries!ParseTraceOptions, Queries!OnlyOption
<1>3. CASE tokens[1].opt = "session"
  <2>1. n = 2 /\ k = 2
    BY <1>1, <1>2, <1>3 DEF Queries!Width
  <2>2. QED
    BY <1>2, <1>3, <2>1 DEF Queries!RequestAt
<1>4. CASE tokens[1].opt # "session"
  <2>1. n = 1 /\ k = 1
    BY <1>1, <1>2, <1>4 DEF Queries!Width
  <2>2. tokens[1].opt = "session="
    BY <1>2, <1>4, <2>1 DEF Queries!Recognised
  <2>3. QED
    BY <1>2, <2>1, <2>2 DEF Queries!RequestAt
<1>5. QED
  BY <1>3, <1>4

\* A command begins: it is refused, or goes on with the session it was given.
LEMMA BeginIInv ==
  ASSUME QueriesIInv, Queries!Begin
  PROVE  QueriesIInv'
<1> USE QueryBoundsAreNat DEF QueriesIInv
<1>1. PICK kind \in Queries!Kind :
        \E tokens \in IF kind = "trace" THEN UNION {[1..n -> Queries!Token] : n \in 0..MaxOptions}
                      ELSE {<<>>, <<[opt |-> "bogus", id |-> 0]>>} :
          LET given == Queries!ParseTraceOptions(tokens) IN
            IF given = Queries!Usage
            THEN /\ command' = [command EXCEPT !.kind = kind, !.step = "over"]
                 /\ Queries!Tell("warning", {}, {}, 0, 0)
            ELSE /\ command' = [command EXCEPT !.kind = kind, !.step = Queries!FirstStep(kind),
                                               !.tokens = tokens, !.request = given]
                 /\ UNCHANGED answer
  BY DEF Queries!Begin
<1>2. PICK tokens :
        /\ tokens \in IF kind = "trace" THEN UNION {[1..n -> Queries!Token] : n \in 0..MaxOptions}
                     ELSE {<<>>, <<[opt |-> "bogus", id |-> 0]>>}
        /\ LET given == Queries!ParseTraceOptions(tokens) IN
             IF given = Queries!Usage
             THEN /\ command' = [command EXCEPT !.kind = kind, !.step = "over"]
                  /\ Queries!Tell("warning", {}, {}, 0, 0)
             ELSE /\ command' = [command EXCEPT !.kind = kind, !.step = Queries!FirstStep(kind),
                                                !.tokens = tokens, !.request = given]
                  /\ UNCHANGED answer
  BY <1>1
<1>3. command.step = "idle" /\ UNCHANGED <<request, observed>> /\ DOMAIN request = {}
      /\ answer = Queries!NoAnswer
  BY DEF Queries!Begin, RequestsEnd
<1>4. Queries!FirstStep(kind) \in {"session", "config"}
  BY DEF Queries!FirstStep
<1>5. CASE Queries!ParseTraceOptions(tokens) = Queries!Usage
  <2>1. /\ command' = [command EXCEPT !.kind = kind, !.step = "over"]
        /\ answer' = [type |-> "warning", rows |-> {}, unavailable |-> {}, session |-> 0, trace |-> 0]
    BY <1>2, <1>5 DEF Queries!Tell
  <2>2. command'.step = "over" /\ command'.tokens = command.tokens
        /\ (command'.kind = "trace" \/ command.kind # "trace" \/ command'.kind = kind)
    BY <2>1 DEF CommandShape
  <2>3. CommandShape' /\ RequestsEnd'
    BY <1>3, <2>1, <2>2 DEF CommandShape, RequestsEnd
  <2>4. OneFailureHidesNone' /\ AnswerOfOneSession'
    BY <1>3, <2>1 DEF OneFailureHidesNone, Queries!OneFailureHidesNone, Queries!With,
       AnswerOfOneSession, Queries!AnswerOfOneSession
  <2>5. NamedSession'
    <3>1. command.tokens = <<>>
      BY <1>3 DEF NamedSession
    <3>2. QED
      BY <2>2, <3>1 DEF NamedSession
  <2>6. QED
    BY <2>2, <2>3, <2>4, <2>5
<1>6. CASE Queries!ParseTraceOptions(tokens) # Queries!Usage
  <2>1. /\ command' = [command EXCEPT !.kind = kind, !.step = Queries!FirstStep(kind),
                            !.tokens = tokens, !.request = Queries!ParseTraceOptions(tokens)]
        /\ answer' = answer
    BY <1>2, <1>6
  <2>2. /\ command'.step \in {"session", "config"} /\ command'.tokens = tokens
        /\ command'.kind = kind /\ command'.request = Queries!ParseTraceOptions(tokens)
    BY <1>4, <2>1 DEF CommandShape
  <2>3. CommandShape' /\ RequestsEnd'
    BY <1>3, <2>1, <2>2 DEF CommandShape, RequestsEnd
  <2>4. OneFailureHidesNone' /\ AnswerOfOneSession'
    BY <1>3, <2>1, <2>2 DEF OneFailureHidesNone, Queries!OneFailureHidesNone,
       AnswerOfOneSession, Queries!AnswerOfOneSession, Queries!NoAnswer
  <2>5. NamedSession'
    <3>1. ASSUME NEW k \in DOMAIN tokens, tokens[k].opt \in {"session=", "value"}
          PROVE  /\ kind = "trace"
                 /\ Queries!ParseTraceOptions(tokens).scope = "session"
                 /\ Queries!ParseTraceOptions(tokens).id = tokens[k].id
      <4>1. kind = "trace"
        BY <1>2, <3>1
      <4>2. PICK n \in Nat : tokens \in [1..n -> Queries!Token]
        BY <1>2, <4>1
      <4>3. QED
        BY <1>6, <3>1, <4>1, <4>2, ParseNamesSession
    <3>2. QED
      BY <2>2, <3>1 DEF NamedSession
  <2>6. QED
    BY <1>3, <2>1, <2>3, <2>4, <2>5
<1>7. QED
  BY <1>5, <1>6

\* What a request is when it is launched: sent, or settled at once.
LEMMA StartedShape ==
  ASSUME NEW kind, NEW p, NEW config
  PROVE  /\ Queries!Started(kind, p, config) \in Requested
         /\ Queries!Started(kind, p, config).st = "done" =>
              Queries!Started(kind, p, config).timer = "off"
<1>1. Queries!Started(kind, p, config) \in
        {Queries!Sent(1), Queries!Unsent("skipped"), Queries!Unsent("failed")}
  BY DEF Queries!Started
<1>2. QED
  BY <1>1, RequestShapes

\* A command that goes on without an answer keeps what was named.
LEMMA GoesOn ==
  ASSUME QueriesIInv, CommandShape', answer' = answer, answer = Queries!NoAnswer,
         command.step # "idle", command'.step \in {"session", "config", "asking"},
         UNCHANGED <<command.tokens, command.kind, command.request>>,
         RequestsEnd'
  PROVE  QueriesIInv'
<1>1. NamedSession'
  BY DEF QueriesIInv, NamedSession
<1>2. OneFailureHidesNone' /\ AnswerOfOneSession'
  BY DEF OneFailureHidesNone, Queries!OneFailureHidesNone,
     AnswerOfOneSession, Queries!AnswerOfOneSession, Queries!NoAnswer
<1>3. QED
  BY <1>1, <1>2 DEF QueriesIInv

\* A command that ends without requests shows nothing of them.
LEMMA EndsEarly ==
  ASSUME QueriesIInv, CommandShape', command'.step = "over", command.step # "idle",
         UNCHANGED <<command.tokens, command.kind, command.request, request>>,
         DOMAIN request = {},
         NEW type, NEW shown, NEW trace, Queries!Tell(type, {}, {}, shown, trace),
         shown # 0 => trace = shown /\
           (command.kind = "trace" /\ command.request.scope = "session" => command.request.id = shown)
  PROVE  QueriesIInv'
<1> USE DEF Queries!Tell
<1>1. NamedSession' /\ RequestsEnd'
  BY DEF QueriesIInv, NamedSession, RequestsEnd
<1>2. OneFailureHidesNone'
  BY DEF OneFailureHidesNone, Queries!OneFailureHidesNone, Queries!With
<1>3. AnswerOfOneSession'
  BY DEF QueriesIInv, NamedSession, AnswerOfOneSession, Queries!AnswerOfOneSession
<1>4. QED
  BY <1>1, <1>2, <1>3 DEF QueriesIInv

\* The configuration arrives, and the requests are launched with it.
LEMMA LoadIInv ==
  ASSUME QueriesIInv, Queries!LoadConfig \/ Queries!ConfigFails \/ Queries!AgentsUnavailable
  PROVE  QueriesIInv'
<1>1. /\ command.step = "config" /\ DOMAIN request = {} /\ answer = Queries!NoAnswer
      /\ CommandShape
  BY DEF Queries!LoadConfig, Queries!ConfigFails, Queries!AgentsUnavailable, QueriesIInv, RequestsEnd
<1>2. CASE Queries!LoadConfig
  <2>1. PICK config \in Queries!Config :
          LET c == [command EXCEPT !.config = config] IN
            IF c.kind = "trace" THEN command' = [c EXCEPT !.step = "session"] /\ UNCHANGED request
            ELSE Queries!Launch(c, Queries!PartsOf(c.kind))
    BY <1>2 DEF Queries!LoadConfig
  <2> DEFINE c == [command EXCEPT !.config = config]
  <2>2. /\ DOMAIN c = DOMAIN command /\ c.tokens = command.tokens
        /\ c.kind = command.kind /\ c.request = command.request
    BY <1>1 DEF CommandShape
  <2>3. CASE c.kind = "trace"
    <3>1. /\ CommandShape' /\ command'.step = "session"
          /\ UNCHANGED <<command.tokens, command.kind, command.request>>
      BY <1>1, <2>1, <2>2, <2>3 DEF CommandShape
    <3>2. RequestsEnd'
      BY <1>1, <2>1, <2>3, <3>1 DEF RequestsEnd
    <3>3. QED
      BY <1>1, <1>2, <3>1, <3>2, GoesOn DEF Queries!LoadConfig
  <2>4. CASE c.kind # "trace"
    <3>1. Queries!Launch(c, Queries!PartsOf(c.kind))
      BY <2>1, <2>4
    <3>2. /\ CommandShape' /\ command'.step = "asking"
          /\ UNCHANGED <<command.tokens, command.kind, command.request>>
      BY <1>1, <2>2, <3>1 DEF Queries!Launch, CommandShape
    <3>3. RequestsEnd'
      BY <3>1, <3>2, StartedShape DEF Queries!Launch, RequestsEnd
    <3>4. QED
      BY <1>1, <1>2, <3>2, <3>3, GoesOn DEF Queries!LoadConfig
  <2>5. QED
    BY <2>3, <2>4
<1>3. CASE Queries!ConfigFails
  <2>1. /\ CommandShape' /\ command'.step = "over"
        /\ UNCHANGED <<command.tokens, command.kind, command.request, request>>
    BY <1>1, <1>3 DEF Queries!ConfigFails, CommandShape
  <2>2. Queries!Tell("error", {}, {}, 0, 0)
    BY <1>3 DEF Queries!ConfigFails
  <2>3. QED
    BY <1>1, <2>1, <2>2, EndsEarly
<1>4. CASE Queries!AgentsUnavailable
  <2>1. /\ CommandShape' /\ command'.step = "asking"
        /\ UNCHANGED <<command.tokens, command.kind, command.request>>
    BY <1>1, <1>4 DEF Queries!AgentsUnavailable, CommandShape
  <2>2. RequestsEnd'
    BY <1>4, <2>1, RequestShapes DEF Queries!AgentsUnavailable, RequestsEnd
  <2>3. QED
    BY <1>1, <1>4, <2>1, <2>2, GoesOn DEF Queries!AgentsUnavailable
<1>5. QED
  BY <1>2, <1>3, <1>4

\* The session is read: /obs trace and /obs session may be answered from it.
LEMMA SessionReadIInv ==
  ASSUME QueriesIInv, Queries!ResolveTarget \/ Queries!ShowSession \/ Queries!ReadSession
  PROVE  QueriesIInv'
<1>1. /\ command.step = "session" /\ DOMAIN request = {} /\ answer = Queries!NoAnswer
      /\ CommandShape
  BY DEF Queries!ResolveTarget, Queries!ShowSession, Queries!ReadSession, QueriesIInv, RequestsEnd
<1>2. ASSUME NEW type, NEW shown, Queries!Tell(type, {}, {}, shown, shown),
             command'.step = "over", UNCHANGED request,
             command' = [command EXCEPT !.step = "over", !.seen = Queries!Seen]
               \/ command' = [command EXCEPT !.step = "over"],
             shown # 0 /\ command.kind = "trace" /\ command.request.scope = "session" =>
               command.request.id = shown
      PROVE  QueriesIInv'
  <2>1. CommandShape' /\ UNCHANGED <<command.tokens, command.kind, command.request>>
    BY <1>1, <1>2 DEF CommandShape
  <2>2. QED
    BY <1>1, <1>2, <2>1, EndsEarly
<1>3. CASE Queries!ResolveTarget
  <2> DEFINE local == CASE command.request.scope = "session" -> Queries!Seen.id = command.request.id
                        [] command.request.scope = "last-turn" -> Queries!Seen.id # 0 /\ Queries!Seen.turned
                        [] OTHER -> Queries!Seen.id # 0
             c == [command EXCEPT !.seen = Queries!Seen]
  <2>1. CASE ~local /\ command.request.scope = "session"
    <3>1. Queries!Launch(c, {"search"}) /\ UNCHANGED answer
      BY <1>3, <2>1 DEF Queries!ResolveTarget
    <3>2. /\ DOMAIN c = DOMAIN command /\ c.tokens = command.tokens
          /\ c.kind = command.kind /\ c.request = command.request
      BY <1>1 DEF CommandShape
    <3>3. /\ CommandShape' /\ command'.step = "asking"
          /\ UNCHANGED <<command.tokens, command.kind, command.request>>
      BY <1>1, <3>1, <3>2 DEF Queries!Launch, CommandShape
    <3>4. RequestsEnd'
      BY <3>1, <3>3, StartedShape DEF Queries!Launch, RequestsEnd
    <3>5. QED
      BY <1>1, <3>1, <3>3, <3>4, GoesOn
  <2>2. CASE local \/ command.request.scope # "session"
    <3>1. /\ command' = [command EXCEPT !.step = "over", !.seen = Queries!Seen] /\ UNCHANGED request
          /\ IF local THEN Queries!Link(Queries!Seen.id) ELSE Queries!Tell("error", {}, {}, 0, 0)
      BY <1>3, <2>2 DEF Queries!ResolveTarget
    <3>2. command'.step = "over"
      BY <1>1, <3>1 DEF CommandShape
    <3>3. CASE local /\ command.config.link = "sound"
      <4>1. Queries!Tell("info", {}, {}, Queries!Seen.id, Queries!Seen.id)
        BY <3>1, <3>3 DEF Queries!Link
      <4>2. QED
        BY <1>2, <3>1, <3>2, <3>3, <4>1
    <3>4. CASE ~local \/ command.config.link # "sound"
      <4>1. Queries!Tell("error", {}, {}, 0, 0)
        BY <3>1, <3>4 DEF Queries!Link
      <4>2. QED
        BY <1>2, <3>1, <3>2, <4>1
    <3>5. QED
      BY <3>3, <3>4
  <2>3. QED
    BY <2>1, <2>2
<1>4. CASE Queries!ShowSession
  <2>1. command'.step = "over"
    BY <1>1, <1>4 DEF Queries!ShowSession, CommandShape
  <2>2. QED
    BY <1>2, <1>4, <2>1 DEF Queries!ShowSession
<1>5. CASE Queries!ReadSession
  <2>1. CASE command.kind = "logs" /\ Queries!Seen.id = 0
    <3>1. command'.step = "over"
      BY <1>1, <1>5, <2>1 DEF Queries!ReadSession, CommandShape
    <3>2. QED
      BY <1>2, <1>5, <2>1, <3>1 DEF Queries!ReadSession
  <2>2. CASE ~(command.kind = "logs" /\ Queries!Seen.id = 0)
    <3>1. /\ CommandShape' /\ command'.step = "config" /\ UNCHANGED <<answer, request>>
          /\ UNCHANGED <<command.tokens, command.kind, command.request>>
      BY <1>1, <1>5, <2>2 DEF Queries!ReadSession, CommandShape
    <3>2. RequestsEnd'
      BY <1>1, <3>1 DEF RequestsEnd
    <3>3. QED
      BY <1>1, <3>1, <3>2, GoesOn
  <2>3. QED
    BY <2>1, <2>2
<1>6. QED
  BY <1>3, <1>4, <1>5

\* A command is answered when all of its requests have settled.
LEMMA AnsweredIInv ==
  ASSUME QueriesIInv, NEW kind, Queries!Answer(kind),
         NEW type, NEW rows, NEW unavailable, NEW shown, NEW trace,
         Queries!Tell(type, rows, unavailable, shown, trace),
         shown # 0 => trace = shown /\
           (kind = "trace" /\ command.request.scope = "session" => command.request.id = shown),
         kind \in {"health", "tools", "agents"} =>
           /\ Queries!With("rows") \subseteq rows
           /\ Queries!With("failed") # {} => type # "info" /\ (type = "error" => Queries!With("rows") = {})
  PROVE  QueriesIInv'
<1>1. /\ CommandShape' /\ command'.step = "over" /\ command.step = "asking" /\ command.kind = kind
      /\ UNCHANGED <<command.tokens, command.kind, command.request, request>>
  BY DEF Queries!Answer, QueriesIInv, CommandShape
<1>2. NamedSession' /\ RequestsEnd'
  BY <1>1 DEF QueriesIInv, NamedSession, RequestsEnd, Queries!Answer, Queries!AllSettled
<1>3. OneFailureHidesNone'
  <2>1. \A result : Queries!With(result)' = Queries!With(result)
    BY <1>1 DEF Queries!With
  <2>2. QED
    BY <1>1, <2>1 DEF OneFailureHidesNone, Queries!OneFailureHidesNone, Queries!Tell
<1>4. AnswerOfOneSession'
  BY <1>1 DEF QueriesIInv, NamedSession, AnswerOfOneSession, Queries!AnswerOfOneSession, Queries!Tell
<1>5. QED
  BY <1>1, <1>2, <1>3, <1>4 DEF QueriesIInv

LEMMA AnswersIInv ==
  ASSUME QueriesIInv,
         \/ Queries!AnswerHealth \/ Queries!AnswerAgents \/ Queries!AnswerTools \/ Queries!AnswerCost
         \/ Queries!AnswerErrors \/ Queries!AnswerLogs \/ Queries!AnswerTrace
  PROVE  QueriesIInv'
<1>1. CASE Queries!AnswerHealth
  BY <1>1, AnsweredIInv DEF Queries!AnswerHealth, Queries!Shown
<1>2. CASE Queries!AnswerAgents
  BY <1>2, AnsweredIInv DEF Queries!AnswerAgents, Queries!Shown, Queries!SessionShown
<1>3. CASE Queries!AnswerTools
  BY <1>3, AnsweredIInv DEF Queries!AnswerTools, Queries!Shown
<1>4. CASE Queries!AnswerCost \/ Queries!AnswerErrors \/ Queries!AnswerLogs
  BY <1>4, AnsweredIInv DEF Queries!AnswerCost, Queries!AnswerErrors, Queries!AnswerLogs,
     Queries!AllOrError
<1>5. CASE Queries!AnswerTrace
  BY <1>5, AnsweredIInv DEF Queries!AnswerTrace, Queries!Link
<1>6. QED
  BY <1>1, <1>2, <1>3, <1>4, <1>5

LEMMA QueriesStep ==
  ASSUME QueriesIInv, Queries!Next
  PROVE  QueriesIInv'
  BY TransportIInv, SessionsIInv, BeginIInv, LoadIInv, SessionReadIInv, AnswersIInv
  DEF Queries!Next, Queries!Proceed, Queries!SessionStarts, Queries!TurnEnds, Queries!SessionEnds

LEMMA QueriesStutters ==
  ASSUME QueriesIInv, UNCHANGED queryVars
  PROVE  QueriesIInv'
  BY SessionsIInv DEF queryVars

-----------------------------------------------------------------------------
(* The four parts                                                          *)

WaitingIInv == ControllerIInv /\ BackfillIInv /\ ShellIInv /\ QueriesIInv

\* The four invariants hold together of every behaviour of a part.
THEOREM Inductive == PartsSpec => []WaitingIInv
<1> DEFINE allVars == <<part, vars, controllerVars, shellVars, queryVars>>
<1>1. PartsInit => WaitingIInv
  BY ControllerInit, BackfillInit, ShellInit, QueriesInit DEF WaitingIInv
<1>2. WaitingIInv /\ [PartsNext]_allVars => WaitingIInv'
  <2> SUFFICES ASSUME WaitingIInv, [PartsNext]_allVars
               PROVE  WaitingIInv'
    OBVIOUS
  <2>1. ControllerIInv /\ BackfillIInv /\ ShellIInv /\ QueriesIInv
    BY DEF WaitingIInv
  <2>2. Controller!Next \/ UNCHANGED controllerVars
    BY DEF PartsNext
  <2>3. Next \/ UNCHANGED vars
    BY DEF PartsNext
  <2>4. Shell!Next \/ UNCHANGED shellVars
    BY DEF PartsNext
  <2>5. Queries!Next \/ UNCHANGED queryVars
    BY DEF PartsNext
  <2>6. ControllerIInv'
    BY <2>1, <2>2, ControllerStep, ControllerStutters
  <2>7. BackfillIInv'
    BY <2>1, <2>3, BackfillStep, BackfillStutters
  <2>8. ShellIInv'
    BY <2>1, <2>4, ShellStep, ShellStutters
  <2>9. QueriesIInv'
    BY <2>1, <2>5, QueriesStep, QueriesStutters
  <2>10. QED
    BY <2>6, <2>7, <2>8, <2>9 DEF WaitingIInv
<1>3. QED
  BY <1>1, <1>2, PTL DEF PartsSpec

\* No exporter is lost, whichever signals fail to start, hang or settle after
\* the shutdown that waited for them: the SDK is released only when none holds
\* a resource, and one run of it is under way at a time (OtelController).
THEOREM ExportersAreKept == PartsSpec => []NothingIsLost
<1>1. WaitingIInv => NothingIsLost
  BY DEF WaitingIInv, ControllerIInv
<1>2. QED
  BY <1>1, Inductive, PTL

\* The controller keeps the promise of a pipeline, whichever signals fail, hang
\* or settle late: an attempt that timed out is never overtaken by another, no
\* exporter is given up but by an attempt in flight, and a pipeline that is down
\* holds none and stays down.
THEOREM PipelinesKeepTheirPromise == PartsSpec => ImplementsPipeline
<1> DEFINE allVars == <<part, vars, controllerVars, shellVars, queryVars>>
<1>1. PartsInit => AttemptsAreKnown /\ Controller!Contract!Init
  BY DEF PartsInit, Controller!Init, Controller!Run, AttemptsAreKnown, Phases, ShutdownsAreAwaited,
     Controller!Contract!Init, Controller!Life, Controller!Held
<1>2. WaitingIInv /\ AttemptsAreKnown /\ [PartsNext]_allVars => AttemptsAreKnown' /\ ContractStep
  <2> SUFFICES ASSUME WaitingIInv, AttemptsAreKnown, [PartsNext]_allVars
               PROVE  AttemptsAreKnown' /\ ContractStep
    OBVIOUS
  <2>1. ControllerIInv
    BY DEF WaitingIInv
  <2>2. Controller!Next \/ UNCHANGED controllerVars
    BY DEF PartsNext
  <2>3. CASE Controller!Next
    <3>1. Phases' /\ ShutdownsAreAwaited'
      BY <2>1, <2>3, PhasesKept, AwaitedKept DEF AttemptsAreKnown
    <3>2. QED
      BY <2>1, <2>3, <3>1, ControllerKeepsContract DEF AttemptsAreKnown
  <2>4. CASE UNCHANGED controllerVars
    BY <2>4, ControllerRests
  <2>5. QED
    BY <2>2, <2>3, <2>4
<1>3. WaitingIInv /\ AttemptsAreKnown /\ [PartsNext]_allVars =>
        [Controller!Contract!Next]_(Controller!Contract!vars)
  BY <1>2 DEF ContractStep
<1>4. WaitingIInv /\ AttemptsAreKnown /\ [PartsNext]_allVars => AttemptsAreKnown'
  BY <1>2
<1>5. QED
  BY <1>1, <1>3, <1>4, Inductive, PTL
  DEF PartsSpec, ImplementsPipeline, Controller!ImplementsPipeline, Controller!Contract!Spec

\* One span at a time is followed, a result is counted once, and a command that
\* ran alone is given its own result, in whatever order the shell's events, the
\* session's entries and the polls come (UserBash).
THEOREM ShellIsAccounted == PartsSpec => []CommandsAreAccounted
<1>1. WaitingIInv => CommandsAreAccounted
  BY DEF WaitingIInv, ShellIInv
<1>2. QED
  BY <1>1, Inductive, PTL

\* The summary of a backfill never calls a record unsent that may have been
\* sent, nor confirmed one that was not, though an emit that was given up may
\* still succeed (Backfill).
THEOREM SummariesAreHonest == PartsSpec => []CountsAreHonest
<1>1. WaitingIInv => CountsAreHonest
  BY BackfillHonest DEF WaitingIInv
<1>2. QED
  BY <1>1, Inductive, PTL

\* A backfill is said to be completed only when every record was sent, nobody
\* cancelled the run, and its exporter has shut down (Backfill).
THEOREM CompletedRuns == PartsSpec => CompletedIsComplete
<1>1. WaitingIInv /\ [PartsNext]_<<part, vars, controllerVars, shellVars, queryVars>> =>
        [told'.status = "completed" /\ told.status = "none" =>
           /\ world.sent = build'.selected /\ signal.run = "live"
           /\ exporter.st \in {"none", "stopped"} /\ op.promise \in {"none", "ok"}]_vars
  <2> SUFFICES ASSUME WaitingIInv, [PartsNext]_<<part, vars, controllerVars, shellVars, queryVars>>,
                      ~UNCHANGED vars, told'.status = "completed", told.status = "none"
               PROVE  /\ world.sent = build'.selected /\ signal.run = "live"
                      /\ exporter.st \in {"none", "stopped"} /\ op.promise \in {"none", "ok"}
    OBVIOUS
  <2>1. Next
    BY DEF PartsNext
  <2>2. QED
    BY <2>1, CompletedStep DEF WaitingIInv
<1>2. QED
  BY <1>1, Inductive, PTL DEF PartsSpec, CompletedIsComplete

\* The failure of one request of a command hides neither the rows of another
\* nor itself (GrafanaQueries).
THEOREM FailuresAreShown == PartsSpec => []OneFailureHidesNone
<1>1. WaitingIInv => OneFailureHidesNone
  BY DEF WaitingIInv, QueriesIInv
<1>2. QED
  BY <1>1, Inductive, PTL

\* An answer is about the session that was asked for, or the one that was read,
\* though another session begins while the backends are asked (GrafanaQueries).
THEOREM AnswersAreOfOneSession == PartsSpec => []AnswerOfOneSession
<1>1. WaitingIInv => AnswerOfOneSession
  BY DEF WaitingIInv, QueriesIInv
<1>2. QED
  BY <1>1, Inductive, PTL
=============================================================================
