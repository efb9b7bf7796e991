------------------------------ MODULE MCWaiting ------------------------------
(***************************************************************************)
(* Four parts that wait for what may come late or never, and share no      *)
(* state: the controller of a pipeline for its exporters (OtelController), *)
(* /obs backfill for its operations (Backfill), the telemetry of shell     *)
(* commands for their results (UserBash), and the /obs commands that ask   *)
(* the backends for their answers (GrafanaQueries).  A behaviour is one of *)
(* a part.                                                                 *)
(***************************************************************************)
EXTENDS Backfill

CONSTANTS
  Caller,                             \* as in OtelController
  Command, NoCommand, Channel,        \* as in UserBash
  MaxSessions, MaxChunks, MaxOptions  \* as in GrafanaQueries
ASSUME NoCommandIsNone == NoCommand \notin Command
ASSUME QueryBoundsAreNat == {MaxSessions, MaxChunks, MaxOptions} \subseteq Nat

VARIABLES
  part,  \* "controller", "backfill", "shell" or "queries"
  state, sdk, cleanup, settlement, race, composite, started, starting, signals,
  resource, member, status, caller,
  running, entries, followed, cursor, timers, span, matched, counted, overlapped, session,
  command, request, observed, answer

Controller == INSTANCE OtelController WITH pending <- settlement, signal <- signals
Shell == INSTANCE UserBash WITH pending <- followed
Queries == INSTANCE GrafanaQueries
             WITH part <- request, session <- observed, MaxTokens <- MaxOptions

controllerVars == <<state, sdk, cleanup, settlement, race, composite, started, starting,
                    signals, resource, member, status, caller>>
shellVars == <<running, entries, followed, cursor, timers, span, matched, counted,
               overlapped, session>>
queryVars == <<command, request, observed, answer>>

PartsInit ==
  /\ part \in {"controller", "backfill", "shell", "queries"}
  /\ Init /\ Controller!Init /\ Shell!Init /\ Queries!Init

PartsNext ==
  /\ UNCHANGED part
  /\ \/ part = "controller" /\ Controller!Next /\ UNCHANGED <<vars, shellVars, queryVars>>
     \/ part = "backfill" /\ Next /\ UNCHANGED <<controllerVars, shellVars, queryVars>>
     \/ part = "shell" /\ Shell!Next /\ UNCHANGED <<vars, controllerVars, queryVars>>
     \/ part = "queries" /\ Queries!Next /\ UNCHANGED <<vars, controllerVars, shellVars>>

\* The fairness of the four modules, each in its own part.
PartsSpec ==
  /\ PartsInit /\ [][PartsNext]_<<part, vars, controllerVars, shellVars, queryVars>>
  /\ \A r \in Controller!Run :
       /\ WF_controllerVars(part = "controller" /\ Controller!RunSettles(r))
       /\ WF_controllerVars(/\ part = "controller"
                            /\ Controller!ResultInTime(r) \/ Controller!TimedOut(r))
  /\ WF_vars(part = "backfill" /\ Proceed)
  /\ WF_vars(part = "backfill" /\ OperationTimesOut)
  /\ WF_vars(part = "backfill" /\ CleanupEnds)
  /\ \A b \in Command : WF_shellVars(part = "shell" /\ Shell!Poll(b))
  /\ WF_queryVars(part = "queries" /\ Queries!Proceed)
  /\ \A p \in Queries!Part :
       /\ WF_queryVars(part = "queries" /\ Queries!Overdue(p))
       /\ WF_queryVars(part = "queries" /\ Queries!Aborted(p))

-----------------------------------------------------------------------------
\* No exporter is lost, whichever signals fail, hang or settle late
\* (OtelController).
NothingIsLost == Controller!NothingIsLost

\* The controller keeps the promise of a pipeline, whichever signals fail, hang
\* or settle late (OtelController).
ImplementsPipeline == Controller!ImplementsPipeline

\* Every caller of shutdown() is answered, though exporters may hang
\* (OtelController).
ShutdownAnswers == Controller!ShutdownAnswers

\* One span at a time is open, a result is counted once, and a command that ran
\* alone is given its own (UserBash).
CommandsAreAccounted == Shell!CommandsAreAccounted

\* The span of a polled command ends, unless the command runs forever (UserBash).
ResultIsFound == Shell!ResultIsFound

\* An /obs command is answered and leaves nothing behind, whatever the backends
\* do (GrafanaQueries).
CommandSettles == Queries!CommandSettles

\* The failure of one request of a command hides no other (GrafanaQueries).
OneFailureHidesNone == Queries!OneFailureHidesNone

\* An answer is about one session (GrafanaQueries).
AnswerOfOneSession == Queries!AnswerOfOneSession
=============================================================================
