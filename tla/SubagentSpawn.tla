---------------------------- MODULE SubagentSpawn ----------------------------
(***************************************************************************)
(* Subagent telemetry of one session: the lifecycle operations of the      *)
(* integration API (src/pi/integration-api.ts), the spawn, wait and join   *)
(* registries behind them (src/pi/subagent-spawn.ts), the agent tree       *)
(* (src/pi/agent-tree-tracker.ts), the accounting of child failures, and   *)
(* what /obs agents shows of it (src/commands/obs-agents-runtime.ts).      *)
(*                                                                         *)
(* Every operation is synchronous, hence one action.  One that answers     *)
(* { ok: false } changes nothing and is no step.  Orchestrators call the   *)
(* operations in any order, for any number of children.                    *)
(***************************************************************************)
EXTENDS Integers, FiniteSets, BoundedMap

CONSTANTS
  Spawn,          \* spawn identifiers callers use
  Child,          \* child agent identifiers callers use
  WaitJoin,       \* wait and join identifiers callers use
  Unset,          \* an optional field that is undefined
  MaxSpawns,      \* limits.maxActiveSubagentSpawns
  MaxWaitJoins,   \* limits.maxActiveAgentWaits and maxActiveAgentJoins
  StartOptions,   \* options startWait and startJoin are called with
  EndOptions,     \* options endWait and endJoin are called with
  FalsePositive   \* pairs of tokens: the first seems archived with the second

Kind == {"wait", "join"}
Terminal == {"completed", "failed", "cancelled"}
FinalStatus == Terminal \cup {"orphaned"}
Status == {"starting", "active"} \cup FinalStatus
JoinStatus == Terminal \cup {"timeout", "unknown", "waiting"}
Token == {"failure", "recovery"} \X Child

Outcome == [childStatus : Status \cup {Unset},
            joinStatus  : JoinStatus \cup {Unset},
            propagated  : {"true", "false", Unset}]

ASSUME LimitsPositive ==
  {MaxSpawns, MaxWaitJoins} \subseteq Nat \ {0}
ASSUME OptionsTyped ==
  /\ EndOptions \subseteq Outcome
  /\ StartOptions \subseteq [spawn : Spawn \cup {Unset}, child : Child \cup {Unset},
                             outcome : Outcome]
ASSUME FalsePositiveTyped == FalsePositive \subseteq Token \X Token

VARIABLES
  spawns,      \* activeSubagentSpawns
  waiting,     \* activeAgentWaits and activeAgentJoins
  tree,        \* the child nodes of AgentTreeTracker (the root stays, see Tracked)
  accounting,  \* childFailureAccounting, its archive and both counters
  open,        \* observme_active_spans of each operation
  latencies,   \* history: spawn durations recorded, less one per ended spawn
  shown,       \* runtimeAgentsState: the children, and the hints of active waits and joins
  session      \* "open", or "closed" by endAllActiveSpans

vars == <<spawns, waiting, tree, accounting, open, latencies, shown, session>>

SpawnEntry == [key : Spawn, child : Child, launched : BOOLEAN]
WaitEntry  == [key : WaitJoin, spawn : Spawn \cup {Unset},
               child : Child \cup {Unset}, outcome : Outcome]

\* The registries respect their limits, and every value its type.
TypeOK ==
  /\ IsBoundedMap(spawns, SpawnEntry, MaxSpawns)
  /\ \A kind \in Kind : IsBoundedMap(waiting[kind], WaitEntry, MaxWaitJoins)
  /\ IsBoundedMap(tree, [key : Child, status : Status], MaxSpawns)
  /\ IsBoundedMap(accounting.exact, [key : Child, recovered : BOOLEAN], MaxSpawns)
  /\ accounting.archive \subseteq Token
  /\ {accounting.failures, accounting.recoveries} \subseteq [Child -> Nat]
  /\ open \in [Kind \cup {"spawn"} -> Int]
  /\ latencies \in [Spawn -> Nat]
  /\ shown.hints \subseteq Kind \X WaitJoin
  /\ session \in {"open", "closed"}

\* createEmptyObsAgentsRuntimeState
NothingShown == [children |-> <<>>, hints |-> {}]

Init ==
  /\ spawns = <<>>
  /\ waiting = [kind \in Kind |-> <<>>]
  /\ tree = <<>>
  /\ accounting = [exact |-> <<>>, archive |-> {},
                   failures |-> [c \in Child |-> 0],
                   recoveries |-> [c \in Child |-> 0]]
  /\ open = [operation \in Kind \cup {"spawn"} |-> 0]
  /\ latencies = [s \in Spawn |-> 0]
  /\ shown = NothingShown
  /\ session = "open"

-----------------------------------------------------------------------------
(* The agent tree.  Registering a child first moves its parent, the        *)
(* session's own agent, to the end of the map: of its MaxSpawns + 1 places *)
(* the children share MaxSpawns.                                           *)

Tracked(child) == Has(tree, child)
StatusOf(child) == Get(tree, child).status

\* isAgentStatusTransitionAllowed
TransitionAllowed(current, next) ==
  \/ current = next
  \/ current = "starting"
  \/ current = "active" /\ next # "starting"

\* registerAgent, for a child that is not in the tree.
Register(child) ==
  Set(tree, [key |-> child, status |-> "starting"], MaxSpawns)

\* updateStatus ignores an unknown agent and a transition it does not allow.
WithStatus(nodes, child, status) ==
  [i \in DOMAIN nodes |->
     IF nodes[i].key = child /\ TransitionAllowed(nodes[i].status, status)
       THEN [nodes[i] EXCEPT !.status = status]
       ELSE nodes[i]]

-----------------------------------------------------------------------------
(* What /obs agents shows.  Hints of waits and joins that are over, and     *)
(* that of the hints only the latest ten are kept, are left out.           *)

\* Fault: an evicted wait keeps its hint.
HintsOf_Kept(kind, entries) == {}
\* evictWaitJoinState
HintsOf(kind, entries) == {<<kind, entry.key>> : entry \in entries}

\* recordObsAgentWaitJoinHint
WithHint(hints, kind, id, active) ==
  IF active THEN hints \cup {<<kind, id>>} ELSE hints \ {<<kind, id>>}

\* updateObsAgentsRuntimeStateFromTree: the children the tree retains.
ShowTree == shown' = [shown EXCEPT !.children = tree']

-----------------------------------------------------------------------------
(* Child failures are counted once: recent children exactly, evicted ones  *)
(* in a membership filter, which has no false negatives.                   *)

Reported(account, what, child) ==
  \E token \in account.archive :
     token = <<what, child>> \/ <<<<what, child>>, token>> \in FalsePositive

Count(happened) == IF happened THEN 1 ELSE 0

\* Fault: the filter only learns of failures.
Archived_ForgetsRecoveries(entries) == {<<"failure", e.key>> : e \in entries}

\* archiveChildFailureAccounting
Archived(entries) ==
  {<<"failure", e.key>> : e \in entries}
    \cup {<<"recovery", e.key>> : e \in {f \in entries : f.recovered}}

\* recordChildFailureAccounting: what is new is counted, and remembered where
\* the child already is, in the filter or in the exact map.
Accounted(account, child, recoveryConfirmed) ==
  LET known    == Has(account.exact, child)
      archived == /\ ~known
                  /\ \/ Reported(account, "failure", child)
                     \/ Reported(account, "recovery", child)
      failed    == IF archived THEN Reported(account, "failure", child) ELSE known
      recovered == IF archived THEN Reported(account, "recovery", child)
                   ELSE known /\ Get(account.exact, child).recovered
      news  == {t \in {"failure", "recovery"} \X {child} :
                  IF t[1] = "failure" THEN ~failed
                  ELSE recoveryConfirmed /\ ~recovered}
      entry == [key |-> child, recovered |-> recovered \/ recoveryConfirmed]
  IN  [exact      |-> IF archived THEN account.exact
                      ELSE Set(account.exact, entry, MaxSpawns),
       archive    |-> account.archive \cup
                      (IF archived THEN news
                       ELSE Archived(Evicted(account.exact, entry, MaxSpawns))),
       failures   |-> [account.failures EXCEPT
                         ![child] = @ + Count(<<"failure", child>> \in news)],
       recoveries |-> [account.recoveries EXCEPT
                         ![child] = @ + Count(<<"recovery", child>> \in news)]]

-----------------------------------------------------------------------------
(* Spawns.                                                                 *)

\* Fault: launcherCompleted is not looked at.
Recorded_Always(entry) == 1

\* recordSubagentSpawnDuration: once per spawn state.
Recorded(entry) == Count(~entry.launched)

\* The end of a span and the removal of the spawn from its registry.
EndSpawn(entry) ==
  /\ spawns' = Delete(spawns, entry.key)
  /\ open' = [open EXCEPT !["spawn"] = @ - 1]
  /\ latencies' = [latencies EXCEPT ![entry.key] = @ + Recorded(entry) - 1]

\* Fault: only the tree is asked.
Retained_TreeOnly(child) == Tracked(child)

\* isChildAgentIdentifierRetained
Retained(child) ==
  Tracked(child) \/ \E entry \in Entries(spawns) : entry.child = child

StartSubagent(s, child) ==
  LET entry   == [key |-> s, child |-> child, launched |-> FALSE]
      evicted == Evicted(spawns, entry, MaxSpawns)
  IN  /\ session = "open"
      /\ ~Has(spawns, s)
      /\ ~Retained(child)
      /\ tree' = Register(child)
      /\ spawns' = Set(spawns, entry, MaxSpawns)
      /\ open' = [open EXCEPT !["spawn"] = @ + 1 - Cardinality(evicted)]
      /\ latencies' = [i \in Spawn |-> IF i \in {e.key : e \in evicted} THEN 0
                                       ELSE latencies[i]]
      /\ ShowTree
      /\ UNCHANGED <<waiting, accounting, session>>

\* A repeated call finds launcherCompleted set, and changes nothing.
CompleteSubagentLaunch(entry) ==
  /\ session = "open"
  /\ ~entry.launched
  /\ Tracked(entry.child)
  /\ StatusOf(entry.child) = "starting"
  /\ latencies' = [latencies EXCEPT ![entry.key] = @ + Recorded(entry)]
  /\ spawns' = Set(spawns, [entry EXCEPT !.launched = TRUE], MaxSpawns)
  /\ tree' = WithStatus(tree, entry.child, "active")
  /\ ShowTree
  /\ UNCHANGED <<waiting, accounting, open, session>>

\* validateSpawnChildTransition
MayComplete(entry, status) ==
  /\ Tracked(entry.child)
  /\ TransitionAllowed(StatusOf(entry.child), status)

CompleteSubagent(entry, status) ==
  /\ session = "open"
  /\ MayComplete(entry, status)
  /\ tree' = WithStatus(tree, entry.child, status)
  /\ accounting' = IF status = "failed"
                     THEN Accounted(accounting, entry.child, FALSE)
                     ELSE accounting
  /\ EndSpawn(entry)
  /\ ShowTree
  /\ UNCHANGED <<waiting, session>>

\* validateLauncherFailureTransition
MayFail(entry) ==
  Tracked(entry.child) /\ StatusOf(entry.child) = "starting"

FailSubagent(entry) ==
  /\ session = "open"
  /\ MayFail(entry)
  /\ tree' = WithStatus(tree, entry.child, "failed")
  /\ EndSpawn(entry)
  /\ ShowTree
  /\ UNCHANGED <<waiting, accounting, session>>

-----------------------------------------------------------------------------
(* runSubagentWithObservability: a runner launches the child and waits.    *)

\* classifyObservMeRunnerOutcome: the status that ends the child, of a result
\* and of a launch the caller aborted.
Ending == [completed |-> "completed", failed |-> "failed", cancelled |-> "cancelled",
           launch_aborted |-> "cancelled"]

\* A result implies the launch, which is completed first; a child that was not
\* known to be launched ends in the same state.
RunnerEndsChild(entry, settlement) ==
  settlement \in DOMAIN Ending /\ CompleteSubagent(entry, Ending[settlement])

\* A result may also be a timeout of the wait: the spawn stays.
RunnerGivesUp(entry, settlement) ==
  settlement = "timeout" /\ CompleteSubagentLaunch(entry)

RunnerFailsToLaunch(entry, settlement) ==
  settlement = "launch_failed" /\ FailSubagent(entry)

\* retainActiveSubagentRunnerOutcome: a wait that was aborted or failed says
\* nothing of the child but that it was launched, whether or not the spawn is
\* still registered.
RunnerLosesChild(child) ==
  /\ session = "open"
  /\ Tracked(child) /\ StatusOf(child) = "starting"
  /\ tree' = WithStatus(tree, child, "active")
  /\ ShowTree
  /\ UNCHANGED <<spawns, waiting, accounting, open, latencies, session>>

-----------------------------------------------------------------------------
(* Waits and joins.                                                        *)

\* activateStartingWaitJoinChild
Activated(child, outcome) ==
  IF outcome.childStatus = "active" /\ Tracked(child) /\ StatusOf(child) = "starting"
    THEN WithStatus(tree, child, "active")
    ELSE tree

\* resolveAgentWaitJoinStart refuses an identifier in use.
IdTaken(kind, id) == Has(waiting[kind], id)

StartWaitJoin(kind, id, options) ==
  LET entry == [key |-> id, spawn |-> options.spawn, child |-> options.child,
                outcome |-> options.outcome]
      evicted == Evicted(waiting[kind], entry, MaxWaitJoins)
  IN  /\ session = "open"
      /\ ~IdTaken(kind, id)
      /\ waiting' = [waiting EXCEPT ![kind] = Set(@, entry, MaxWaitJoins)]
      /\ open' = [open EXCEPT ![kind] = @ + 1 - Cardinality(evicted)]
      /\ tree' = Activated(options.child, options.outcome)
      /\ shown' = [children |-> IF tree' = tree THEN shown.children ELSE tree',
                   hints |-> WithHint(shown.hints \ HintsOf(kind, evicted), kind, id, TRUE)]
      /\ UNCHANGED <<spawns, accounting, latencies, session>>

\* resolveWaitJoinCompletionOptions: what the end leaves out, the start gave.
Resolved(started, given) ==
  [field \in DOMAIN given |->
     IF given[field] = Unset THEN started[field] ELSE given[field]]

\* validateWaitJoinTransition.  A spawn id that has come to name another child
\* blocks the end, and so does a child status the tree would not take.
MayEndWaitJoin(entry, outcome) ==
  \/ Unset \in {entry.child, outcome.childStatus}
  \/ /\ Has(spawns, entry.spawn) => Get(spawns, entry.spawn).child = entry.child
     /\ Tracked(entry.child) =>
          TransitionAllowed(StatusOf(entry.child), outcome.childStatus)

\* recordChildJoinAccounting
JoinAccounted(account, kind, child, outcome) ==
  IF kind = "join" /\ child # Unset /\ outcome.childStatus = "failed"
    THEN Accounted(account, child,
                   outcome.propagated = "false" /\ outcome.joinStatus = "completed")
    ELSE account

EndWaitJoin(kind, entry, given) ==
  LET outcome == Resolved(entry.outcome, given)
  IN  /\ session = "open"
      /\ MayEndWaitJoin(entry, outcome)
      /\ tree' = IF outcome.childStatus = Unset THEN tree
                 ELSE WithStatus(tree, entry.child, outcome.childStatus)
      /\ waiting' = [waiting EXCEPT ![kind] = Delete(@, entry.key)]
      /\ open' = [open EXCEPT ![kind] = @ - 1]
      /\ accounting' = JoinAccounted(accounting, kind, entry.child, outcome)
      /\ shown' = [children |-> tree', hints |-> WithHint(shown.hints, kind, entry.key, FALSE)]
      /\ UNCHANGED <<spawns, latencies, session>>

-----------------------------------------------------------------------------
(* The teardown: interruptActiveSubagentOperations cancels every spawn,    *)
(* wait and join, then endAllActiveSpans empties what is left.             *)

\* Fault: children whose launch never completed are forgotten.
SpawnedChildren_Launched == {entry.child : entry \in {e \in Entries(spawns) : e.launched}}

SpawnedChildren == {entry.child : entry \in Entries(spawns)}
AwaitedChildren(kind) == {entry.child : entry \in Entries(waiting[kind])}

\* resolveInterruptedChildStatus: a child that ended keeps its status.
InterruptedStatus(nodes, child) ==
  IF Has(nodes, child) /\ Get(nodes, child).status \in FinalStatus
    THEN Get(nodes, child).status
    ELSE "cancelled"

\* What the cancellations make of the tree, in whatever order they come.
Cancelled(nodes, children) ==
  [i \in DOMAIN nodes |->
     IF nodes[i].key \in children
       THEN [nodes[i] EXCEPT !.status = InterruptedStatus(nodes, nodes[i].key)]
       ELSE nodes[i]]

\* Joins are cancelled last, in their order, and their children's statuses are
\* final by then.
CancelJoinAccounts(nodes) ==
  LET joins == waiting["join"]
      Given(child) == [childStatus |-> InterruptedStatus(nodes, child),
                       joinStatus |-> "cancelled", propagated |-> Unset]
      after[n \in 0 .. Len(joins)] ==
        IF n = 0 THEN accounting
        ELSE JoinAccounted(after[n - 1], "join", joins[n].child,
                           Resolved(joins[n].outcome, Given(joins[n].child)))
  IN  after[Len(joins)]

Interrupt ==
  LET cancelled == Cancelled(tree, SpawnedChildren \cup AwaitedChildren("wait")
                                     \cup AwaitedChildren("join"))
      account   == CancelJoinAccounts(cancelled)
  IN  /\ session = "open"
      /\ session' = "closed"
      /\ tree' = cancelled
      /\ accounting' = [account EXCEPT !.exact = <<>>, !.archive = {}]
      /\ latencies' = [s \in Spawn |->
           IF Has(spawns, s) THEN latencies[s] + Recorded(Get(spawns, s)) - 1
           ELSE latencies[s]]
      /\ open' = [open EXCEPT !["spawn"] = @ - Len(spawns),
                              !["wait"] = @ - Len(waiting["wait"]),
                              !["join"] = @ - Len(waiting["join"])]
      /\ spawns' = <<>>
      /\ waiting' = [kind \in Kind |-> <<>>]
      \* clearObsAgentsRuntimeState, at the end of the shutdown
      /\ shown' = NothingShown

-----------------------------------------------------------------------------
Next ==
  \/ \E s \in Spawn, child \in Child : StartSubagent(s, child)
  \/ \E entry \in Entries(spawns) :
       \/ CompleteSubagentLaunch(entry)
       \/ FailSubagent(entry)
       \/ \E status \in Terminal : CompleteSubagent(entry, status)
       \/ \E settlement \in DOMAIN Ending \cup {"timeout", "launch_failed"} :
            \/ RunnerEndsChild(entry, settlement)
            \/ RunnerGivesUp(entry, settlement)
            \/ RunnerFailsToLaunch(entry, settlement)
  \/ \E child \in Child : RunnerLosesChild(child)
  \/ \E kind \in Kind :
       \/ \E id \in WaitJoin, options \in StartOptions :
            StartWaitJoin(kind, id, options)
       \/ \E entry \in Entries(waiting[kind]), given \in EndOptions :
            EndWaitJoin(kind, entry, given)
  \/ Interrupt

Spec == Init /\ [][Next]_vars

-----------------------------------------------------------------------------
(* Properties.                                                             *)

\* No span leaks and none is ended twice: the active-span gauge of each
\* operation is the number of operations still reachable by their id, also
\* across evictions, reuse of ids and the teardown.
EverySpanReachable ==
  /\ open["spawn"] = Len(spawns)
  /\ \A kind \in Kind : open[kind] = Len(waiting[kind])

\* observme_subagent_spawn_duration_ms has exactly one value of each spawn that
\* ended, and of each active one whose launch completed.
LatencyRecordedOnce ==
  \A s \in Spawn :
    latencies[s] = Count(Has(spawns, s) /\ Get(spawns, s).launched)

\* The spawns, waits and joins of a session are accounted for, within the limits
\* of their registries.
OperationsAreAccounted == TypeOK /\ EverySpanReachable /\ LatencyRecordedOnce

\* A child's failure, and its parent's recovery from it, are counted at most
\* once in a session, however often completions and joins are repeated and
\* whatever the bounded accounting evicted in between.
NeverRecounted ==
  \A child \in Child :
    accounting.failures[child] <= 1 /\ accounting.recoveries[child] <= 1

\* Two active spawns never share a child: its node in the tree may be gone,
\* the identifier is refused all the same.
OneSpawnPerChild ==
  \A i, j \in DOMAIN spawns : spawns[i].child = spawns[j].child => i = j

\* While the tree retains a child, a final status is never rewritten.
FinalStatusKept ==
  [][\A child \in Child :
       (Tracked(child) /\ Tracked(child)' /\ StatusOf(child) \in FinalStatus)
          => StatusOf(child)' = StatusOf(child)]_vars

\* The teardown leaves no child of an active spawn, wait or join that the
\* tree still shows as running.
TeardownStopsChildren ==
  [][session' # session =>
       \A child \in Keys(tree) :
         (\/ \E entry \in Entries(spawns) : entry.child = child
          \/ \E kind \in Kind : \E entry \in Entries(waiting[kind]) : entry.child = child)
            => StatusOf(child)' \in FinalStatus]_vars

\* A child that ended stays ended, and the teardown ends the others.
ChildrenEndOnce == FinalStatusKept /\ TeardownStopsChildren

\* /obs agents shows the children and their statuses as the tree has them, and
\* no wait or join as going on that has ended, was evicted or torn down.
ViewIsCurrent ==
  /\ session = "open" => shown.children = tree
  /\ \A hint \in shown.hints : Has(waiting[hint[1]], hint[2])

\* docs/extension-integration.md, reasons of a refusal: completeSubagent
\* answers invalid_terminal_transition only when the call would rewrite an
\* existing terminal tree state.
RefusalMeansTerminal ==
  session = "open" =>
    \A entry \in Entries(spawns), status \in Terminal :
      ~MayComplete(entry, status) =>
        Tracked(entry.child) /\ StatusOf(entry.child) \in FinalStatus
=============================================================================
