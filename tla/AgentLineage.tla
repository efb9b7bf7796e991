---------------------------- MODULE AgentLineage ----------------------------
(***************************************************************************)
(* The lineage of the agents of a workflow: what a parent hands to the     *)
(* process of a child (buildSubagentPropagationEnvironment), what a        *)
(* starting session makes of its environment (src/pi/agent-lineage.ts),    *)
(* and the correlation entry by which a resumed, reloaded or forked        *)
(* session takes its lineage up again (src/pi/session-correlation.ts and   *)
(* handleSessionStart of src/pi/event-handlers/lifecycle.ts).              *)
(*                                                                         *)
(* A workflow is named by the agent it was generated with, a trace context *)
(* by the spawn whose span it is.  Launchers lose variables, replace the   *)
(* trace context by their own, or hand on what they inherited themselves.  *)
(***************************************************************************)
EXTENDS Integers, SequencesExt, FiniteSets, FiniteSetsExt

CONSTANTS
  Process,     \* Pi processes; a process that exited may be started again
  Persistent,  \* those whose configuration has agent.writeCorrelationEntry
  File,        \* session files
  Unset,       \* a variable or field that is undefined; no process, session or entry
  Partial,     \* a pair of variables of which one is missing, or a malformed value
  Foreign,     \* an entry of another version, or a corrupt one
  MaxDepth,    \* the deepest parent an envelope or an entry may name (64 in the code)
  MaxAgents,   \* bound: generated identifiers
  MaxSpawns,   \* bound: calls of startSubagent
  MaxEntries   \* bound: correlation entries of a branch
ASSUME BoundsAreNat == {MaxDepth, MaxAgents, MaxSpawns, MaxEntries} \subseteq Nat
ASSUME PersistentTyped == Persistent \subseteq Process

Capability == "reviewing"

\* ObservMeCorrelationEntryData: an optional field may be undefined.
Entry ==
  [workflow : Nat, agent : Nat, parent : Nat \cup {Unset}, root : Nat, depth : Nat,
   session : File \cup {Unset}, spawn : Nat \cup {Unset}, capability : {Capability, Unset}]

ASSUME MarksAreDistinct ==
  /\ Unset # Partial
  /\ \A mark \in {Unset, Partial} : mark \notin Nat \cup File \cup {"set", "whole", Capability}
  /\ Unset \notin Entry

VARIABLES
  env,      \* the environment each process was started with, or Unset
  sessions, \* the session each process runs, or Unset
  branch,   \* the correlation entries on the active branch of each file
  spawned,  \* history: what each spawn said of its child
  agents    \* the number of generated identifiers

vars == <<env, sessions, branch, spawned, agents>>

\* The variables of an envelope.  "state" is tracestate, "meta" the pair of the
\* parent's trace and span, "upper" the W3C names in capitals, "identity" the
\* marker with display name, role and capability.
Clean ==
  [workflow |-> Unset, agent |-> Unset, parent |-> Unset, root |-> Unset, session |-> Unset,
   depth |-> Unset, spawn |-> Unset, trace |-> Unset, state |-> Unset, meta |-> Unset,
   upper |-> Unset, identity |-> Unset]
Name == DOMAIN Clean

Init ==
  /\ env = [p \in Process |-> Unset]
  /\ sessions = [p \in Process |-> Unset]
  /\ branch = [f \in File |-> <<>>]
  /\ spawned = {}
  /\ agents = 0

-----------------------------------------------------------------------------
(* The environment of a child                                              *)

\* sanitizePropagationEnvironment clears every name of the envelope.
Sanitized(base) == [name \in Name |-> Unset]

\* buildSubagentPropagationEnvironment.  A full launch has a valid span with a
\* tracestate, and a descriptor; the other has none of them.
Envelope(base, parent, file, spawn, full) ==
  LET clean == Sanitized(base)
      context == IF full THEN spawn ELSE clean.trace
  IN  [workflow |-> parent.workflow, agent |-> clean.agent, parent |-> parent.agent,
       root |-> parent.root, depth |-> parent.depth, session |-> file, spawn |-> spawn,
       trace |-> context, meta |-> context, state |-> IF full THEN "set" ELSE clean.state,
       upper |-> clean.upper, identity |-> IF full THEN "whole" ELSE clean.identity]

\* What arrives: all of it, all but one variable, or with a trace context that
\* is the launcher's own or malformed.
Without(envelope, name) ==
  [envelope EXCEPT ![name] = CASE @ = Unset -> Unset
                               [] @ # Unset /\ name \in {"meta", "identity"} -> Partial
                               [] OTHER -> Unset]
Delivered(envelope) ==
  {envelope, [envelope EXCEPT !.trace = 0], [envelope EXCEPT !.trace = Partial]} \cup
    {Without(envelope, name) : name \in Name}

-----------------------------------------------------------------------------
(* What a session makes of its environment                                 *)

Required == {"workflow", "parent", "root", "depth", "spawn"}

\* readPropagatedChildIdentity: a descriptor without a marker, or the reverse.
IdentityRefused(e) == e.identity = Partial
ValuesRefused(e) == e.depth # Unset /\ e.depth > MaxDepth
\* readValidatedParentTraceContext
ContextRefused(e) ==
  e.upper # Unset \/ e.trace = Partial \/ (e.trace = Unset /\ e.state # Unset)
\* Fault: the trace context is not compared with the metadata.
MetadataRefused_Alone(e) == e.meta = Partial
\* assertConsistentParentTraceMetadata
MetadataRefused(e) == e.meta = Partial \/ (Unset \notin {e.trace, e.meta} /\ e.trace # e.meta)
\* assertCompletePropagationEnvelope
Incomplete(e) ==
  /\ \E name \in Name : e[name] # Unset
  /\ e.agent # Unset \/ \E name \in Required : e[name] = Unset

\* resolveTrustedPropagation; a refused envelope is not used at all.
Refused(e, recovered) ==
  \/ IdentityRefused(e) \/ ValuesRefused(e) \/ ContextRefused(e) \/ MetadataRefused(e)
  \/ recovered = Unset /\ Incomplete(e)

Or(value, default) == IF value = Unset THEN default ELSE value
RecoveredCapability(recovered) == IF recovered = Unset THEN Unset ELSE recovered.capability

\* createAgentLineageContext; recovered is the entry that was laid over the
\* environment, if any, and new the identifier that may be generated.
Lineage(e, recovered, new) ==
  LET refused == Refused(e, recovered)
      propagated == IF refused THEN Clean ELSE e
      agent == Or(propagated.agent, new)
  IN  [workflow |-> Or(propagated.workflow, new), agent |-> agent,
       parent |-> propagated.parent, root |-> Or(propagated.root, agent),
       depth |-> IF propagated.parent = Unset THEN 0 ELSE Or(propagated.depth, 0) + 1,
       session |-> propagated.session, spawn |-> propagated.spawn,
       capability |-> Or(RecoveredCapability(recovered),
                        IF propagated.identity = "whole" THEN Capability ELSE Unset),
       orphaned |-> refused \/ (propagated.parent # Unset /\ propagated.root = Unset)]

\* resolveSessionTraceParent: the trace context is continued; without one the
\* metadata is linked to, and the failure recorded
\* (recordSessionTracePropagationFailure).
TraceParent(e, recovered, parent) ==
  LET refused == Refused(e, recovered)
      continued == IF refused THEN Unset ELSE e.trace
      link == IF refused \/ continued # Unset THEN Unset ELSE e.meta
  IN  [continued |-> continued, link |-> link,
       lost |-> continued = Unset /\ (refused \/ {link, parent} # {Unset})]

-----------------------------------------------------------------------------
(* Correlation entries                                                     *)

Data(lineage) ==
  [name \in {"workflow", "agent", "parent", "root", "depth", "session", "spawn", "capability"} |->
     lineage[name]]

\* isConsistentCorrelationLineage and readCorrelationDepth
Consistent(data) ==
  CASE data.depth = 0 -> data.parent = Unset /\ data.root = data.agent
    [] OTHER -> /\ data.depth <= MaxDepth
                /\ data.parent # Unset /\ data.agent \notin {data.parent, data.root}
                /\ data.depth = 1 <=> data.parent = data.root

\* readLatestSessionCorrelation passes over what it cannot read.
\* Fault: only the newest entry is looked at.
LatestEntry_Newest(entries) ==
  IF entries = <<>> \/ Last(entries) = Foreign THEN Unset ELSE Last(entries)
LatestEntry(entries) ==
  LET readable == {i \in DOMAIN entries : entries[i] # Foreign} IN
    IF readable = {} THEN Unset ELSE entries[Max(readable)]

\* Fault: the depth of the agent is taken for that of its parent.
ParentDepth_Own(entry) == entry.depth
\* recoveryPropagationDepth
ParentDepth(entry) == IF entry.parent = Unset THEN entry.depth ELSE entry.depth - 1

\* buildRecoveryLineageEnv: the entry is laid over the environment.
Recovery(e, entry) ==
  [e EXCEPT !.workflow = entry.workflow, !.agent = entry.agent, !.root = entry.root,
            !.parent = Or(entry.parent, @), !.session = Or(entry.session, @),
            !.spawn = Or(entry.spawn, @), !.depth = ParentDepth(entry)]

\* The lineage of a session that starts, which entry it recovered, and whether
\* it has an entry to write.  One flag of the configuration, agent.writeCorrelationEntry,
\* governs reading and writing.
Started(p, f) ==
  LET entry == IF p \in Persistent THEN LatestEntry(branch[f]) ELSE Unset
      e == IF entry # Unset THEN Recovery(env[p], entry) ELSE env[p]
      lineage == Lineage(e, entry, agents + 1)
  IN  [session |-> [file |-> f, lineage |-> lineage, recovered |-> entry,
                    trace |-> TraceParent(e, entry, lineage.parent)],
       writes |-> p \in Persistent /\ Consistent(Data(lineage)) /\ Data(lineage) # entry,
       generated |-> lineage.agent = agents + 1]

-----------------------------------------------------------------------------
Running(p) == sessions[p] # Unset
LineageOf(p) == sessions[p].lineage

\* A user starts Pi; some tools export their own trace context, some in capitals.
StartProcess(p) ==
  /\ env[p] = Unset
  /\ \E own \in {Clean, [Clean EXCEPT !.upper = "set"], [Clean EXCEPT !.trace = 0]} :
       env' = [env EXCEPT ![p] = own]
  /\ UNCHANGED <<sessions, branch, spawned, agents>>

\* handleSessionStart: a new session, or an existing one, also while one runs.
\* An append that fails is passed over.
StartSession(p, f) ==
  /\ env[p] # Unset /\ agents < MaxAgents
  /\ LET started == Started(p, f) IN
         /\ sessions' = [sessions EXCEPT ![p] = started.session]
         /\ \/ UNCHANGED branch
            \/ /\ started.writes /\ Len(branch[f]) < MaxEntries
               /\ branch' = [branch EXCEPT ![f] = Append(@, Data(started.session.lineage))]
         /\ agents' = IF started.generated THEN agents + 1 ELSE agents
  /\ UNCHANGED <<env, spawned>>

\* Pi copies the branch up to some entry into a new file.
Fork(f, g) ==
  /\ branch[g] = <<>> /\ \A p \in Process : Running(p) => sessions[p].file # g
  /\ \E n \in 1..Len(branch[f]) : branch' = [branch EXCEPT ![g] = SubSeq(branch[f], 1, n)]
  /\ UNCHANGED <<env, sessions, spawned, agents>>

\* Another version of the extension leaves an entry that this one cannot read.
WriteForeign(f) ==
  /\ branch[f] # <<>> /\ Last(branch[f]) # Foreign /\ Len(branch[f]) < MaxEntries
  /\ branch' = [branch EXCEPT ![f] = Append(@, Foreign)]
  /\ UNCHANGED <<env, sessions, spawned, agents>>

\* startSubagent, and the launch with what it returned.
StartSubagent(p, q) ==
  LET spawn == Cardinality(spawned) + 1 IN
  /\ Running(p) /\ env[q] = Unset /\ spawn <= MaxSpawns
  /\ \E full \in BOOLEAN :
       LET envelope == Envelope(env[p], LineageOf(p), sessions[p].file, spawn, full)
       IN  /\ \E delivered \in Delivered(envelope) : env' = [env EXCEPT ![q] = delivered]
           /\ spawned' = spawned \cup
                {[spawn |-> spawn, parent |-> Data(LineageOf(p)), session |-> sessions[p].file,
                  context |-> envelope.trace, capability |-> IF full THEN Capability ELSE Unset]}
  /\ UNCHANGED <<sessions, branch, agents>>

\* propagateToSubagents is off: the child gets nothing.
StartSubagentUnpropagated(p, q) ==
  /\ Running(p) /\ env[q] = Unset
  /\ env' = [env EXCEPT ![q] = Sanitized(env[p])]
  /\ UNCHANGED <<sessions, branch, spawned, agents>>

\* A launcher that does not call startSubagent hands its own environment on.
LaunchUnobserved(p, q) ==
  /\ Running(p) /\ env[q] = Unset
  /\ env' = [env EXCEPT ![q] = env[p]]
  /\ UNCHANGED <<sessions, branch, spawned, agents>>

Exit(p) ==
  /\ env[p] # Unset
  /\ env' = [env EXCEPT ![p] = Unset]
  /\ sessions' = [sessions EXCEPT ![p] = Unset]
  /\ UNCHANGED <<branch, spawned, agents>>

Next ==
  \/ \E p \in Process : StartProcess(p) \/ Exit(p) \/ \E f \in File : StartSession(p, f)
  \/ \E f \in File : WriteForeign(f) \/ \E g \in File : Fork(f, g)
  \/ \E p, q \in Process :
       StartSubagent(p, q) \/ StartSubagentUnpropagated(p, q) \/ LaunchUnobserved(p, q)

Spec == Init /\ [][Next]_vars

-----------------------------------------------------------------------------
(* Properties                                                              *)

IsRoot(lineage, trace) ==
  /\ {lineage.parent, lineage.session, lineage.spawn} = {Unset}
  /\ lineage.root = lineage.agent /\ lineage.workflow = lineage.agent /\ lineage.depth = 0
  /\ trace.continued = Unset /\ trace.link = Unset /\ trace.lost = lineage.orphaned

\* The lineage a spawn meant for its child; the parent's session may be lost.
IsChild(lineage, record) ==
  /\ ~lineage.orphaned
  /\ lineage.spawn = record.spawn /\ lineage.parent = record.parent.agent
  /\ lineage.root = record.parent.root /\ lineage.workflow = record.parent.workflow
  /\ lineage.depth = record.parent.depth + 1
  /\ lineage.session \in {record.session, Unset}
  /\ lineage.capability \in {record.capability, Unset}

\* A spawn with a span has its trace continued, or else the loss recorded.
TraceOf(trace, record) ==
  /\ trace.lost <=> trace.continued = Unset
  /\ record.context # Unset => {trace.continued, trace.link} \subseteq {record.context, Unset}

\* A lineage, and the trace that goes with it, are inherited from one spawn
\* altogether or not at all, whatever of the envelope was lost, changed or
\* handed on on the way.
LineageOfOneSpawn ==
  \A p \in Process :
    Running(p) /\ sessions[p].recovered = Unset =>
      \/ IsRoot(LineageOf(p), sessions[p].trace)
      \/ \E record \in spawned :
           IsChild(LineageOf(p), record) /\ TraceOf(sessions[p].trace, record)

\* In a process that inherited nothing, a session takes up the lineage of the
\* latest readable entry of its branch, exactly as it was written: also when
\* what came after it was written by another version, and in a fork.
RestoredAsWritten ==
  [][\A p \in Persistent, f \in File :
       LET readable == {i \in DOMAIN branch[f] : branch[f][i] # Foreign}
       IN  /\ sessions'[p] # sessions[p] /\ Running(p)' /\ sessions'[p].file = f
           /\ env[p] = Clean /\ readable # {}
           => Data(LineageOf(p)') = branch[f][Max(readable)]]_vars

\* A reload keeps the agent what it is, whatever process it runs in.
ReloadKeepsLineage ==
  [][\A p \in Process :
       /\ Running(p) /\ Running(p)' /\ sessions'[p] # sessions[p]
       /\ sessions'[p].file = sessions[p].file /\ sessions'[p].recovered = Data(LineageOf(p))
       /\ ~LineageOf(p).orphaned
       => LineageOf(p)' = LineageOf(p)]_vars
=============================================================================
