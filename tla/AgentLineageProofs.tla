-------------------------- MODULE AgentLineageProofs --------------------------
(***************************************************************************)
(* The lineage of any number of agents, in any number of processes and     *)
(* session files.                                                          *)
(***************************************************************************)
EXTENDS AgentLineage, FiniteSetTheorems, WellFoundedInduction, TLAPS

Optional(S) == S \cup {Unset}

\* An environment, a lineage, and the trace context that goes with it.
Environment ==
  [workflow : Optional(Nat), agent : Optional(Nat), parent : Optional(Nat), root : Optional(Nat),
   session : Optional(File), depth : Optional(Nat), spawn : Optional(Nat),
   trace : Nat \cup {Unset, Partial}, state : {"set", Unset}, meta : Nat \cup {Unset, Partial},
   upper : {"set", Unset}, identity : {"whole", Partial, Unset}]
LineageContext ==
  [workflow : Nat, agent : Nat, parent : Optional(Nat), root : Nat, depth : Nat,
   session : Optional(File), spawn : Optional(Nat), capability : {Capability, Unset},
   orphaned : BOOLEAN]
TraceContext == [continued : Optional(Nat), link : Optional(Nat), lost : BOOLEAN]
Session ==
  [file : File, lineage : LineageContext, recovered : Optional(Entry), trace : TraceContext]

\* What a spawn says of its child; a full launch has a context and a capability.
SpawnRecord ==
  {record \in [spawn : Nat \ {0}, parent : Entry, session : File, context : Optional(Nat),
               capability : {Capability, Unset}] :
     \/ record.context = record.spawn /\ record.capability = Capability
     \/ record.context = Unset /\ record.capability = Unset}

\* The envelope that such a spawn hands over.
EnvelopeOf(record) ==
  [workflow |-> record.parent.workflow, agent |-> Unset, parent |-> record.parent.agent,
   root |-> record.parent.root, session |-> record.session, depth |-> record.parent.depth,
   spawn |-> record.spawn, trace |-> record.context,
   state |-> IF record.context = Unset THEN Unset ELSE "set",
   meta |-> record.context, upper |-> Unset,
   identity |-> IF record.context = Unset THEN Unset ELSE "whole"]

\* An environment is a user's own, or was handed over by one spawn.
OwnEnvironment == {Clean, [Clean EXCEPT !.upper = "set"], [Clean EXCEPT !.trace = 0]}
Comes(e) == e \in OwnEnvironment \/ \E record \in spawned : e \in Delivered(EnvelopeOf(record))

TypeInv ==
  /\ agents \in Nat
  /\ env \in [Process -> Optional(Environment)]
  /\ sessions \in [Process -> Optional(Session)]
  /\ branch \in [File -> Seq(Entry \cup {Foreign})]
  /\ spawned \subseteq SpawnRecord /\ IsFiniteSet(spawned)

\* An entry that can be read is consistent.
EntriesConsistent ==
  \A f \in File : \A i \in DOMAIN branch[f] : branch[f][i] # Foreign => Consistent(branch[f][i])

\* What LineageOfOneSpawn says of a session.
OfOneSpawn(lineage, trace) ==
  \/ IsRoot(lineage, trace)
  \/ \E record \in spawned : IsChild(lineage, record) /\ TraceOf(trace, record)

\* A sound lineage has all that its process inherited, as far as no entry says
\* otherwise.
HoldsAll(lineage, e) ==
  /\ ~IdentityRefused(e) /\ ~ContextRefused(e) /\ ~MetadataRefused(e)
  /\ lineage.parent = Unset => e.parent = Unset
  /\ lineage.session = Unset => e.session = Unset
  /\ lineage.spawn = Unset => e.spawn = Unset
  /\ lineage.capability = Unset => e.identity # "whole"

SessionKept(p) ==
  /\ env[p] # Unset
  /\ sessions[p].recovered = Unset => OfOneSpawn(sessions[p].lineage, sessions[p].trace)
  /\ ~sessions[p].lineage.orphaned => HoldsAll(sessions[p].lineage, env[p])

IInv ==
  /\ TypeInv /\ EntriesConsistent
  /\ \A p \in Process : env[p] # Unset => Comes(env[p])
  /\ \A p \in Process : Running(p) => SessionKept(p)

-----------------------------------------------------------------------------
(* Environments                                                            *)

\* The names of an envelope.
LEMMA CleanIs ==
  /\ Clean \in Environment
  /\ Name = {"workflow", "agent", "parent", "root", "session", "depth", "spawn", "trace", "state",
             "meta", "upper", "identity"}
BY DEF Clean, Name, Environment, Optional

\* What a user starts a process with has one variable at most.
LEMMA OwnIs ==
  ASSUME NEW e \in OwnEnvironment
  PROVE  /\ e \in Environment
         /\ {e.workflow, e.agent, e.parent, e.root, e.session, e.depth, e.spawn, e.state, e.meta,
             e.identity} = {Unset}
         /\ e.upper # Unset \/ e.trace \in {0, Unset}
BY DEF OwnEnvironment, Clean, Environment, Optional

\* The envelope of a spawn is that of the record that is kept of it.
LEMMA EnvelopeIs ==
  ASSUME NEW base, NEW parent \in LineageContext, NEW file \in File, NEW spawn \in Nat \ {0},
         NEW full \in BOOLEAN,
         NEW record, record = [spawn |-> spawn, parent |-> Data(parent), session |-> file,
                  context |-> Envelope(base, parent, file, spawn, full).trace,
                  capability |-> IF full THEN Capability ELSE Unset]
  PROVE  record \in SpawnRecord /\ Envelope(base, parent, file, spawn, full) = EnvelopeOf(record)
<1>1. Sanitized(base) = Clean
  BY CleanIs DEF Sanitized, Clean
<1>2. Data(parent) \in Entry
  BY DEF Data, Entry, LineageContext, Optional
<1> DEFINE context == IF full THEN spawn ELSE Unset
<1>3. Envelope(base, parent, file, spawn, full) =
        [workflow |-> parent.workflow, agent |-> Unset, parent |-> parent.agent,
         root |-> parent.root, session |-> file, depth |-> parent.depth,
         spawn |-> spawn, trace |-> context, state |-> IF full THEN "set" ELSE Unset,
         meta |-> context, upper |-> Unset, identity |-> IF full THEN "whole" ELSE Unset]
  BY <1>1 DEF Envelope, Clean
<1>4. /\ Data(parent).workflow = parent.workflow /\ Data(parent).agent = parent.agent
      /\ Data(parent).root = parent.root /\ Data(parent).depth = parent.depth
  BY DEF Data
<1>5. record = [spawn |-> spawn, parent |-> Data(parent), session |-> file, context |-> context,
                capability |-> IF full THEN Capability ELSE Unset]
  BY <1>3
<1>6. record \in SpawnRecord
  BY <1>2, <1>5 DEF SpawnRecord, Optional
<1>7. (context = Unset) <=> ~full
  BY MarksAreDistinct
<1>8. QED
  BY <1>3, <1>4, <1>5, <1>6, <1>7 DEF EnvelopeOf

\* What is lost on the way is one thing.
LEMMA DeliveredIs ==
  ASSUME NEW record \in SpawnRecord, NEW e \in Delivered(EnvelopeOf(record))
  PROVE  /\ e \in Environment
         /\ e.agent = Unset /\ e.upper = Unset
         /\ e.workflow \in {record.parent.workflow, Unset} /\ e.parent \in {record.parent.agent, Unset}
         /\ e.root \in {record.parent.root, Unset} /\ e.depth \in {record.parent.depth, Unset}
         /\ e.session \in {record.session, Unset} /\ e.spawn \in {record.spawn, Unset}
         /\ record.context = Unset => /\ e.trace \in {0, Partial, Unset} /\ e.state = Unset
                                      /\ e.meta = Unset /\ e.identity = Unset
         /\ record.context # Unset => /\ e.trace \in {record.spawn, 0, Partial, Unset}
                                      /\ e.trace = Unset => e.state = "set"
                                      /\ e.meta \in {record.spawn, Partial}
                                      /\ e.identity \in {"whole", Partial}
<1> DEFINE o == EnvelopeOf(record)
<1>1. o \in Environment
  BY DEF EnvelopeOf, SpawnRecord, Entry, Environment, Optional
<1>2. CASE e \in {o, [o EXCEPT !.trace = 0], [o EXCEPT !.trace = Partial]}
  BY <1>1, <1>2, MarksAreDistinct DEF EnvelopeOf, SpawnRecord, Environment, Entry, Optional
<1>3. CASE \E name \in Name : e = Without(o, name)
  <2>1. PICK name \in Name : e = Without(o, name)
    BY <1>3
  <2> DEFINE lost == IF o[name] # Unset /\ name \in {"meta", "identity"} THEN Partial ELSE Unset
  <2>2. e = [o EXCEPT ![name] = lost]
    BY <2>1, MarksAreDistinct DEF Without
  <2>3. CASE name \in {"meta", "identity"}
    BY <1>1, <2>2, <2>3, MarksAreDistinct DEF EnvelopeOf, SpawnRecord, Environment, Entry, Optional
  <2>4. CASE name \in {"workflow", "agent", "parent", "root", "depth", "spawn"}
    BY <1>1, <2>2, <2>4, MarksAreDistinct DEF EnvelopeOf, SpawnRecord, Environment, Entry, Optional
  <2>5. CASE name \in {"session", "trace", "state", "upper"}
    BY <1>1, <2>2, <2>5, MarksAreDistinct DEF EnvelopeOf, SpawnRecord, Environment, Entry, Optional
  <2>6. QED
    BY <2>3, <2>4, <2>5, CleanIs
<1>4. QED
  BY <1>2, <1>3 DEF Delivered

-----------------------------------------------------------------------------
(* The lineage of a session                                                *)

\* A refused envelope is not used at all.
LEMMA RefusedLineage ==
  ASSUME NEW e, NEW recovered, NEW new \in Nat, Refused(e, recovered)
  PROVE  Lineage(e, recovered, new) =
           [workflow |-> new, agent |-> new, parent |-> Unset, root |-> new, depth |-> 0,
            session |-> Unset, spawn |-> Unset,
            capability |-> Or(RecoveredCapability(recovered), Unset),
            orphaned |-> TRUE]
BY MarksAreDistinct DEF Lineage, Clean, Or

\* An accepted one is taken as it is, and completed.
LEMMA AcceptedLineage ==
  ASSUME NEW e \in Environment, NEW recovered, NEW new \in Nat, ~Refused(e, recovered)
  PROVE  Lineage(e, recovered, new) =
           [workflow |-> Or(e.workflow, new), agent |-> Or(e.agent, new), parent |-> e.parent,
            root |-> Or(e.root, Or(e.agent, new)),
            depth |-> IF e.parent = Unset THEN 0 ELSE Or(e.depth, 0) + 1,
            session |-> e.session, spawn |-> e.spawn,
            capability |-> Or(RecoveredCapability(recovered),
                              IF e.identity = "whole" THEN Capability ELSE Unset),
            orphaned |-> e.parent # Unset /\ e.root = Unset]
BY MarksAreDistinct DEF Lineage

\* Either way a lineage is well typed.
LEMMA LineageTyped ==
  ASSUME NEW e \in Environment, NEW recovered \in Optional(Entry), NEW new \in Nat
  PROVE  /\ Lineage(e, recovered, new) \in LineageContext
         /\ \A parent : TraceParent(e, recovered, parent) \in TraceContext
<1>1. CASE Refused(e, recovered)
  <2>1. \A parent : TraceParent(e, recovered, parent) \in TraceContext
    BY <1>1 DEF TraceParent, TraceContext, Optional
  <2>2. Or(RecoveredCapability(recovered), Unset) \in {Capability, Unset}
    BY MarksAreDistinct DEF Or, RecoveredCapability, Optional, Entry
  <2>3. Lineage(e, recovered, new) \in LineageContext
    <3> DEFINE l == [workflow |-> new, agent |-> new, parent |-> Unset, root |-> new, depth |-> 0,
                     session |-> Unset, spawn |-> Unset,
                     capability |-> Or(RecoveredCapability(recovered), Unset),
                     orphaned |-> TRUE]
    <3>1. l \in LineageContext
      BY <2>2 DEF LineageContext, Optional
    <3>2. Lineage(e, recovered, new) = l
      BY <1>1, RefusedLineage
    <3> HIDE DEF l
    <3>3. QED
      BY <3>1, <3>2
  <2>4. QED
    BY <2>1, <2>3
<1>2. CASE ~Refused(e, recovered)
  <2>1. e.trace # Partial /\ e.meta # Partial
    BY <1>2 DEF Refused, ContextRefused, MetadataRefused
  <2>2. \A parent : TraceParent(e, recovered, parent) \in TraceContext
    BY <1>2, <2>1 DEF TraceParent, TraceContext, Environment, Optional
  <2>3. Lineage(e, recovered, new) \in LineageContext
    <3>1. /\ Or(e.workflow, new) \in Nat /\ Or(e.agent, new) \in Nat
          /\ Or(e.root, Or(e.agent, new)) \in Nat /\ Or(e.depth, 0) + 1 \in Nat
      BY DEF Or, Environment, Optional
    <3>2. Or(RecoveredCapability(recovered),
             IF e.identity = "whole" THEN Capability ELSE Unset) \in {Capability, Unset}
      BY MarksAreDistinct DEF Or, RecoveredCapability, Optional, Entry
    <3>3. /\ e.parent \in Optional(Nat) /\ e.session \in Optional(File) /\ e.spawn \in Optional(Nat)
      BY DEF Environment
    <3> DEFINE l == [workflow |-> Or(e.workflow, new), agent |-> Or(e.agent, new), parent |-> e.parent,
                     root |-> Or(e.root, Or(e.agent, new)),
                     depth |-> IF e.parent = Unset THEN 0 ELSE Or(e.depth, 0) + 1,
                     session |-> e.session, spawn |-> e.spawn,
                     capability |-> Or(RecoveredCapability(recovered),
                                       IF e.identity = "whole" THEN Capability ELSE Unset),
                     orphaned |-> e.parent # Unset /\ e.root = Unset]
    <3>4. l \in LineageContext
      BY <3>1, <3>2, <3>3 DEF LineageContext
    <3>5. Lineage(e, recovered, new) = l
      BY <1>2, AcceptedLineage
    <3> HIDE DEF l
    <3>6. QED
      BY <3>4, <3>5
  <2>4. QED
    BY <2>2, <2>3
<1>3. QED
  BY <1>1, <1>2

\* A lineage that is generated, and one that is propagated.
RootLineage(new, orphaned) ==
  [workflow |-> new, agent |-> new, parent |-> Unset, root |-> new, depth |-> 0,
   session |-> Unset, spawn |-> Unset, capability |-> Unset, orphaned |-> orphaned]
ChildLineage(e, new) ==
  [workflow |-> e.workflow, agent |-> new, parent |-> e.parent, root |-> e.root,
   depth |-> e.depth + 1, session |-> e.session, spawn |-> e.spawn,
   capability |-> IF e.identity = "whole" THEN Capability ELSE Unset, orphaned |-> FALSE]

\* An agent with a generated lineage is a root.
LEMMA RootOf ==
  ASSUME NEW new, NEW orphaned \in BOOLEAN, NEW t,
         t.continued = Unset, t.link = Unset, t.lost = orphaned
  PROVE  IsRoot(RootLineage(new, orphaned), t)
BY DEF IsRoot, RootLineage

\* An envelope that is accepted is that of its spawn, but for the session of
\* the parent and, when the launch had no span, the trace.
LEMMA ChildOf ==
  ASSUME NEW record \in SpawnRecord, NEW e \in Delivered(EnvelopeOf(record)), NEW new, NEW t,
         ~Refused(e, Unset),
         Unset \notin {e.workflow, e.parent, e.root, e.depth, e.spawn},
         t.continued = e.trace, t.link = IF e.trace # Unset THEN Unset ELSE e.meta,
         t.lost <=> e.trace = Unset
  PROVE  IsChild(ChildLineage(e, new), record) /\ TraceOf(t, record)
<1>1. /\ e.trace # Partial /\ e.meta # Partial /\ e.identity # Partial
      /\ ~(e.trace = Unset /\ e.state # Unset)
      /\ (e.trace # Unset /\ e.meta # Unset) => e.trace = e.meta
  BY DEF Refused, IdentityRefused, ContextRefused, MetadataRefused
<1>2. /\ e.workflow = record.parent.workflow /\ e.parent = record.parent.agent
      /\ e.root = record.parent.root /\ e.depth = record.parent.depth /\ e.spawn = record.spawn
      /\ e.session \in {record.session, Unset}
  BY DeliveredIs
<1>3. e.identity = "whole" <=> record.context # Unset
  BY <1>1, DeliveredIs, MarksAreDistinct
<1>4. record.context # Unset => /\ record.context = record.spawn /\ e.trace = record.spawn
                                /\ record.capability = Capability
  BY <1>1, DeliveredIs, MarksAreDistinct DEF SpawnRecord
<1>5. record.context = Unset => record.capability = Unset
  BY MarksAreDistinct DEF SpawnRecord
<1>6. IsChild(ChildLineage(e, new), record)
  BY <1>2, <1>3, <1>4, <1>5 DEF IsChild, ChildLineage
<1>7. TraceOf(t, record)
  BY <1>4 DEF TraceOf
<1>8. QED
  BY <1>6, <1>7

\* Whatever became of its envelope, an agent is a root or the child of the spawn.
LEMMA RootOrChild ==
  ASSUME NEW e \in Environment, NEW new \in Nat, spawned \subseteq SpawnRecord, Comes(e),
         NEW l, l = Lineage(e, Unset, new),
         NEW t, t = TraceParent(e, Unset, l.parent)
  PROVE  OfOneSpawn(l, t)
<1>1. CASE Refused(e, Unset)
  <2>1. l = RootLineage(new, TRUE)
    BY <1>1, RefusedLineage DEF RootLineage, Or, RecoveredCapability
  <2>2. t.continued = Unset /\ t.link = Unset /\ t.lost = TRUE
    BY <1>1 DEF TraceParent
  <2>3. QED
    BY <2>1, <2>2, RootOf DEF OfOneSpawn
<1>2. CASE ~Refused(e, Unset) /\ \A name \in Name : e[name] = Unset
  <2>1. /\ e.workflow = Unset /\ e.agent = Unset /\ e.parent = Unset /\ e.root = Unset
        /\ e.session = Unset /\ e.depth = Unset /\ e.spawn = Unset /\ e.trace = Unset
        /\ e.meta = Unset /\ e.identity = Unset
    BY <1>2, CleanIs
  <2>2. l = RootLineage(new, FALSE)
    <3>1. e.identity # "whole"
      BY <2>1, MarksAreDistinct
    <3>2. QED
      BY <1>2, <2>1, <3>1, AcceptedLineage DEF RootLineage, Or, RecoveredCapability
  <2>3. RootLineage(new, FALSE).parent = Unset
    BY DEF RootLineage
  <2>4. t.continued = Unset /\ t.link = Unset /\ t.lost = FALSE
    BY <1>2, <2>1, <2>2, <2>3 DEF TraceParent
  <2>5. QED
    BY <2>2, <2>4, RootOf DEF OfOneSpawn
<1>3. CASE ~Refused(e, Unset) /\ \E name \in Name : e[name] # Unset
  <2>1. /\ e.agent = Unset /\ e.workflow # Unset /\ e.parent # Unset /\ e.root # Unset
        /\ e.depth # Unset /\ e.spawn # Unset
    BY <1>3 DEF Refused, Incomplete, Required
  <2>2. e \notin OwnEnvironment
    BY <2>1, OwnIs
  <2>3. PICK record \in spawned : e \in Delivered(EnvelopeOf(record))
    BY <2>2 DEF Comes
  <2>4. l = ChildLineage(e, new)
    BY <1>3, <2>1, AcceptedLineage DEF ChildLineage, Or, RecoveredCapability
  <2>5. t.continued = e.trace /\ t.link = IF e.trace # Unset THEN Unset ELSE e.meta
    BY <1>3 DEF TraceParent
  <2>6. ChildLineage(e, new).parent # Unset
    BY <2>1 DEF ChildLineage
  <2>7. t.lost <=> e.trace = Unset
    BY <1>3, <2>4, <2>6 DEF TraceParent
  <2>8. record \in SpawnRecord /\ Unset \notin {e.workflow, e.parent, e.root, e.depth, e.spawn}
    BY <2>1
  <2>9. IsChild(ChildLineage(e, new), record) /\ TraceOf(t, record)
    BY <1>3, <2>3, <2>5, <2>7, <2>8, ChildOf
  <2>10. QED
    BY <2>4, <2>9 DEF OfOneSpawn
<1>4. QED
  BY <1>1, <1>2, <1>3
-----------------------------------------------------------------------------
(* Recovery                                                                *)

\* The greatest of some indexes is one of them.
LEMMA GreatestOf ==
  ASSUME NEW n \in Nat, NEW S, S \subseteq 1..n, S # {}
  PROVE  Max(S) \in S
<1> DEFINE R == OpToRel(<, Nat)
           T == {n - k : k \in S}
<1>1. R = {s \in Nat \X Nat : s[1] < s[2]}
  BY DEF OpToRel
<1>2. T \subseteq Nat /\ T # {}
  <2>1. ASSUME NEW k \in S
        PROVE  n - k \in Nat
    <3>1. k \in 1..n
      OBVIOUS
    <3>2. QED
      BY <3>1
  <2>2. QED
    BY <2>1
<1>3. IsWellFoundedOn(R, Nat)
  BY NatLessThanWellFounded
<1> HIDE DEF R
<1>4. PICK m \in T : \A k \in T : <<k, m>> \notin R
  BY <1>2, <1>3, WFMin
<1>5. \A k \in T : ~(k < m)
  <2> TAKE k \in T
  <2>1. <<k, m>> \in Nat \X Nat /\ <<k, m>>[1] = k /\ <<k, m>>[2] = m
    BY <1>2
  <2>2. <<k, m>> \notin R
    BY <1>4
  <2>3. QED
    BY <1>1, <2>1, <2>2
<1>6. PICK g \in S : m = n - g
  BY <1>4
<1>7. \A k \in S : g >= k
  <2> TAKE k \in S
  <2>1. n - k \in T
    OBVIOUS
  <2>2. ~(n - k < m)
    BY <1>5, <2>1
  <2>3. QED
    BY <1>6, <2>2
<1>8. QED
  BY <1>6, <1>7 DEF Max

\* The entry that is recovered is one of the branch, and consistent.
LEMMA LatestIs ==
  ASSUME TypeInv, EntriesConsistent, NEW f \in File
  PROVE  /\ LatestEntry(branch[f]) \in Optional(Entry)
         /\ LatestEntry(branch[f]) # Unset => Consistent(LatestEntry(branch[f]))
         /\ {i \in DOMAIN branch[f] : branch[f][i] # Foreign} # {} =>
              /\ LatestEntry(branch[f]) # Unset
              /\ LatestEntry(branch[f]) =
                   branch[f][Max({i \in DOMAIN branch[f] : branch[f][i] # Foreign})]
<1> DEFINE readable == {i \in DOMAIN branch[f] : branch[f][i] # Foreign}
<1>1. branch[f] \in Seq(Entry \cup {Foreign})
  BY DEF TypeInv
<1>2. CASE readable = {}
  <2>1. LatestEntry(branch[f]) = Unset
    BY <1>2 DEF LatestEntry
  <2>2. QED
    BY <1>2, <2>1 DEF Optional
<1>3. CASE readable # {}
  <2>1. Len(branch[f]) \in Nat /\ readable \subseteq 1..Len(branch[f])
    BY <1>1
  <2>2. Max(readable) \in readable
    BY <1>3, <2>1, GreatestOf
  <2>3. LatestEntry(branch[f]) = branch[f][Max(readable)]
    BY <1>3 DEF LatestEntry
  <2> DEFINE m == Max(readable)
  <2> HIDE DEF m
  <2>4. m \in DOMAIN branch[f] /\ branch[f][m] # Foreign
    BY <2>2 DEF m
  <2>5. branch[f][m] \in Entry /\ Consistent(branch[f][m])
    BY <1>1, <2>4 DEF EntriesConsistent
  <2>6. branch[f][m] # Unset
    BY <2>5, MarksAreDistinct
  <2>7. QED
    BY <2>3, <2>5, <2>6 DEF m, Optional
<1>4. QED
  BY <1>2, <1>3

\* The depth of an entry and that of its parent.
LEMMA ParentDepthIs ==
  ASSUME NEW entry \in Entry, Consistent(entry)
  PROVE  /\ ParentDepth(entry) \in Nat /\ ParentDepth(entry) <= MaxDepth
         /\ entry.depth = IF entry.parent = Unset THEN 0 ELSE ParentDepth(entry) + 1
BY BoundsAreNat DEF Consistent, ParentDepth, Entry

\* What an entry has goes before what the process inherited.
LEMMA RecoveryIs ==
  ASSUME NEW e \in Environment, NEW entry \in Entry, Consistent(entry)
  PROVE  /\ Recovery(e, entry) \in Environment
         /\ Recovery(e, entry).workflow = entry.workflow
         /\ Recovery(e, entry).agent = entry.agent
         /\ Recovery(e, entry).root = entry.root
         /\ Recovery(e, entry).depth = ParentDepth(entry)
         /\ Recovery(e, entry).parent = Or(entry.parent, e.parent)
         /\ Recovery(e, entry).session = Or(entry.session, e.session)
         /\ Recovery(e, entry).spawn = Or(entry.spawn, e.spawn)
         /\ IdentityRefused(Recovery(e, entry)) <=> IdentityRefused(e)
         /\ ContextRefused(Recovery(e, entry)) <=> ContextRefused(e)
         /\ MetadataRefused(Recovery(e, entry)) <=> MetadataRefused(e)
         /\ Recovery(e, entry).identity = e.identity
<1>1. /\ entry.workflow \in Nat /\ entry.agent \in Nat /\ entry.root \in Nat
      /\ ParentDepth(entry) \in Nat /\ Or(entry.parent, e.parent) \in Optional(Nat)
      /\ Or(entry.session, e.session) \in Optional(File)
      /\ Or(entry.spawn, e.spawn) \in Optional(Nat)
  BY ParentDepthIs DEF Entry, Environment, Or, Optional
<1>2. Recovery(e, entry) \in Environment
  BY <1>1 DEF Recovery, Environment, Optional
<1>3. /\ Recovery(e, entry).workflow = entry.workflow
      /\ Recovery(e, entry).agent = entry.agent
      /\ Recovery(e, entry).root = entry.root
      /\ Recovery(e, entry).depth = ParentDepth(entry)
      /\ Recovery(e, entry).parent = Or(entry.parent, e.parent)
      /\ Recovery(e, entry).session = Or(entry.session, e.session)
      /\ Recovery(e, entry).spawn = Or(entry.spawn, e.spawn)
  BY DEF Recovery, Environment
<1>4. /\ Recovery(e, entry).trace = e.trace /\ Recovery(e, entry).state = e.state
      /\ Recovery(e, entry).meta = e.meta /\ Recovery(e, entry).upper = e.upper
      /\ Recovery(e, entry).identity = e.identity
  BY DEF Recovery, Environment
<1>5. QED
  BY <1>2, <1>3, <1>4 DEF IdentityRefused, ContextRefused, MetadataRefused

\* A lineage that is restored is that of its entry.
RestoredLineage(entry) ==
  [workflow |-> entry.workflow, agent |-> entry.agent, parent |-> entry.parent,
   root |-> entry.root, depth |-> entry.depth, session |-> entry.session,
   spawn |-> entry.spawn, capability |-> entry.capability, orphaned |-> FALSE]

\* In a process that inherited nothing more than its entry has, the lineage is
\* restored as it was written.
LEMMA Restores ==
  ASSUME NEW e \in Environment, NEW entry \in Entry, Consistent(entry), NEW new \in Nat,
         ~IdentityRefused(e), ~ContextRefused(e), ~MetadataRefused(e),
         entry.parent = Unset => e.parent = Unset,
         entry.session = Unset => e.session = Unset,
         entry.spawn = Unset => e.spawn = Unset,
         entry.capability = Unset => e.identity # "whole"
  PROVE  Lineage(Recovery(e, entry), entry, new) = RestoredLineage(entry)
<1> DEFINE r == Recovery(e, entry)
<1>1. /\ r \in Environment
      /\ r.workflow = entry.workflow /\ r.agent = entry.agent /\ r.root = entry.root
      /\ r.depth = ParentDepth(entry) /\ r.identity = e.identity
  BY RecoveryIs
<1>2. r.parent = entry.parent /\ r.session = entry.session /\ r.spawn = entry.spawn
  BY RecoveryIs DEF Or
<1>3. ~Refused(r, entry)
  BY <1>1, RecoveryIs, ParentDepthIs, BoundsAreNat, MarksAreDistinct DEF Refused, ValuesRefused
<1>4. /\ Or(r.workflow, new) = entry.workflow /\ Or(r.agent, new) = entry.agent
      /\ Or(r.root, Or(r.agent, new)) = entry.root /\ r.root # Unset
      /\ Or(r.depth, 0) = ParentDepth(entry)
  BY <1>1, ParentDepthIs, MarksAreDistinct DEF Or, Entry
<1>5. Or(entry.capability, IF r.identity = "whole" THEN Capability ELSE Unset) = entry.capability
  BY <1>1 DEF Or
<1>6. entry.depth = IF r.parent = Unset THEN 0 ELSE Or(r.depth, 0) + 1
  BY <1>2, <1>4, ParentDepthIs
<1> HIDE DEF r
<1>7. Lineage(r, entry, new) =
        [workflow |-> Or(r.workflow, new), agent |-> Or(r.agent, new), parent |-> r.parent,
         root |-> Or(r.root, Or(r.agent, new)),
         depth |-> IF r.parent = Unset THEN 0 ELSE Or(r.depth, 0) + 1,
         session |-> r.session, spawn |-> r.spawn,
         capability |-> Or(entry.capability, IF r.identity = "whole" THEN Capability ELSE Unset),
         orphaned |-> r.parent # Unset /\ r.root = Unset]
  <2>1. RecoveredCapability(entry) = entry.capability
    BY MarksAreDistinct DEF RecoveredCapability
  <2>2. QED
    BY <1>1, <1>3, <2>1, AcceptedLineage
<1>8. QED
  BY <1>2, <1>4, <1>5, <1>6, <1>7 DEF RestoredLineage, r

\* A lineage that is no orphan is that of an accepted envelope.
LEMMA SoundIsAccepted ==
  ASSUME NEW e \in Environment, NEW recovered, NEW new \in Nat,
         NEW l, l = Lineage(e, recovered, new), ~l.orphaned
  PROVE  /\ ~Refused(e, recovered)
         /\ l.parent = e.parent /\ l.session = e.session /\ l.spawn = e.spawn
         /\ l.capability = Or(RecoveredCapability(recovered),
                              IF e.identity = "whole" THEN Capability ELSE Unset)
<1>1. ~Refused(e, recovered)
  BY RefusedLineage
<1>2. QED
  BY <1>1, AcceptedLineage

\* A sound lineage has all that its process inherited.
LEMMA HoldsInherited ==
  ASSUME NEW e \in Environment, NEW new \in Nat, NEW l, l = Lineage(e, Unset, new), ~l.orphaned
  PROVE  HoldsAll(l, e)
<1>1. ~Refused(e, Unset)
  BY SoundIsAccepted
<1>2. l.parent = e.parent /\ l.session = e.session /\ l.spawn = e.spawn
  BY <1>1, SoundIsAccepted
<1>3. l.capability = Or(RecoveredCapability(Unset), IF e.identity = "whole" THEN Capability ELSE Unset)
  BY <1>1, SoundIsAccepted
<1>4. QED
  BY <1>1, <1>2, <1>3, MarksAreDistinct DEF HoldsAll, Refused, Or, RecoveredCapability

\* Also when an entry was laid over it.
LEMMA HoldsRecovered ==
  ASSUME NEW e \in Environment, NEW new \in Nat, NEW entry \in Entry, Consistent(entry),
         NEW l, l = Lineage(Recovery(e, entry), entry, new), ~l.orphaned
  PROVE  HoldsAll(l, e)
<1> DEFINE r == Recovery(e, entry)
<1>1. /\ r \in Environment /\ r.identity = e.identity
      /\ ~IdentityRefused(r) => ~IdentityRefused(e)
      /\ ~ContextRefused(r) => ~ContextRefused(e)
      /\ ~MetadataRefused(r) => ~MetadataRefused(e)
  BY RecoveryIs
<1>2. /\ r.parent = Or(entry.parent, e.parent) /\ r.session = Or(entry.session, e.session)
      /\ r.spawn = Or(entry.spawn, e.spawn)
  BY RecoveryIs
<1>3. ~Refused(r, entry)
  BY <1>1, SoundIsAccepted
<1>4. l.parent = r.parent /\ l.session = r.session /\ l.spawn = r.spawn
  BY <1>1, <1>3, SoundIsAccepted
<1>5. l.capability = Or(RecoveredCapability(entry), IF r.identity = "whole" THEN Capability ELSE Unset)
  BY <1>1, <1>3, SoundIsAccepted
<1> HIDE DEF r
<1>6. /\ l.parent = Unset => e.parent = Unset
      /\ l.session = Unset => e.session = Unset
      /\ l.spawn = Unset => e.spawn = Unset
  BY <1>2, <1>4 DEF Or
<1>7. l.capability = Unset => e.identity # "whole"
  BY <1>1, <1>5, MarksAreDistinct DEF Or
<1>8. QED
  BY <1>1, <1>3, <1>6, <1>7 DEF HoldsAll, Refused

-----------------------------------------------------------------------------
(* Steps                                                                   *)

\* A process is given an environment, of its own or of a spawn.
LEMMA GivenKeeps ==
  ASSUME IInv, NEW q \in Process, env[q] = Unset, NEW e \in Environment,
         env' = [env EXCEPT ![q] = e], UNCHANGED <<sessions, branch, agents>>,
         spawned \subseteq spawned', spawned' \subseteq SpawnRecord, IsFiniteSet(spawned'),
         e \in OwnEnvironment \/ \E record \in spawned' : e \in Delivered(EnvelopeOf(record))
  PROVE  IInv'
<1>1. TypeInv /\ EntriesConsistent
  BY DEF IInv
<1>2. TypeInv' /\ EntriesConsistent'
  BY <1>1 DEF TypeInv, EntriesConsistent, Optional
<1>3. ASSUME NEW p \in Process, env'[p] # Unset
      PROVE  Comes(env[p])'
  <2>1. CASE p = q
    <3>1. env'[p] = e
      BY <1>1, <2>1 DEF TypeInv
    <3>2. QED
      BY <3>1 DEF Comes
  <2>2. CASE p # q
    <3>1. env'[p] = env[p]
      BY <1>1, <2>2 DEF TypeInv
    <3>2. Comes(env[p])
      BY <1>3, <3>1 DEF IInv
    <3>3. QED
      BY <3>1, <3>2 DEF Comes
  <2>3. QED
    BY <2>1, <2>2
<1>4. ASSUME NEW p \in Process, Running(p)'
      PROVE  SessionKept(p)'
  <2>1. sessions'[p] = sessions[p] /\ Running(p) /\ SessionKept(p)
    BY <1>4 DEF Running, IInv
  <2>2. p # q
    BY <2>1 DEF SessionKept
  <2>3. env'[p] = env[p]
    BY <1>1, <2>2 DEF TypeInv
  <2>4. OfOneSpawn(sessions[p].lineage, sessions[p].trace) =>
          OfOneSpawn(sessions[p].lineage, sessions[p].trace)'
    BY DEF OfOneSpawn
  <2>5. QED
    BY <2>1, <2>3, <2>4 DEF SessionKept
<1>5. QED
  BY <1>2, <1>3, <1>4 DEF IInv

\* A user starts a process.
LEMMA StartProcessStep ==
  ASSUME IInv, NEW p \in Process, StartProcess(p)
  PROVE  IInv'
<1>1. PICK e \in OwnEnvironment : env' = [env EXCEPT ![p] = e]
  BY DEF StartProcess, OwnEnvironment
<1>2. /\ env[p] = Unset /\ UNCHANGED <<sessions, branch, agents, spawned>> /\ e \in Environment
      /\ spawned' \subseteq SpawnRecord /\ IsFiniteSet(spawned')
  BY OwnIs DEF StartProcess, IInv, TypeInv
<1>3. QED
  BY <1>1, <1>2, GivenKeeps

\* What a process was given is handed on.
LEMMA LaunchUnobservedStep ==
  ASSUME IInv, NEW p \in Process, NEW q \in Process, LaunchUnobserved(p, q)
  PROVE  IInv'
<1>1. env[p] # Unset /\ Comes(env[p])
  BY DEF LaunchUnobserved, IInv, SessionKept
<1>2. env[p] \in Environment
  BY <1>1 DEF IInv, TypeInv, Optional
<1>3. PICK e \in Environment : e = env[p]
  BY <1>2
<1>4. /\ env[q] = Unset /\ UNCHANGED <<sessions, branch, agents, spawned>>
      /\ env' = [env EXCEPT ![q] = e]
      /\ spawned' \subseteq SpawnRecord /\ IsFiniteSet(spawned')
  BY <1>3 DEF LaunchUnobserved, IInv, TypeInv
<1>5. e \in OwnEnvironment \/ \E record \in spawned' : e \in Delivered(EnvelopeOf(record))
  BY <1>1, <1>3, <1>4 DEF Comes
<1>6. QED
  BY <1>4, <1>5, GivenKeeps

\* Nothing is handed over.
LEMMA StartUnpropagatedStep ==
  ASSUME IInv, NEW p \in Process, NEW q \in Process, StartSubagentUnpropagated(p, q)
  PROVE  IInv'
<1>1. Sanitized(env[p]) = Clean /\ Clean \in Environment /\ Clean \in OwnEnvironment
  BY CleanIs DEF Sanitized, Clean, OwnEnvironment
<1>2. /\ env[q] = Unset /\ UNCHANGED <<sessions, branch, agents, spawned>>
      /\ env' = [env EXCEPT ![q] = Clean]
      /\ spawned' \subseteq SpawnRecord /\ IsFiniteSet(spawned')
  BY <1>1 DEF StartSubagentUnpropagated, IInv, TypeInv
<1>3. QED
  BY <1>1, <1>2, GivenKeeps

\* The envelope that is handed over is that of the record that is kept.
LEMMA StartSubagentStep ==
  ASSUME IInv, NEW p \in Process, NEW q \in Process, StartSubagent(p, q)
  PROVE  IInv'
<1> DEFINE spawn == Cardinality(spawned) + 1
<1>1. /\ Running(p) /\ env[q] = Unset /\ UNCHANGED <<sessions, branch, agents>>
      /\ spawned \subseteq SpawnRecord /\ IsFiniteSet(spawned)
  BY DEF StartSubagent, IInv, TypeInv
<1>2. Cardinality(spawned) \in Nat
  BY <1>1, FS_CardinalityType
<1>3. spawn \in Nat \ {0}
  BY <1>2
<1>4. LineageOf(p) \in LineageContext /\ sessions[p].file \in File
  BY <1>1 DEF IInv, TypeInv, Running, LineageOf, Session, Optional
<1> HIDE DEF spawn
<1>5. PICK full \in BOOLEAN :
        /\ \E delivered \in Delivered(Envelope(env[p], LineageOf(p), sessions[p].file, spawn, full)) :
             env' = [env EXCEPT ![q] = delivered]
        /\ spawned' = spawned \cup
             {[spawn |-> spawn, parent |-> Data(LineageOf(p)), session |-> sessions[p].file,
               context |-> Envelope(env[p], LineageOf(p), sessions[p].file, spawn, full).trace,
               capability |-> IF full THEN Capability ELSE Unset]}
  BY DEF StartSubagent, spawn
<1>6. PICK record :
        record = [spawn |-> spawn, parent |-> Data(LineageOf(p)), session |-> sessions[p].file,
                  context |-> Envelope(env[p], LineageOf(p), sessions[p].file, spawn, full).trace,
                  capability |-> IF full THEN Capability ELSE Unset]
  OBVIOUS
<1>7. /\ record \in SpawnRecord
      /\ Envelope(env[p], LineageOf(p), sessions[p].file, spawn, full) = EnvelopeOf(record)
  BY <1>3, <1>4, <1>6, EnvelopeIs
<1>8. PICK e \in Delivered(EnvelopeOf(record)) : env' = [env EXCEPT ![q] = e]
  BY <1>5, <1>7
<1>9. e \in Environment
  BY <1>7, DeliveredIs
<1>10. /\ spawned' = spawned \cup {record} /\ record \in spawned'
  BY <1>5, <1>6
<1>11. IsFiniteSet(spawned')
  BY <1>1, <1>10, FS_AddElement
<1>12. spawned \subseteq spawned' /\ spawned' \subseteq SpawnRecord
  BY <1>1, <1>7, <1>10
<1>13. QED
  BY <1>1, <1>8, <1>9, <1>10, <1>11, <1>12, GivenKeeps

\* A process that exits leaves its branches and spawns.
LEMMA ExitStep ==
  ASSUME IInv, NEW p \in Process, Exit(p)
  PROVE  IInv'
<1>1. /\ env' = [env EXCEPT ![p] = Unset] /\ sessions' = [sessions EXCEPT ![p] = Unset]
      /\ UNCHANGED <<branch, spawned, agents>>
  BY DEF Exit
<1>2. TypeInv /\ EntriesConsistent
  BY DEF IInv
<1>3. TypeInv' /\ EntriesConsistent'
  BY <1>1, <1>2 DEF TypeInv, EntriesConsistent, Optional
<1>4. ASSUME NEW q \in Process, env'[q] # Unset
      PROVE  Comes(env[q])'
  <2>1. env'[q] = env[q] /\ Comes(env[q])
    BY <1>1, <1>2, <1>4 DEF TypeInv, IInv
  <2>2. QED
    BY <1>1, <2>1 DEF Comes
<1>5. ASSUME NEW q \in Process, Running(q)'
      PROVE  SessionKept(q)'
  <2>1. q # p
    BY <1>1, <1>2, <1>5 DEF TypeInv, Running
  <2>2. env'[q] = env[q] /\ sessions'[q] = sessions[q]
    BY <1>1, <1>2, <2>1 DEF TypeInv
  <2>3. SessionKept(q)
    BY <1>5, <2>2 DEF IInv, Running
  <2>4. QED
    BY <1>1, <2>2, <2>3 DEF SessionKept, OfOneSpawn
<1>6. QED
  BY <1>3, <1>4, <1>5 DEF IInv

\* The branches change.
LEMMA BranchKeeps ==
  ASSUME IInv, UNCHANGED <<env, sessions, spawned, agents>>,
         branch' \in [File -> Seq(Entry \cup {Foreign})], EntriesConsistent'
  PROVE  IInv'
<1>1. TypeInv'
  BY DEF IInv, TypeInv
<1>2. ASSUME NEW p \in Process
      PROVE  (env'[p] # Unset => Comes(env[p])') /\ (Running(p)' => SessionKept(p)')
  BY DEF IInv, Comes, Running, SessionKept, OfOneSpawn
<1>3. QED
  BY <1>1, <1>2 DEF IInv

\* A foreign entry is not read.
LEMMA WriteForeignStep ==
  ASSUME IInv, NEW f \in File, WriteForeign(f)
  PROVE  IInv'
<1>1. /\ branch' = [branch EXCEPT ![f] = Append(branch[f], Foreign)]
      /\ UNCHANGED <<env, sessions, spawned, agents>>
  BY DEF WriteForeign
<1>2. branch \in [File -> Seq(Entry \cup {Foreign})] /\ EntriesConsistent
  BY DEF IInv, TypeInv
<1>3. branch' \in [File -> Seq(Entry \cup {Foreign})]
  BY <1>1, <1>2
<1>4. ASSUME NEW g \in File, NEW i \in DOMAIN branch'[g], branch'[g][i] # Foreign
      PROVE  Consistent(branch'[g][i])
  <2>1. i \in DOMAIN branch[g] /\ branch'[g][i] = branch[g][i]
    BY <1>1, <1>2, <1>4
  <2>2. QED
    BY <1>2, <1>4, <2>1 DEF EntriesConsistent
<1>5. EntriesConsistent'
  BY <1>4 DEF EntriesConsistent
<1>6. QED
  BY <1>1, <1>3, <1>5, BranchKeeps

\* A fork has entries of the branch only.
LEMMA ForkStep ==
  ASSUME IInv, NEW f \in File, NEW g \in File, Fork(f, g)
  PROVE  IInv'
<1>1. PICK n \in 1..Len(branch[f]) : branch' = [branch EXCEPT ![g] = SubSeq(branch[f], 1, n)]
  BY DEF Fork
<1>2. UNCHANGED <<env, sessions, spawned, agents>>
  BY DEF Fork
<1>3. branch \in [File -> Seq(Entry \cup {Foreign})] /\ EntriesConsistent
  BY DEF IInv, TypeInv
<1>4. branch' \in [File -> Seq(Entry \cup {Foreign})]
  <2>1. SubSeq(branch[f], 1, n) \in Seq(Entry \cup {Foreign})
    BY <1>3
  <2>2. QED
    BY <1>1, <1>3, <2>1
<1>5. ASSUME NEW h \in File, NEW i \in DOMAIN branch'[h], branch'[h][i] # Foreign
      PROVE  Consistent(branch'[h][i])
  <2>1. CASE h = g
    <3>1. i \in DOMAIN branch[f] /\ branch'[h][i] = branch[f][i]
      BY <1>1, <1>3, <1>5, <2>1
    <3>2. QED
      BY <1>3, <1>5, <3>1 DEF EntriesConsistent
  <2>2. CASE h # g
    <3>1. i \in DOMAIN branch[h] /\ branch'[h][i] = branch[h][i]
      BY <1>1, <1>3, <1>5, <2>2
    <3>2. QED
      BY <1>3, <1>5, <3>1 DEF EntriesConsistent
  <2>3. QED
    BY <2>1, <2>2
<1>6. EntriesConsistent'
  BY <1>5 DEF EntriesConsistent
<1>7. QED
  BY <1>2, <1>4, <1>6, BranchKeeps

-----------------------------------------------------------------------------
(* A session starts                                                        *)

\* What a session is made of: its process's environment, or an entry over it.
LEMMA StartedIs ==
  ASSUME NEW p \in Process, NEW f \in File, StartSession(p, f),
         NEW entry, entry = IF p \in Persistent THEN LatestEntry(branch[f]) ELSE Unset,
         NEW e, e = IF entry # Unset THEN Recovery(env[p], entry) ELSE env[p],
         NEW l, l = Lineage(e, entry, agents + 1),
         NEW t, t = TraceParent(e, entry, l.parent)
  PROVE  /\ env[p] # Unset /\ UNCHANGED <<env, spawned>>
         /\ sessions' = [sessions EXCEPT ![p] = [file |-> f, lineage |-> l, recovered |-> entry,
                                                trace |-> t]]
         /\ agents' \in {agents, agents + 1}
         /\ \/ branch' = branch
            \/ /\ branch' = [branch EXCEPT ![f] = Append(@, Data(l))]
               /\ Consistent(Data(l))
BY DEF StartSession, Started

\* A session that starts keeps the invariant.
LEMMA StartSessionStep ==
  ASSUME IInv, NEW p \in Process, NEW f \in File, StartSession(p, f)
  PROVE  IInv'
<1>1. TypeInv /\ EntriesConsistent
  BY DEF IInv
<1>2. agents + 1 \in Nat /\ env[p] # Unset /\ env[p] \in Environment /\ Comes(env[p])
  BY DEF StartSession, IInv, TypeInv, Optional
<1>3. PICK entry : entry = IF p \in Persistent THEN LatestEntry(branch[f]) ELSE Unset
  OBVIOUS
<1>4. entry \in Optional(Entry) /\ (entry # Unset => entry \in Entry /\ Consistent(entry))
  BY <1>1, <1>3, LatestIs DEF Optional
<1>5. PICK e : e = IF entry # Unset THEN Recovery(env[p], entry) ELSE env[p]
  OBVIOUS
<1>6. e \in Environment
  BY <1>2, <1>4, <1>5, RecoveryIs
<1>7. PICK l : l = Lineage(e, entry, agents + 1)
  OBVIOUS
<1>8. PICK t : t = TraceParent(e, entry, l.parent)
  OBVIOUS
<1>9. l \in LineageContext /\ t \in TraceContext
  BY <1>2, <1>4, <1>6, <1>7, <1>8, LineageTyped
<1> DEFINE s == [file |-> f, lineage |-> l, recovered |-> entry, trace |-> t]
<1>10. s \in Session /\ s.lineage = l /\ s.trace = t /\ s.recovered = entry
  BY <1>4, <1>9 DEF Session
<1> HIDE DEF s
<1>11. /\ UNCHANGED <<env, spawned>>
       /\ sessions' = [sessions EXCEPT ![p] = s]
       /\ agents' \in {agents, agents + 1}
       /\ \/ branch' = branch
          \/ branch' = [branch EXCEPT ![f] = Append(@, Data(l))] /\ Consistent(Data(l))
  BY <1>3, <1>5, <1>7, <1>8, StartedIs DEF s
<1>12. Data(l) \in Entry
  BY <1>9 DEF Data, Entry, LineageContext, Optional
<1>13. branch' \in [File -> Seq(Entry \cup {Foreign})] /\ EntriesConsistent'
  <2>1. CASE branch' = branch
    BY <1>1, <2>1 DEF TypeInv, EntriesConsistent
  <2>2. CASE branch' = [branch EXCEPT ![f] = Append(@, Data(l))] /\ Consistent(Data(l))
    <3>1. branch \in [File -> Seq(Entry \cup {Foreign})]
      BY <1>1 DEF TypeInv
    <3>2. branch' \in [File -> Seq(Entry \cup {Foreign})]
      BY <1>12, <2>2, <3>1
    <3>3. ASSUME NEW g \in File, NEW i \in DOMAIN branch'[g], branch'[g][i] # Foreign
          PROVE  Consistent(branch'[g][i])
      <4>1. \/ i \in DOMAIN branch[g] /\ branch'[g][i] = branch[g][i]
            \/ branch'[g][i] = Data(l)
        BY <2>2, <3>1, <3>3, <1>12
      <4>2. QED
        BY <1>1, <2>2, <3>3, <4>1 DEF EntriesConsistent
    <3>4. QED
      BY <3>2, <3>3 DEF EntriesConsistent
  <2>3. QED
    BY <1>11, <2>1, <2>2
<1>14. TypeInv'
  <2>1. sessions' \in [Process -> Optional(Session)]
    BY <1>1, <1>10, <1>11 DEF TypeInv, Optional
  <2>2. QED
    BY <1>1, <1>2, <1>11, <1>13, <2>1 DEF TypeInv
<1>15. entry = Unset => OfOneSpawn(l, t)
  <2>1. spawned \subseteq SpawnRecord
    BY <1>1 DEF TypeInv
  <2>2. QED
    BY <1>2, <1>5, <1>7, <1>8, <2>1, RootOrChild
<1>16. ~l.orphaned => HoldsAll(l, env[p])
  <2>1. CASE entry = Unset
    BY <1>2, <1>5, <1>7, <2>1, HoldsInherited
  <2>2. CASE entry # Unset
    BY <1>2, <1>4, <1>5, <1>7, <2>2, HoldsRecovered
  <2>3. QED
    BY <2>1, <2>2
<1>17. ASSUME NEW q \in Process, Running(q)'
       PROVE  SessionKept(q)'
  <2>1. CASE q = p
    <3>1. sessions'[q] = s /\ env'[q] = env[p]
      BY <1>1, <1>11, <2>1 DEF TypeInv
    <3>2. OfOneSpawn(l, t) => OfOneSpawn(l, t)'
      BY <1>11 DEF OfOneSpawn
    <3>3. QED
      BY <1>2, <1>10, <1>15, <1>16, <3>1, <3>2 DEF SessionKept
  <2>2. CASE q # p
    <3>1. sessions'[q] = sessions[q] /\ env'[q] = env[q]
      BY <1>1, <1>11, <2>2 DEF TypeInv
    <3>2. SessionKept(q)
      BY <1>17, <3>1 DEF IInv, Running
    <3>3. QED
      BY <1>11, <3>1, <3>2 DEF SessionKept, OfOneSpawn
  <2>3. QED
    BY <2>1, <2>2
<1>18. ASSUME NEW q \in Process, env'[q] # Unset
       PROVE  Comes(env[q])'
  BY <1>11, <1>18 DEF IInv, Comes
<1>19. QED
  BY <1>13, <1>14, <1>17, <1>18 DEF IInv

-----------------------------------------------------------------------------
(* The theorems                                                            *)

\* What processes, their sessions and their branches are.
THEOREM Inductive == Spec => []IInv
<1>1. Init => IInv
  <2> SUFFICES ASSUME Init
               PROVE  IInv
    OBVIOUS
  <2>1. TypeInv
    BY FS_EmptySet DEF Init, TypeInv, Optional
  <2>2. QED
    BY <2>1 DEF Init, IInv, EntriesConsistent, Running
<1>2. IInv /\ [Next]_vars => IInv'
  <2> SUFFICES ASSUME IInv, [Next]_vars
               PROVE  IInv'
    OBVIOUS
  <2>1. ASSUME NEW p \in Process, StartProcess(p) \/ Exit(p) \/ \E f \in File : StartSession(p, f)
        PROVE  IInv'
    BY <2>1, StartProcessStep, ExitStep, StartSessionStep
  <2>2. ASSUME NEW f \in File, WriteForeign(f) \/ \E g \in File : Fork(f, g)
        PROVE  IInv'
    BY <2>2, WriteForeignStep, ForkStep
  <2>3. ASSUME NEW p \in Process, NEW q \in Process,
               StartSubagent(p, q) \/ StartSubagentUnpropagated(p, q) \/ LaunchUnobserved(p, q)
        PROVE  IInv'
    BY <2>3, StartSubagentStep, StartUnpropagatedStep, LaunchUnobservedStep
  <2>4. CASE UNCHANGED vars
    BY <2>4 DEF vars, IInv, TypeInv, EntriesConsistent, Comes, Running, SessionKept, OfOneSpawn
  <2>5. QED
    BY <2>1, <2>2, <2>3, <2>4 DEF Next
<1>3. QED
  BY <1>1, <1>2, PTL DEF Spec

\* A lineage is inherited from one spawn altogether or not at all, in a workflow
\* of any size and whatever is lost on the way.
THEOREM LineageIsOfOneSpawn == Spec => []LineageOfOneSpawn
<1>1. IInv => LineageOfOneSpawn
  BY DEF IInv, SessionKept, OfOneSpawn, LineageOfOneSpawn, LineageOf
<1>2. QED
  BY Inductive, <1>1, PTL

\* Only its start changes what runs.
LEMMA OnlyStarts ==
  ASSUME IInv, [Next]_vars, NEW p \in Process, sessions'[p] # sessions[p], Running(p)'
  PROVE  \E f \in File : StartSession(p, f)
<1>1. sessions \in [Process -> Optional(Session)]
  BY DEF IInv, TypeInv
<1>2. CASE \E q \in Process : StartProcess(q) \/ Exit(q)
  BY <1>1, <1>2 DEF StartProcess, Exit, Running
<1>3. CASE \E q \in Process, f \in File : StartSession(q, f)
  <2>1. PICK q \in Process, f \in File : StartSession(q, f)
    BY <1>3
  <2>2. sessions' = [sessions EXCEPT ![q] = Started(q, f).session]
    BY <2>1 DEF StartSession
  <2>3. q = p
    BY <1>1, <2>2
  <2>4. QED
    BY <2>1, <2>3
<1>4. CASE \E f \in File : WriteForeign(f) \/ \E g \in File : Fork(f, g)
  BY <1>4 DEF WriteForeign, Fork
<1>5. CASE \E q \in Process, r \in Process :
             StartSubagent(q, r) \/ StartSubagentUnpropagated(q, r) \/ LaunchUnobserved(q, r)
  BY <1>5 DEF StartSubagent, StartSubagentUnpropagated, LaunchUnobserved
<1>6. CASE UNCHANGED vars
  BY <1>6 DEF vars
<1>7. QED
  BY <1>2, <1>3, <1>4, <1>5, <1>6 DEF Next

\* A session that starts with an entry that is restored has the entry's lineage.
LEMMA StartRestores ==
  ASSUME IInv, NEW p \in Persistent, NEW f \in File, StartSession(p, f),
         NEW entry \in Entry, entry = LatestEntry(branch[f]), Consistent(entry),
         env[p] \in Environment,
         ~IdentityRefused(env[p]), ~ContextRefused(env[p]), ~MetadataRefused(env[p]),
         entry.parent = Unset => env[p].parent = Unset,
         entry.session = Unset => env[p].session = Unset,
         entry.spawn = Unset => env[p].spawn = Unset,
         entry.capability = Unset => env[p].identity # "whole"
  PROVE  sessions'[p].file = f /\ sessions'[p].lineage = RestoredLineage(entry)
<1>1. p \in Process /\ agents + 1 \in Nat /\ sessions \in [Process -> Optional(Session)]
  BY PersistentTyped DEF IInv, TypeInv
<1>2. entry # Unset
  BY MarksAreDistinct
<1>3. PICK l : l = Lineage(Recovery(env[p], entry), entry, agents + 1)
  OBVIOUS
<1>4. PICK t : t = TraceParent(Recovery(env[p], entry), entry, l.parent)
  OBVIOUS
<1>5. PICK s : s = [file |-> f, lineage |-> l, recovered |-> entry, trace |-> t]
  OBVIOUS
<1>6. sessions' = [sessions EXCEPT ![p] = s]
  BY <1>1, <1>2, <1>3, <1>4, <1>5, StartedIs
<1>7. sessions'[p] = s /\ s.file = f /\ s.lineage = l
  BY <1>1, <1>5, <1>6
<1>8. l = RestoredLineage(entry)
  BY <1>1, <1>3, Restores
<1>9. QED
  BY <1>7, <1>8

\* A restored lineage has the data of its entry.
LEMMA DataRestored ==
  ASSUME NEW entry \in Entry
  PROVE  Data(RestoredLineage(entry)) = entry
BY DEF Data, RestoredLineage, Entry

\* A session takes up the latest readable entry of its branch as it was written.
THEOREM EntriesAreRestored == Spec => RestoredAsWritten
<1> DEFINE Restored(p, f) ==
      LET readable == {i \in DOMAIN branch[f] : branch[f][i] # Foreign}
      IN  /\ sessions'[p] # sessions[p] /\ Running(p)' /\ sessions'[p].file = f
          /\ env[p] = Clean /\ readable # {}
          => Data(LineageOf(p)') = branch[f][Max(readable)]
<1>1. ASSUME IInv, [Next]_vars, NEW p \in Persistent, NEW f \in File
      PROVE  Restored(p, f)
  <2> DEFINE readable == {i \in DOMAIN branch[f] : branch[f][i] # Foreign}
  <2> SUFFICES ASSUME sessions'[p] # sessions[p], Running(p)', sessions'[p].file = f,
                      env[p] = Clean, readable # {}
               PROVE  Data(LineageOf(p)') = branch[f][Max(readable)]
    OBVIOUS
  <2>1. p \in Process /\ TypeInv /\ EntriesConsistent
    BY <1>1, PersistentTyped DEF IInv
  <2>2. PICK g \in File : StartSession(p, g)
    BY <1>1, <2>1, OnlyStarts
  <2>3. sessions'[p].file = g
    BY <2>2 DEF StartSession, Started
  <2>4. StartSession(p, f)
    BY <2>2, <2>3
  <2>5. PICK entry \in Entry : /\ entry = LatestEntry(branch[f]) /\ Consistent(entry)
                               /\ entry = branch[f][Max(readable)]
    BY <2>1, LatestIs DEF Optional
  <2>6. /\ Clean \in Environment /\ Clean.parent = Unset /\ Clean.session = Unset
        /\ Clean.spawn = Unset /\ Clean.identity # "whole" /\ ~IdentityRefused(Clean)
        /\ ~ContextRefused(Clean) /\ ~MetadataRefused(Clean)
    BY CleanIs, MarksAreDistinct DEF Clean, IdentityRefused, ContextRefused, MetadataRefused
  <2>7. sessions'[p].lineage = RestoredLineage(entry)
    BY <1>1, <2>4, <2>5, <2>6, StartRestores
  <2>8. QED
    BY <2>5, <2>7, DataRestored DEF LineageOf
<1>2. IInv /\ [Next]_vars => [\A p \in Persistent, f \in File : Restored(p, f)]_vars
  BY <1>1
<1>3. QED
  BY Inductive, <1>2, PTL DEF Spec, RestoredAsWritten

\* A reload keeps the lineage of its agent, whatever its process inherited.
THEOREM ReloadsKeepLineage == Spec => ReloadKeepsLineage
<1> DEFINE Kept(p) ==
      /\ Running(p) /\ Running(p)' /\ sessions'[p] # sessions[p]
      /\ sessions'[p].file = sessions[p].file /\ sessions'[p].recovered = Data(LineageOf(p))
      /\ ~LineageOf(p).orphaned
      => LineageOf(p)' = LineageOf(p)
<1>1. ASSUME IInv, [Next]_vars, NEW p \in Process
      PROVE  Kept(p)
  <2> SUFFICES ASSUME Running(p), Running(p)', sessions'[p] # sessions[p],
                      sessions'[p].recovered = Data(LineageOf(p)), ~LineageOf(p).orphaned
               PROVE  LineageOf(p)' = LineageOf(p)
    OBVIOUS
  <2>1. TypeInv /\ EntriesConsistent /\ SessionKept(p)
    BY <1>1 DEF IInv
  <2>2. LineageOf(p) \in LineageContext /\ env[p] \in Environment /\ HoldsAll(LineageOf(p), env[p])
    BY <2>1 DEF TypeInv, SessionKept, Running, LineageOf, Session, Optional
  <2>3. PICK l \in LineageContext : l = LineageOf(p)
    BY <2>2
  <2>4. PICK f \in File : StartSession(p, f)
    BY <1>1, OnlyStarts
  <2>5. PICK entry : entry = IF p \in Persistent THEN LatestEntry(branch[f]) ELSE Unset
    OBVIOUS
  <2>6. sessions'[p].recovered = entry
    BY <2>1, <2>4, <2>5 DEF StartSession, Started, TypeInv
  <2>7. entry = Data(l) /\ Data(l) \in Entry
    <3>1. Data(l) \in Entry
      BY DEF Data, Entry, LineageContext, Optional
    <3>2. QED
      BY <2>3, <2>6, <3>1
  <2>8. entry # Unset
    BY <2>7, MarksAreDistinct
  <2>9. p \in Persistent /\ entry = LatestEntry(branch[f]) /\ Consistent(entry)
    BY <2>1, <2>5, <2>8, LatestIs
  <2>10. /\ entry.parent = l.parent /\ entry.session = l.session /\ entry.spawn = l.spawn
         /\ entry.capability = l.capability
    BY <2>7 DEF Data
  <2>11. sessions'[p].lineage = RestoredLineage(entry)
    BY <1>1, <2>2, <2>3, <2>4, <2>7, <2>9, <2>10, StartRestores DEF HoldsAll
  <2>12. RestoredLineage(entry) = l
    <3>1. /\ entry.workflow = l.workflow /\ entry.agent = l.agent /\ entry.root = l.root
          /\ entry.depth = l.depth
      BY <2>7 DEF Data
    <3>2. l.orphaned = FALSE
      BY <2>3 DEF LineageContext
    <3>3. QED
      BY <2>10, <3>1, <3>2 DEF RestoredLineage, LineageContext
  <2>13. QED
    BY <2>3, <2>11, <2>12 DEF LineageOf
<1>2. IInv /\ [Next]_vars => [\A p \in Process : Kept(p)]_vars
  BY <1>1
<1>3. QED
  BY Inductive, <1>2, PTL DEF Spec, ReloadKeepsLineage
=============================================================================
