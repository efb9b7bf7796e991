------------------------- MODULE SubagentSpawnProofs -------------------------
(***************************************************************************)
(* The accounts of subagent telemetry for every set of spawns, children,   *)
(* waits and joins, every limit of the registries and every membership     *)
(* filter without false negatives.                                         *)
(***************************************************************************)
EXTENDS SubagentSpawn, BoundedMapProofs, WellFoundedInduction

Node == [key : Child, status : Status]
Failure == [key : Child, recovered : BOOLEAN]

\* What is counted of a child is remembered, in the exact map or in the filter
\* and never in both.
Remembered(account) ==
  \A c \in Child :
    /\ account.failures[c] = 1 =>
         \/ \E e \in Entries(account.exact) : e.key = c
         \/ <<"failure", c>> \in account.archive
    /\ account.recoveries[c] = 1 =>
         \/ \E e \in Entries(account.exact) : e.key = c /\ e.recovered
         \/ <<"recovery", c>> \in account.archive
    /\ \A e \in Entries(account.exact) :
         e.key = c => {<<"failure", c>>, <<"recovery", c>>} \cap account.archive = {}

Counts(account) ==
  /\ account \in [exact : Seq(Failure), archive : SUBSET Token,
                  failures : [Child -> Nat], recoveries : [Child -> Nat]]
  /\ IsBoundedMap(account.exact, Failure, MaxSpawns)
  /\ \A c \in Child : account.failures[c] <= 1 /\ account.recoveries[c] <= 1

Account(account) == Counts(account) /\ Remembered(account)

\* The spawns, by their entries: the gauge counts them, a launch that completed
\* has its latency, and no two have the same child.
SpawnsKept ==
  /\ IsBoundedMap(spawns, SpawnEntry, MaxSpawns) /\ open["spawn"] = Len(spawns)
  /\ latencies \in [Spawn -> Nat]
  /\ \A s \in Spawn : latencies[s] = Count(\E e \in Entries(spawns) : e.key = s /\ e.launched)
  /\ \A d, e \in Entries(spawns) : d.child = e.child => d = e

\* The waits and joins, with the hints that are shown of them.
WaitsKept ==
  /\ waiting \in [Kind -> Seq(WaitEntry)]
  /\ \A kind \in Kind : /\ IsBoundedMap(waiting[kind], WaitEntry, MaxWaitJoins)
                        /\ open[kind] = Len(waiting[kind])
  /\ shown \in [children : Seq(Node), hints : SUBSET (Kind \X WaitJoin)]
  /\ \A hint \in shown.hints : \E e \in Entries(waiting[hint[1]]) : e.key = hint[2]

TreeKept ==
  /\ IsBoundedMap(tree, Node, MaxSpawns)
  /\ session = "open" => shown.children = tree

IInv ==
  /\ open \in [Kind \cup {"spawn"} -> Int] /\ session \in {"open", "closed"}
  /\ SpawnsKept /\ WaitsKept /\ TreeKept
  /\ Counts(accounting) /\ (session = "open" => Remembered(accounting))

-----------------------------------------------------------------------------
(* The accounting of failures                                              *)

\* What is counted of a child was not counted before: it is remembered in the
\* exact map or in the filter, and eviction moves it from the one to the other.
LEMMA AccountedKeeps ==
  ASSUME NEW account, Account(account), NEW child \in Child, NEW confirmed \in BOOLEAN
  PROVE  Account(Accounted(account, child, confirmed))
<1> DEFINE known == Has(account.exact, child)
           archived == /\ ~known
                       /\ \/ Reported(account, "failure", child)
                          \/ Reported(account, "recovery", child)
           failed == IF archived THEN Reported(account, "failure", child) ELSE known
           recovered == IF archived THEN Reported(account, "recovery", child)
                        ELSE known /\ Get(account.exact, child).recovered
           news == {t \in {"failure", "recovery"} \X {child} :
                      IF t[1] = "failure" THEN ~failed ELSE confirmed /\ ~recovered}
           entry == [key |-> child, recovered |-> recovered \/ confirmed]
           exact == IF archived THEN account.exact ELSE Set(account.exact, entry, MaxSpawns)
           archive == account.archive \cup
                        (IF archived THEN news
                         ELSE Archived(Evicted(account.exact, entry, MaxSpawns)))
           failures == [account.failures EXCEPT ![child] = @ + Count(<<"failure", child>> \in news)]
           recoveries == [account.recoveries EXCEPT
                            ![child] = @ + Count(<<"recovery", child>> \in news)]
<1>1. Accounted(account, child, confirmed) =
        [exact |-> exact, archive |-> archive, failures |-> failures, recoveries |-> recoveries]
  BY DEF Accounted
<1>2. /\ MaxSpawns \in Nat \ {0} /\ MaxSpawns \in Nat
      /\ IsBoundedMap(account.exact, Failure, MaxSpawns)
  BY LimitsPositive DEF Account, Counts
<1>3. /\ \A e \in Entries(account.exact) :
           e \in Failure /\ Has(account.exact, e.key) /\ Get(account.exact, e.key) = e
      /\ known => /\ Get(account.exact, child) \in Entries(account.exact)
                  /\ Get(account.exact, child).key = child
                  /\ Get(account.exact, child) \in Failure
  BY <1>2, GetEntry, EntryIsGot
<1>4. /\ ~Reported(account, "failure", child) => <<"failure", child>> \notin account.archive
      /\ ~Reported(account, "recovery", child) => <<"recovery", child>> \notin account.archive
  BY DEF Reported
<1>5. known \in BOOLEAN /\ archived \in BOOLEAN /\ failed \in BOOLEAN /\ recovered \in BOOLEAN
  <2>1. known => Get(account.exact, child).recovered \in BOOLEAN
    BY <1>3 DEF Failure
  <2>2. /\ known \in BOOLEAN /\ Reported(account, "failure", child) \in BOOLEAN
        /\ Reported(account, "recovery", child) \in BOOLEAN
    BY DEF Has, Reported
  <2>3. QED
    BY <2>1, <2>2
<1>6. /\ <<"failure", child>> \in news <=> ~failed
      /\ <<"recovery", child>> \in news <=> confirmed /\ ~recovered
      /\ news \subseteq Token
      /\ \A t \in news : t \in {<<"failure", child>>, <<"recovery", child>>}
  BY DEF Token
<1>7. entry \in Failure /\ entry.key = child /\ (entry.recovered <=> recovered \/ confirmed)
  BY <1>5 DEF Failure
<1> HIDE DEF news, entry, failed, recovered
<1>8. /\ account.failures \in [Child -> Nat] /\ account.recoveries \in [Child -> Nat]
      /\ account.archive \subseteq Token
      /\ \A c \in Child : account.failures[c] \in {0, 1} /\ account.recoveries[c] \in {0, 1}
  <2>1. /\ account.failures \in [Child -> Nat] /\ account.recoveries \in [Child -> Nat]
        /\ account.archive \subseteq Token
    BY DEF Account, Counts
  <2>2. \A c \in Child : account.failures[c] <= 1 /\ account.recoveries[c] <= 1
    BY DEF Account, Counts
  <2>3. QED
    BY <2>1, <2>2
<1>9. /\ failed \/ account.failures[child] = 0
      /\ recovered \/ account.recoveries[child] = 0
  <2>1. CASE archived
    <3>1. /\ failed <=> Reported(account, "failure", child)
          /\ recovered <=> Reported(account, "recovery", child)
          /\ ~Has(account.exact, child)
      BY <2>1 DEF failed, recovered
    <3>2. \A e \in Entries(account.exact) : e.key # child
      BY <1>3, <3>1
    <3>3. QED
      BY <1>4, <1>8, <3>1, <3>2 DEF Account, Remembered
  <2>2. CASE ~archived /\ known
    <3>1. failed /\ (recovered <=> Get(account.exact, child).recovered)
      BY <2>2 DEF failed, recovered
    <3>2. \A e \in Entries(account.exact) : e.key = child => e = Get(account.exact, child)
      BY <1>3
    <3>3. <<"recovery", child>> \notin account.archive
      BY <1>3, <2>2 DEF Account, Remembered
    <3>4. ASSUME ~recovered
          PROVE  account.recoveries[child] # 1
      <4>1. \A e \in Entries(account.exact) : e.key = child => ~e.recovered
        BY <3>1, <3>2, <3>4
      <4>2. QED
        BY <3>3, <4>1 DEF Account, Remembered
    <3>5. QED
      BY <1>5, <1>8, <3>1, <3>4
  <2>3. CASE ~archived /\ ~known
    <3>1. /\ <<"failure", child>> \notin account.archive
          /\ <<"recovery", child>> \notin account.archive
          /\ \A e \in Entries(account.exact) : e.key # child
      BY <1>3, <1>4, <2>3
    <3>2. QED
      BY <1>8, <3>1 DEF Account, Remembered
  <2>4. QED
    BY <2>1, <2>2, <2>3
<1>10. /\ failures \in [Child -> Nat] /\ recoveries \in [Child -> Nat]
       /\ failures[child] \in {0, 1} /\ recoveries[child] \in {0, 1}
       /\ \A c \in Child \ {child} : /\ failures[c] = account.failures[c]
                                     /\ recoveries[c] = account.recoveries[c]
       /\ failures[child] = 1 => account.failures[child] = 1 \/ <<"failure", child>> \in news
       /\ recoveries[child] = 1 => account.recoveries[child] = 1 \/ <<"recovery", child>> \in news
  BY <1>6, <1>8, <1>9 DEF Count
<1> HIDE DEF failures, recoveries
<1>11. CASE archived
  <2>1. /\ exact = account.exact /\ archive = account.archive \cup news
        /\ \A e \in Entries(account.exact) : e.key # child
    BY <1>3, <1>11
  <2> HIDE DEF exact, archive, archived, known
  <2>2. Counts(Accounted(account, child, confirmed))
    <3>1. IsBoundedMap(exact, Failure, MaxSpawns) /\ exact \in Seq(Failure)
      BY <1>2, <2>1 DEF IsBoundedMap
    <3>2. archive \subseteq Token /\ \A c \in Child : failures[c] <= 1 /\ recoveries[c] <= 1
      BY <1>6, <1>8, <1>10, <2>1
    <3>3. QED
      BY <1>1, <1>10, <3>1, <3>2 DEF Counts
  <2>3. \A c \in Child :
          /\ failures[c] = 1 => (\E e \in Entries(exact) : e.key = c) \/ <<"failure", c>> \in archive
          /\ recoveries[c] = 1 => \/ \E e \in Entries(exact) : e.key = c /\ e.recovered
                                  \/ <<"recovery", c>> \in archive
    BY <1>10, <2>1 DEF Account, Remembered
  <2>4. \A e \in Entries(exact) : {<<"failure", e.key>>, <<"recovery", e.key>>} \cap archive = {}
    <3> TAKE e \in Entries(exact)
    <3>1. e.key \in Child /\ e.key # child /\ e \in Entries(account.exact)
      BY <1>3, <2>1 DEF Failure
    <3>2. {<<"failure", e.key>>, <<"recovery", e.key>>} \cap account.archive = {}
      BY <3>1 DEF Account, Remembered
    <3>3. {<<"failure", e.key>>, <<"recovery", e.key>>} \cap news = {}
      BY <1>6, <3>1
    <3>4. QED
      BY <2>1, <3>2, <3>3
  <2>5. QED
    BY <1>1, <2>2, <2>3, <2>4 DEF Account, Remembered
<1>12. CASE ~archived
  <2> DEFINE evicted == Evicted(account.exact, entry, MaxSpawns)
  <2>1. exact = Set(account.exact, entry, MaxSpawns) /\ archive = account.archive \cup Archived(evicted)
    BY <1>12
  <2> DEFINE all == account.exact
  <2> HIDE DEF exact, archive
  <2>0. IsBoundedMap(all, Failure, MaxSpawns)
    BY <1>2
  <2> HIDE DEF all
  <2>2. /\ IsBoundedMap(exact, Failure, MaxSpawns)
        /\ evicted \subseteq Entries(account.exact)
        /\ \A e \in evicted : e.key # child
        /\ Entries(exact) = ({e \in Entries(account.exact) : e.key # child} \ evicted) \cup {entry}
    <3>1. IsSet(account.exact, entry, Failure, MaxSpawns)
      BY <1>2, <1>7, SetEntries
    <3>2. QED
      BY <1>7, <2>1, <3>1 DEF IsSet
  <2>3. <<"failure", child>> \notin account.archive /\ <<"recovery", child>> \notin account.archive
    <3>1. CASE known
      BY <1>3, <3>1 DEF Account, Remembered
    <3>2. CASE ~known
      BY <1>4, <1>12, <3>2
    <3>3. QED
      BY <3>1, <3>2
  <2>4. recovered => account.exact # <<>> /\ known /\ Get(account.exact, child).recovered
    BY <1>12 DEF recovered, Has, Keys
  <2> HIDE DEF exact, archive, archived, known, evicted
  <2>5. /\ \A e \in evicted : <<"failure", e.key>> \in archive
        /\ \A e \in evicted : e.recovered => <<"recovery", e.key>> \in archive
        /\ archive \subseteq Token
        /\ \A t \in archive : t \in account.archive \/ \E e \in evicted : t[2] = e.key
    <3>1. \A e \in evicted : e.key \in Child
      BY <1>3, <2>2 DEF Failure
    <3>2. QED
      BY <1>8, <2>1, <3>1 DEF Archived, Token
  <2>6. Counts(Accounted(account, child, confirmed))
    <3>1. exact \in Seq(Failure)
      BY <2>2 DEF IsBoundedMap
    <3>2. \A c \in Child : failures[c] <= 1 /\ recoveries[c] <= 1
      BY <1>8, <1>10
    <3>3. QED
      BY <1>1, <1>10, <2>2, <2>5, <3>1, <3>2 DEF Counts
  <2>7. ASSUME NEW c \in Child
        PROVE  /\ failures[c] = 1 => \/ \E e \in Entries(exact) : e.key = c
                                     \/ <<"failure", c>> \in archive
               /\ recoveries[c] = 1 => \/ \E e \in Entries(exact) : e.key = c /\ e.recovered
                                       \/ <<"recovery", c>> \in archive
    <3>1. CASE c = child
      <4>1. entry \in Entries(exact) /\ entry.key = c
        BY <1>7, <2>2, <3>1
      <4>2. recoveries[c] = 1 => entry.recovered
        <5>1. account.recoveries[child] = 1 => recovered
          BY <1>9
        <5>2. QED
          BY <1>6, <1>7, <1>10, <3>1, <5>1
      <4>3. QED
        BY <4>1, <4>2
    <3>2. CASE c # child
      <4>1. failures[c] = account.failures[c] /\ recoveries[c] = account.recoveries[c]
        BY <1>10, <3>2
      <4>2. \A e \in Entries(account.exact) : e.key = c => e \in Entries(exact) \/ e \in evicted
        BY <2>2, <3>2
      <4>3. failures[c] = 1 => \/ \E e \in Entries(account.exact) : e.key = c
                               \/ <<"failure", c>> \in account.archive
        BY <4>1 DEF Account, Remembered
      <4>4. recoveries[c] = 1 => \/ \E e \in Entries(account.exact) : e.key = c /\ e.recovered
                                 \/ <<"recovery", c>> \in account.archive
        BY <4>1 DEF Account, Remembered
      <4>5. QED
        BY <2>1, <2>5, <4>2, <4>3, <4>4
    <3>3. QED
      BY <3>1, <3>2
  <2>8. \A e \in Entries(exact) : {<<"failure", e.key>>, <<"recovery", e.key>>} \cap archive = {}
    <3> TAKE e \in Entries(exact)
    <3>1. \A d \in evicted : d.key # e.key
      BY <1>3, <1>7, <2>2
    <3>2. {<<"failure", e.key>>, <<"recovery", e.key>>} \cap account.archive = {}
      <4>1. CASE e.key = child
        BY <2>3, <4>1
      <4>2. CASE e.key # child
        <5>1. e \in Entries(account.exact) /\ e.key \in Child
          BY <1>3, <1>7, <2>2, <4>2 DEF Failure
        <5>2. QED
          BY <5>1 DEF Account, Remembered
      <4>3. QED
        BY <4>1, <4>2
    <3>3. QED
      BY <2>5, <3>1, <3>2
  <2>9. QED
    BY <1>1, <2>6, <2>7, <2>8 DEF Account, Remembered
<1>13. QED
  BY <1>11, <1>12

\* A join accounts a child it knows to have failed, and nothing else.
LEMMA JoinAccountedKeeps ==
  ASSUME NEW account, Account(account), NEW kind, NEW child \in Child \cup {Unset}, NEW outcome
  PROVE  Account(JoinAccounted(account, kind, child, outcome))
<1>1. CASE kind = "join" /\ child # Unset /\ outcome.childStatus = "failed"
  <2> DEFINE confirmed == outcome.propagated = "false" /\ outcome.joinStatus = "completed"
  <2>1. JoinAccounted(account, kind, child, outcome) = Accounted(account, child, confirmed)
    BY <1>1 DEF JoinAccounted
  <2>2. child \in Child /\ confirmed \in BOOLEAN
    BY <1>1
  <2> HIDE DEF confirmed
  <2>3. QED
    BY <2>1, <2>2, AccountedKeeps
<1>2. CASE ~(kind = "join" /\ child # Unset /\ outcome.childStatus = "failed")
  <2>1. JoinAccounted(account, kind, child, outcome) = account
    BY <1>2 DEF JoinAccounted
  <2>2. QED
    BY <2>1
<1>3. QED
  BY <1>1, <1>2

-----------------------------------------------------------------------------
(* Induction, from the library's least elements                            *)

\* Every nonempty set of numbers has a smallest,
LEMMA SmallestOf ==
  ASSUME NEW S, S \subseteq Nat, S # {}
  PROVE  \E m \in S : \A k \in S : m <= k
<1> DEFINE R == OpToRel(<, Nat)
<1>1. R = {s \in Nat \X Nat : s[1] < s[2]}
  BY DEF OpToRel
<1>2. IsWellFoundedOn(R, Nat)
  BY NatLessThanWellFounded
<1> HIDE DEF R
<1>3. PICK m \in S : \A k \in S : <<k, m>> \notin R
  BY <1>2, WFMin
<1>4. \A k \in S : ~(k < m)
  <2> TAKE k \in S
  <2>1. <<k, m>> \in Nat \X Nat /\ <<k, m>>[1] = k /\ <<k, m>>[2] = m
    OBVIOUS
  <2>2. <<k, m>> \notin R
    BY <1>3
  <2>3. QED
    BY <1>1, <2>1, <2>2
<1>5. QED
  BY <1>4

\* so that what holds at 0 and after every step holds of every number.
LEMMA Induction ==
  ASSUME NEW S, 0 \in S, \A n \in Nat : n \in S => n + 1 \in S
  PROVE  Nat \subseteq S
<1> SUFFICES ASSUME Nat \ S # {}
             PROVE  FALSE
  OBVIOUS
<1>1. PICK m \in Nat \ S : \A k \in Nat \ S : m <= k
  BY SmallestOf
<1>2. m - 1 \in Nat /\ m - 1 \in S
  BY <1>1
<1>3. QED
  BY <1>1, <1>2

\* The joins that are cancelled are accounted one after the other.
LEMMA CancelledJoinsKeep ==
  ASSUME Account(accounting), waiting["join"] \in Seq(WaitEntry), NEW nodes
  PROVE  Account(CancelJoinAccounts(nodes))
<1> DEFINE joins == waiting["join"]
           last == Len(joins)
           Given(child) == [childStatus |-> InterruptedStatus(nodes, child),
                            joinStatus |-> "cancelled", propagated |-> Unset]
           Joined(account, n) == JoinAccounted(account, "join", joins[n].child,
                                   Resolved(joins[n].outcome, Given(joins[n].child)))
           IsFold(f, m) == f = [n \in 0 .. m |-> IF n = 0 THEN accounting ELSE Joined(f[n - 1], n)]
           fold == CHOOSE f : IsFold(f, last)
<1>1. CancelJoinAccounts(nodes) = fold[last]
  BY DEF CancelJoinAccounts
<1>2. last \in Nat /\ \A n \in 1 .. last : joins[n].child \in Child \cup {Unset}
  <2>1. last \in Nat /\ \A n \in 1 .. last : joins[n] \in WaitEntry
    BY LenProperties, ElementOfSeq
  <2>2. QED
    BY <2>1 DEF WaitEntry
<1>3. \A account, n : n \in 1 .. last /\ Account(account) => Account(Joined(account, n))
  BY <1>2, JoinAccountedKeeps
<1> HIDE DEF Joined, last
<1>4. \E f : IsFold(f, last)
  <2> DEFINE S == {m \in Nat : \E f : IsFold(f, m)}
  <2>1. 0 \in S
    <3>1. IsFold([n \in 0 .. 0 |-> accounting], 0)
      OBVIOUS
    <3>2. QED
      BY <3>1
  <2>2. ASSUME NEW m \in Nat, m \in S
        PROVE  m + 1 \in S
    <3>1. PICK f : IsFold(f, m)
      BY <2>2
    <3> DEFINE g == [n \in 0 .. m + 1 |-> IF n = 0 THEN accounting ELSE Joined(f[n - 1], n)]
    <3>2. \A n \in 0 .. m : g[n] = f[n]
      BY <3>1
    <3>3. \A n \in 1 .. m + 1 : n - 1 \in 0 .. m
      OBVIOUS
    <3>4. \A n \in 0 .. m + 1 : (IF n = 0 THEN accounting ELSE Joined(f[n - 1], n)) =
                                 (IF n = 0 THEN accounting ELSE Joined(g[n - 1], n))
      <4>1. \A n \in 0 .. m + 1 : n # 0 => n \in 1 .. m + 1
        OBVIOUS
      <4> HIDE DEF g
      <4>2. QED
        BY <3>2, <3>3, <4>1
    <3>5. g = [n \in 0 .. m + 1 |-> IF n = 0 THEN accounting ELSE Joined(f[n - 1], n)]
      OBVIOUS
    <3> HIDE DEF g
    <3>6. IsFold(g, m + 1)
      BY <3>4, <3>5
    <3>7. m + 1 \in Nat
      OBVIOUS
    <3> HIDE DEF IsFold
    <3>8. QED
      BY <3>6, <3>7
  <2> HIDE DEF S
  <2>3. last \in S
    BY <1>2, <2>1, <2>2, Induction
  <2>4. QED
    BY <2>3 DEF S
<1>5. IsFold(fold, last)
  BY <1>4
<1> HIDE DEF fold
<1>6. /\ fold[0] = accounting
      /\ \A n \in 1 .. last : fold[n] = Joined(fold[n - 1], n)
  BY <1>2, <1>5
<1>7. DEFINE S == {n \in Nat : n <= last => Account(fold[n])}
<1>8. 0 \in S
  BY <1>6
<1>9. \A n \in Nat : n \in S => n + 1 \in S
  <2> TAKE n \in Nat
  <2>1. n + 1 <= last => /\ n + 1 \in 1 .. last /\ n <= last
                         /\ fold[n + 1] = Joined(fold[n], n + 1)
    BY <1>2, <1>6
  <2>2. QED
    BY <1>3, <2>1
<1> HIDE DEF S
<1>10. last \in S
  BY <1>2, <1>8, <1>9, Induction
<1>11. QED
  BY <1>1, <1>2, <1>10 DEF S
-----------------------------------------------------------------------------
(* The tree                                                                *)

\* A child that ended keeps its status for as long as it is there.
EndedStay(before, after) ==
  \A child \in Child :
    (Has(before, child) /\ Has(after, child) /\ Get(before, child).status \in FinalStatus)
       => Get(after, child).status = Get(before, child).status

\* updateStatus changes one child, and none that ended.
LEMMA WithStatusKeeps ==
  ASSUME NEW nodes, IsBoundedMap(nodes, Node, MaxSpawns), NEW child, NEW status \in Status
  PROVE  LET changed == WithStatus(nodes, child, status) IN
           IsBoundedMap(changed, Node, MaxSpawns) /\ EndedStay(nodes, changed)
<1> DEFINE changed == WithStatus(nodes, child, status)
<1>1. Len(nodes) \in Nat /\ DOMAIN nodes = 1 .. Len(nodes) /\ \A i \in DOMAIN nodes : nodes[i] \in Node
  BY LenProperties, ElementOfSeq DEF IsBoundedMap
<1>2. \A i \in DOMAIN nodes :
        \/ changed[i] = nodes[i]
        \/ /\ TransitionAllowed(nodes[i].status, status)
           /\ changed[i] = [nodes[i] EXCEPT !.status = status]
  BY DEF WithStatus
<1>3. \A i \in DOMAIN nodes :
        /\ changed[i] \in Node /\ changed[i].key = nodes[i].key
        /\ nodes[i].status \in FinalStatus => changed[i].status = nodes[i].status
  BY <1>1, <1>2 DEF Node, TransitionAllowed, FinalStatus, Terminal
<1>4. changed \in Seq(Node) /\ Len(changed) = Len(nodes)
  <2>1. changed = [i \in 1 .. Len(nodes) |-> changed[i]]
    BY <1>1 DEF WithStatus
  <2> HIDE DEF changed
  <2>2. changed \in [1 .. Len(nodes) -> Node]
    BY <1>1, <1>3, <2>1
  <2>3. QED
    BY <1>1, <2>2, SeqDef, LenProperties
<1> HIDE DEF changed
<1>5. IsBoundedMap(changed, Node, MaxSpawns)
  BY <1>3, <1>4, RewrittenIsBounded
<1>6. ASSUME NEW c \in Child, Has(nodes, c), Get(nodes, c).status \in FinalStatus
      PROVE  Get(changed, c).status = Get(nodes, c).status
  <2>1. /\ Position(nodes, c) \in DOMAIN nodes
        /\ Get(nodes, c) = nodes[Position(nodes, c)]
        /\ Get(changed, c) = changed[Position(nodes, c)]
    BY <1>3, <1>4, <1>6, RewrittenEntries
  <2>2. QED
    BY <1>3, <1>6, <2>1
<1>7. QED
  BY <1>5, <1>6 DEF EndedStay, changed

\* The cancellations end the children they are about, and change none that ended.
LEMMA CancelledKeeps ==
  ASSUME NEW nodes, IsBoundedMap(nodes, Node, MaxSpawns), NEW children
  PROVE  LET changed == Cancelled(nodes, children) IN
           /\ IsBoundedMap(changed, Node, MaxSpawns) /\ EndedStay(nodes, changed)
           /\ \A child \in Keys(nodes) : child \in children => Get(changed, child).status \in FinalStatus
<1> DEFINE changed == Cancelled(nodes, children)
<1>1. Len(nodes) \in Nat /\ DOMAIN nodes = 1 .. Len(nodes) /\ \A i \in DOMAIN nodes : nodes[i] \in Node
  BY LenProperties, ElementOfSeq DEF IsBoundedMap
<1>2. ASSUME NEW i \in DOMAIN nodes
      PROVE  InterruptedStatus(nodes, nodes[i].key) =
               IF nodes[i].status \in FinalStatus THEN nodes[i].status ELSE "cancelled"
  <2>1. nodes[i] \in Entries(nodes)
    BY DEF Entries
  <2>2. Has(nodes, nodes[i].key) /\ Get(nodes, nodes[i].key) = nodes[i]
    BY <2>1, EntryIsGot
  <2>3. QED
    BY <2>2 DEF InterruptedStatus
<1>3. ASSUME NEW i \in DOMAIN nodes
      PROVE  /\ changed[i] \in Node /\ changed[i].key = nodes[i].key
             /\ nodes[i].status \in FinalStatus => changed[i].status = nodes[i].status
             /\ nodes[i].key \in children => changed[i].status \in FinalStatus
  <2>1. nodes[i] \in Node /\ "cancelled" \in FinalStatus /\ FinalStatus \subseteq Status
    BY <1>1 DEF FinalStatus, Terminal, Status
  <2>2. CASE nodes[i].key \notin children
    BY <2>1, <2>2 DEF Cancelled
  <2>3. CASE nodes[i].key \in children
    <3>1. changed[i] = [nodes[i] EXCEPT !.status = InterruptedStatus(nodes, nodes[i].key)]
      BY <2>3 DEF Cancelled
    <3> HIDE DEF changed
    <3>2. InterruptedStatus(nodes, nodes[i].key) \in FinalStatus
      BY <1>2, <2>1
    <3>3. QED
      BY <1>2, <2>1, <3>1, <3>2 DEF Node
  <2>4. QED
    BY <2>2, <2>3
<1>4. changed \in Seq(Node) /\ Len(changed) = Len(nodes)
  <2>1. changed = [i \in 1 .. Len(nodes) |-> changed[i]]
    BY <1>1 DEF Cancelled
  <2> HIDE DEF changed
  <2>2. changed \in [1 .. Len(nodes) -> Node]
    BY <1>1, <1>3, <2>1
  <2>3. QED
    BY <1>1, <2>2, SeqDef, LenProperties
<1> HIDE DEF changed
<1>5. IsBoundedMap(changed, Node, MaxSpawns)
  BY <1>3, <1>4, RewrittenIsBounded
<1>6. ASSUME NEW c, Has(nodes, c)
      PROVE  /\ Get(nodes, c).status \in FinalStatus => Get(changed, c).status = Get(nodes, c).status
             /\ c \in children => Get(changed, c).status \in FinalStatus
  <2>1. /\ Position(nodes, c) \in DOMAIN nodes /\ nodes[Position(nodes, c)].key = c
        /\ Get(nodes, c) = nodes[Position(nodes, c)]
        /\ Get(changed, c) = changed[Position(nodes, c)]
    BY <1>3, <1>4, <1>6, RewrittenEntries
  <2>2. QED
    BY <1>3, <2>1
<1>7. QED
  BY <1>5, <1>6 DEF EndedStay, Has, changed

\* A child that comes in is a new node, and nothing but it is new.
LEMMA RegisterKeeps ==
  ASSUME IsBoundedMap(tree, Node, MaxSpawns), NEW child \in Child, ~Tracked(child)
  PROVE  IsBoundedMap(Register(child), Node, MaxSpawns) /\ EndedStay(tree, Register(child))
<1> DEFINE entry == [key |-> child, status |-> "starting"]
           grown == Set(tree, entry, MaxSpawns)
<1>1. Register(child) = grown /\ entry \in Node /\ entry.key = child /\ MaxSpawns \in Nat \ {0}
  BY LimitsPositive DEF Register, Node, Status
<1> HIDE DEF entry
<1>2. /\ IsBoundedMap(grown, Node, MaxSpawns)
      /\ \A e \in Entries(grown) : e = entry \/ e \in Entries(tree)
  <2>0. IsSet(tree, entry, Node, MaxSpawns)
    BY <1>1, SetEntries
  <2>1. /\ IsBoundedMap(grown, Node, MaxSpawns)
        /\ Entries(grown) = ({e \in Entries(tree) : e.key # entry.key}
                                \ Evicted(tree, entry, MaxSpawns)) \cup {entry}
    BY <2>0 DEF IsSet
  <2>2. QED
    BY <2>1
<1> HIDE DEF grown
<1>3. ASSUME NEW c \in Child, Has(tree, c), Has(grown, c)
      PROVE  Get(grown, c) = Get(tree, c)
  <2>1. Get(grown, c) \in Entries(grown) /\ Get(grown, c).key = c
    BY <1>2, <1>3, GetEntry
  <2>2. c # child
    BY <1>3 DEF Tracked
  <2>3. Get(grown, c) \in Entries(tree)
    BY <1>1, <1>2, <2>1, <2>2
  <2>4. QED
    BY <2>1, <2>3, EntryIsGot
<1>4. QED
  BY <1>1, <1>2, <1>3 DEF EndedStay
-----------------------------------------------------------------------------
(* The spawns                                                              *)

\* A spawn is found by its key, and its latencies are those of its launch.
LEMMA EntryOfSpawns ==
  ASSUME IInv, NEW entry \in Entries(spawns)
  PROVE  /\ entry \in SpawnEntry /\ Has(spawns, entry.key) /\ Get(spawns, entry.key) = entry
         /\ latencies[entry.key] = Count(entry.launched)
         /\ \A e \in Entries(spawns) : e.key = entry.key => e = entry
<1>1. IsBoundedMap(spawns, SpawnEntry, MaxSpawns)
  BY DEF IInv, SpawnsKept
<1>2. entry \in SpawnEntry /\ Has(spawns, entry.key) /\ Get(spawns, entry.key) = entry
  BY <1>1, EntryIsGot
<1>3. \A e \in Entries(spawns) : e.key = entry.key => e = entry
  <2> TAKE e \in Entries(spawns)
  <2>1. Get(spawns, e.key) = e
    BY <1>1, EntryIsGot
  <2>2. QED
    BY <1>2, <2>1
<1>4. latencies[entry.key] = Count(\E e \in Entries(spawns) : e.key = entry.key /\ e.launched)
  BY <1>2 DEF IInv, SpawnsKept, SpawnEntry
<1>5. (\E e \in Entries(spawns) : e.key = entry.key /\ e.launched) <=> entry.launched
  BY <1>3
<1>6. QED
  BY <1>2, <1>3, <1>4, <1>5 DEF Count

\* The end of a span takes one spawn, one of the gauge and the latency it owed.
LEMMA SpawnEnds ==
  ASSUME IInv, NEW entry \in Entries(spawns), EndSpawn(entry)
  PROVE  /\ SpawnsKept' /\ open' \in [Kind \cup {"spawn"} -> Int]
         /\ \A kind \in Kind : open'[kind] = open[kind]
<1>1. /\ entry \in SpawnEntry /\ Has(spawns, entry.key)
      /\ latencies[entry.key] = Count(entry.launched)
      /\ entry.key \in Spawn /\ entry.launched \in BOOLEAN
  BY EntryOfSpawns DEF SpawnEntry
<1>2. /\ IsBoundedMap(spawns, SpawnEntry, MaxSpawns) /\ open["spawn"] = Len(spawns)
      /\ latencies \in [Spawn -> Nat] /\ open \in [Kind \cup {"spawn"} -> Int]
      /\ MaxSpawns \in Nat
  BY LimitsPositive DEF IInv, SpawnsKept
<1>3. /\ IsBoundedMap(spawns', SpawnEntry, MaxSpawns)
      /\ Entries(spawns') = {e \in Entries(spawns) : e.key # entry.key}
      /\ Len(spawns') = Len(spawns) - 1
  BY <1>1, <1>2, DeleteEntries DEF EndSpawn
<1>4. open' = [open EXCEPT !["spawn"] = @ - 1]
  BY DEF EndSpawn
<1>5. /\ open'["spawn"] = Len(spawns') /\ open' \in [Kind \cup {"spawn"} -> Int]
      /\ \A kind \in Kind : open'[kind] = open[kind]
  BY <1>2, <1>3, <1>4 DEF Kind
<1>6. /\ latencies' \in [Spawn -> Nat] /\ latencies'[entry.key] = 0
      /\ \A s \in Spawn : s # entry.key => latencies'[s] = latencies[s]
  <2>1. latencies[entry.key] + Recorded(entry) - 1 = 0
    BY <1>1 DEF Recorded, Count
  <2>2. latencies' = [latencies EXCEPT ![entry.key] = 0]
    BY <1>1, <1>2, <2>1 DEF EndSpawn
  <2>3. QED
    BY <1>1, <1>2, <2>2
<1>7. ASSUME NEW s \in Spawn
      PROVE  latencies'[s] = Count(\E e \in Entries(spawns') : e.key = s /\ e.launched)
  <2>1. CASE s = entry.key
    <3>1. ~(\E e \in Entries(spawns') : e.key = s /\ e.launched)
      BY <1>3, <2>1
    <3>2. QED
      BY <1>6, <2>1, <3>1 DEF Count
  <2>2. CASE s # entry.key
    <3>1. (\E e \in Entries(spawns') : e.key = s /\ e.launched)
            <=> \E e \in Entries(spawns) : e.key = s /\ e.launched
      BY <1>3, <2>2
    <3>2. latencies[s] = Count(\E e \in Entries(spawns) : e.key = s /\ e.launched)
      BY DEF IInv, SpawnsKept
    <3>3. QED
      BY <1>6, <2>2, <3>1, <3>2 DEF Count
  <2>3. QED
    BY <2>1, <2>2
<1>8. \A d, e \in Entries(spawns') : d.child = e.child => d = e
  BY <1>3 DEF IInv, SpawnsKept
<1>9. QED
  BY <1>3, <1>5, <1>6, <1>7, <1>8 DEF SpawnsKept

\* A spawn that starts may evict the oldest one, and then ends its span.
LEMMA SpawnStarts ==
  ASSUME IInv, NEW s \in Spawn, NEW child \in Child, StartSubagent(s, child)
  PROVE  /\ SpawnsKept' /\ open' \in [Kind \cup {"spawn"} -> Int]
         /\ \A kind \in Kind : open'[kind] = open[kind]
<1> DEFINE entry   == [key |-> s, child |-> child, launched |-> FALSE]
           evicted == Evicted(spawns, entry, MaxSpawns)
<1>1. /\ spawns' = Set(spawns, entry, MaxSpawns)
      /\ open' = [open EXCEPT !["spawn"] = @ + 1 - Cardinality(evicted)]
      /\ latencies' = [i \in Spawn |-> IF i \in {e.key : e \in evicted} THEN 0 ELSE latencies[i]]
      /\ ~Has(spawns, s) /\ \A e \in Entries(spawns) : e.child # child
  BY DEF StartSubagent, Retained
<1>2. /\ IsBoundedMap(spawns, SpawnEntry, MaxSpawns) /\ open["spawn"] = Len(spawns)
      /\ latencies \in [Spawn -> Nat] /\ open \in [Kind \cup {"spawn"} -> Int]
      /\ MaxSpawns \in Nat \ {0} /\ Len(spawns) \in Nat
  BY LimitsPositive, LenProperties DEF IInv, SpawnsKept, IsBoundedMap
<1>3. entry \in SpawnEntry /\ entry.key = s /\ entry.child = child /\ ~entry.launched
  BY DEF SpawnEntry
<1> HIDE DEF entry, evicted
<1>4. /\ IsBoundedMap(spawns', SpawnEntry, MaxSpawns)
      /\ Cardinality(evicted) \in {0, 1}
      /\ Len(spawns') = Len(spawns) + 1 - Cardinality(evicted)
      /\ Entries(spawns') = ({e \in Entries(spawns) : e.key # s} \ evicted) \cup {entry}
      /\ evicted \subseteq Entries(spawns)
  <2> DEFINE set == Set(spawns, entry, MaxSpawns)
             excess == Excess(spawns, entry, MaxSpawns)
  <2>0. IsSet(spawns, entry, SpawnEntry, MaxSpawns)
    BY <1>2, <1>3, SetEntries
  <2>1. /\ IsBoundedMap(set, SpawnEntry, MaxSpawns)
        /\ excess \in {0, 1} /\ Cardinality(evicted) = excess
        /\ Len(set) = (IF Has(spawns, entry.key) THEN Len(spawns) ELSE Len(spawns) + 1) - excess
        /\ Entries(set) = ({e \in Entries(spawns) : e.key # entry.key} \ evicted) \cup {entry}
        /\ evicted \subseteq Entries(spawns)
    BY <2>0 DEF IsSet, evicted
  <2> HIDE DEF set, excess
  <2>2. spawns' = set /\ ~Has(spawns, entry.key)
    BY <1>1, <1>3 DEF set
  <2>3. QED
    BY <1>3, <2>1, <2>2
<1>5. \A e \in Entries(spawns) : e.key # s /\ e.key \in Spawn
  <2> TAKE e \in Entries(spawns)
  <2>1. e \in SpawnEntry /\ Has(spawns, e.key)
    BY EntryOfSpawns
  <2>2. QED
    BY <1>1, <2>1 DEF SpawnEntry
<1>6. Entries(spawns') = (Entries(spawns) \ evicted) \cup {entry}
  BY <1>4, <1>5
<1>7. /\ open'["spawn"] = Len(spawns') /\ open' \in [Kind \cup {"spawn"} -> Int]
      /\ \A kind \in Kind : open'[kind] = open[kind]
  BY <1>1, <1>2, <1>4 DEF Kind
<1>8. ASSUME NEW i \in Spawn
      PROVE  latencies'[i] = Count(\E e \in Entries(spawns') : e.key = i /\ e.launched)
  <2>1. latencies[i] = Count(\E e \in Entries(spawns) : e.key = i /\ e.launched)
    BY DEF IInv, SpawnsKept
  <2>2. CASE \E e \in evicted : e.key = i
    <3>1. PICK e \in evicted : e.key = i
      BY <2>2
    <3>2. \A d \in Entries(spawns) : d.key = i => d = e
      BY <1>4, <3>1, EntryOfSpawns
    <3>3. ~(\E d \in Entries(spawns') : d.key = i /\ d.launched)
      BY <1>3, <1>6, <3>1, <3>2
    <3>4. latencies'[i] = 0
      BY <1>1, <3>1
    <3>5. QED
      BY <3>3, <3>4 DEF Count
  <2>3. CASE ~\E e \in evicted : e.key = i
    <3>1. (\E e \in Entries(spawns') : e.key = i /\ e.launched)
            <=> \E e \in Entries(spawns) : e.key = i /\ e.launched
      BY <1>3, <1>6, <2>3
    <3>2. latencies'[i] = latencies[i]
      BY <1>1, <2>3
    <3>3. QED
      BY <2>1, <3>1, <3>2 DEF Count
  <2>4. QED
    BY <2>2, <2>3
<1>9. latencies' \in [Spawn -> Nat]
  BY <1>1, <1>2
<1>10. \A d, e \in Entries(spawns') : d.child = e.child => d = e
  BY <1>1, <1>3, <1>6 DEF IInv, SpawnsKept
<1>11. QED
  BY <1>4, <1>7, <1>8, <1>9, <1>10 DEF SpawnsKept

\* A launch that completes stays in its place, with its latency.
LEMMA LaunchCompletes ==
  ASSUME IInv, NEW entry \in Entries(spawns), CompleteSubagentLaunch(entry)
  PROVE  SpawnsKept'
<1> DEFINE launched == [entry EXCEPT !.launched = TRUE]
<1>1. /\ entry \in SpawnEntry /\ Has(spawns, entry.key)
      /\ latencies[entry.key] = Count(entry.launched)
      /\ entry.key \in Spawn /\ ~entry.launched
      /\ \A e \in Entries(spawns) : e.key = entry.key => e = entry
  BY EntryOfSpawns DEF SpawnEntry, CompleteSubagentLaunch
<1>2. /\ IsBoundedMap(spawns, SpawnEntry, MaxSpawns) /\ open["spawn"] = Len(spawns)
      /\ latencies \in [Spawn -> Nat] /\ MaxSpawns \in Nat \ {0}
  BY LimitsPositive DEF IInv, SpawnsKept
<1>3. /\ launched \in SpawnEntry /\ launched.key = entry.key
      /\ launched.child = entry.child /\ launched.launched
  BY <1>1 DEF SpawnEntry
<1>4. spawns' = Set(spawns, launched, MaxSpawns) /\ open' = open
  BY DEF CompleteSubagentLaunch
<1> HIDE DEF launched
<1>5. /\ IsBoundedMap(spawns', SpawnEntry, MaxSpawns) /\ Len(spawns') = Len(spawns)
      /\ Entries(spawns') = {e \in Entries(spawns) : e.key # entry.key} \cup {launched}
  <2> DEFINE set == Set(spawns, launched, MaxSpawns)
             excess == Excess(spawns, launched, MaxSpawns)
             evicted == Evicted(spawns, launched, MaxSpawns)
  <2>0. IsSet(spawns, launched, SpawnEntry, MaxSpawns)
    BY <1>2, <1>3, SetEntries
  <2>1. /\ IsBoundedMap(set, SpawnEntry, MaxSpawns)
        /\ Has(spawns, launched.key) => excess = 0
        /\ excess = 0 => evicted = {}
        /\ Len(set) = (IF Has(spawns, launched.key) THEN Len(spawns) ELSE Len(spawns) + 1) - excess
        /\ Entries(set) = ({e \in Entries(spawns) : e.key # launched.key} \ evicted) \cup {launched}
    BY <2>0 DEF IsSet
  <2>2. spawns' = set /\ launched.key = entry.key
    BY <1>3, <1>4
  <2> HIDE DEF set, excess, evicted
  <2>3. Len(spawns) \in Nat
    BY <1>2, LenProperties DEF IsBoundedMap
  <2>4. QED
    BY <1>1, <2>1, <2>2, <2>3
<1>6. /\ latencies' \in [Spawn -> Nat] /\ latencies'[entry.key] = 1
      /\ \A s \in Spawn : s # entry.key => latencies'[s] = latencies[s]
  <2>1. latencies[entry.key] + Recorded(entry) = 1
    BY <1>1 DEF Recorded, Count
  <2>2. latencies' = [latencies EXCEPT ![entry.key] = 1]
    BY <1>1, <1>2, <2>1 DEF CompleteSubagentLaunch
  <2>3. QED
    BY <1>1, <1>2, <2>2
<1>7. ASSUME NEW s \in Spawn
      PROVE  latencies'[s] = Count(\E e \in Entries(spawns') : e.key = s /\ e.launched)
  <2>1. CASE s = entry.key
    <3>1. \E e \in Entries(spawns') : e.key = s /\ e.launched
      BY <1>3, <1>5, <2>1
    <3>2. QED
      BY <1>6, <2>1, <3>1 DEF Count
  <2>2. CASE s # entry.key
    <3>1. (\E e \in Entries(spawns') : e.key = s /\ e.launched)
            <=> \E e \in Entries(spawns) : e.key = s /\ e.launched
      BY <1>3, <1>5, <2>2
    <3>2. latencies[s] = Count(\E e \in Entries(spawns) : e.key = s /\ e.launched)
      BY DEF IInv, SpawnsKept
    <3>3. QED
      BY <1>6, <2>2, <3>1, <3>2 DEF Count
  <2>3. QED
    BY <2>1, <2>2
<1>8. \A d, e \in Entries(spawns') : d.child = e.child => d = e
  <2>1. \A d \in Entries(spawns') : d = launched \/ (d \in Entries(spawns) /\ d.key # entry.key)
    BY <1>5
  <2>2. \A d \in Entries(spawns) : d.child = entry.child => d = entry
    BY DEF IInv, SpawnsKept
  <2>3. \A d, e \in Entries(spawns) : d.child = e.child => d = e
    BY DEF IInv, SpawnsKept
  <2>4. QED
    BY <1>3, <2>1, <2>2, <2>3
<1>9. QED
  BY <1>2, <1>4, <1>5, <1>6, <1>7, <1>8 DEF SpawnsKept
-----------------------------------------------------------------------------
(* The waits and joins, and what is shown                                  *)

\* An operation on a spawn shows the tree and leaves the waits and joins alone.
LEMMA WaitsStay ==
  ASSUME IInv, waiting' = waiting, \A kind \in Kind : open'[kind] = open[kind],
         IsBoundedMap(tree', Node, MaxSpawns), ShowTree
  PROVE  WaitsKept' /\ TreeKept'
<1>1. /\ shown \in [children : Seq(Node), hints : SUBSET (Kind \X WaitJoin)]
      /\ shown' = [shown EXCEPT !.children = tree'] /\ tree' \in Seq(Node)
  BY DEF IInv, WaitsKept, ShowTree, IsBoundedMap
<1>2. /\ shown' \in [children : Seq(Node), hints : SUBSET (Kind \X WaitJoin)]
      /\ shown'.children = tree' /\ shown'.hints = shown.hints
  BY <1>1
<1>3. TreeKept'
  BY <1>2 DEF TreeKept
<1>4. \A hint \in shown'.hints : \E e \in Entries(waiting'[hint[1]]) : e.key = hint[2]
  BY <1>2 DEF IInv, WaitsKept
<1>5. QED
  BY <1>2, <1>3, <1>4 DEF IInv, WaitsKept

\* A wait that starts may evict the oldest one, and then drops its hint.
LEMMA WaitStarts ==
  ASSUME IInv, NEW kind \in Kind, NEW id \in WaitJoin, NEW options \in StartOptions,
         StartWaitJoin(kind, id, options)
  PROVE  /\ WaitsKept' /\ TreeKept' /\ EndedStay(tree, tree')
         /\ open' \in [Kind \cup {"spawn"} -> Int] /\ open'["spawn"] = open["spawn"]
<1> DEFINE entry == [key |-> id, spawn |-> options.spawn, child |-> options.child,
                     outcome |-> options.outcome]
           evicted == Evicted(waiting[kind], entry, MaxWaitJoins)
           excess == Excess(waiting[kind], entry, MaxWaitJoins)
           set == Set(waiting[kind], entry, MaxWaitJoins)
<1>1. /\ session = "open" /\ ~Has(waiting[kind], id)
      /\ waiting' = [waiting EXCEPT ![kind] = set]
      /\ open' = [open EXCEPT ![kind] = @ + 1 - Cardinality(evicted)]
      /\ tree' = Activated(options.child, options.outcome)
      /\ shown' = [children |-> IF tree' = tree THEN shown.children ELSE tree',
                   hints |-> (shown.hints \ HintsOf(kind, evicted)) \cup {<<kind, id>>}]
  BY DEF StartWaitJoin, IdTaken, WithHint
<1>2. /\ waiting \in [Kind -> Seq(WaitEntry)] /\ MaxWaitJoins \in Nat \ {0}
      /\ IsBoundedMap(waiting[kind], WaitEntry, MaxWaitJoins)
      /\ open[kind] = Len(waiting[kind]) /\ open \in [Kind \cup {"spawn"} -> Int]
      /\ IsBoundedMap(tree, Node, MaxSpawns)
      /\ shown \in [children : Seq(Node), hints : SUBSET (Kind \X WaitJoin)]
      /\ shown.children = tree /\ Len(waiting[kind]) \in Nat
  BY <1>1, LimitsPositive, LenProperties DEF IInv, WaitsKept, TreeKept, IsBoundedMap
<1>3. entry \in WaitEntry /\ entry.key = id
  BY OptionsTyped DEF WaitEntry
<1>4. IsBoundedMap(tree', Node, MaxSpawns) /\ EndedStay(tree, tree')
  <2>1. CASE tree' = WithStatus(tree, options.child, "active")
    <3>1. "active" \in Status
      BY DEF Status
    <3>2. QED
      BY <1>2, <2>1, <3>1, WithStatusKeeps
  <2>2. CASE tree' = tree
    BY <1>2, <2>2 DEF EndedStay
  <2>3. QED
    BY <1>1, <2>1, <2>2 DEF Activated
<1> HIDE DEF entry
<1>5. IsSet(waiting[kind], entry, WaitEntry, MaxWaitJoins)
  BY <1>2, <1>3, SetEntries
<1>6. /\ IsBoundedMap(set, WaitEntry, MaxWaitJoins)
      /\ Cardinality(evicted) = excess /\ excess \in {0, 1}
      /\ Len(set) = (IF Has(waiting[kind], entry.key) THEN Len(waiting[kind])
                     ELSE Len(waiting[kind]) + 1) - excess
      /\ Entries(set) = ({e \in Entries(waiting[kind]) : e.key # entry.key} \ evicted) \cup {entry}
  BY <1>5 DEF IsSet
<1> HIDE DEF evicted, excess, set
<1>7. Len(set) = Len(waiting[kind]) + 1 - Cardinality(evicted) /\ set \in Seq(WaitEntry)
  BY <1>1, <1>3, <1>6 DEF IsBoundedMap
<1>8. /\ waiting' \in [Kind -> Seq(WaitEntry)] /\ waiting'[kind] = set
      /\ \A other \in Kind : other # kind => waiting'[other] = waiting[other]
  BY <1>1, <1>2, <1>7
<1>9. /\ open' \in [Kind \cup {"spawn"} -> Int] /\ open'["spawn"] = open["spawn"]
      /\ open'[kind] = Len(set)
      /\ \A other \in Kind : other # kind => open'[other] = open[other]
  BY <1>1, <1>2, <1>6, <1>7 DEF Kind
<1>10. \A other \in Kind : /\ IsBoundedMap(waiting'[other], WaitEntry, MaxWaitJoins)
                           /\ open'[other] = Len(waiting'[other])
  BY <1>6, <1>8, <1>9 DEF IInv, WaitsKept
<1>11. /\ shown' \in [children : Seq(Node), hints : SUBSET (Kind \X WaitJoin)]
       /\ shown'.children = tree'
       /\ shown'.hints = (shown.hints \ HintsOf(kind, evicted)) \cup {<<kind, id>>}
  <2>1. tree' \in Seq(Node)
    BY <1>4 DEF IsBoundedMap
  <2>2. QED
    BY <1>1, <1>2, <2>1
<1>12. ASSUME NEW hint \in shown'.hints
       PROVE  \E e \in Entries(waiting'[hint[1]]) : e.key = hint[2]
  <2>1. CASE hint = <<kind, id>>
    <3>1. entry \in Entries(waiting'[kind])
      BY <1>6, <1>8
    <3>2. QED
      BY <1>3, <2>1, <3>1
  <2>2. CASE hint # <<kind, id>>
    <3>1. hint \in shown.hints /\ hint \notin HintsOf(kind, evicted) /\ hint \in Kind \X WaitJoin
      BY <1>2, <1>11, <2>2
    <3>2. PICK e \in Entries(waiting[hint[1]]) : e.key = hint[2]
      BY <3>1 DEF IInv, WaitsKept
    <3>3. CASE hint[1] = kind
      <4>1. hint = <<kind, e.key>> /\ e.key # id
        BY <2>2, <3>1, <3>2, <3>3
      <4>2. e \notin evicted
        BY <3>1, <4>1 DEF HintsOf
      <4>3. e \in Entries(waiting'[kind])
        BY <1>3, <1>6, <1>8, <3>2, <3>3, <4>1, <4>2
      <4>4. QED
        BY <3>2, <3>3, <4>3
    <3>4. CASE hint[1] # kind
      BY <1>8, <3>1, <3>2, <3>4
    <3>5. QED
      BY <3>3, <3>4
  <2>3. QED
    BY <2>1, <2>2
<1>13. WaitsKept'
  BY <1>8, <1>10, <1>11, <1>12 DEF WaitsKept
<1>14. TreeKept'
  BY <1>4, <1>11 DEF TreeKept
<1>15. QED
  BY <1>4, <1>9, <1>13, <1>14

\* A wait that ends takes its hint with it.
LEMMA WaitEnds ==
  ASSUME IInv, NEW kind \in Kind, NEW entry \in Entries(waiting[kind]), NEW given \in EndOptions,
         EndWaitJoin(kind, entry, given)
  PROVE  /\ WaitsKept' /\ TreeKept' /\ EndedStay(tree, tree') /\ entry \in WaitEntry
         /\ open' \in [Kind \cup {"spawn"} -> Int] /\ open'["spawn"] = open["spawn"]
<1> DEFINE outcome == Resolved(entry.outcome, given)
           rest == Delete(waiting[kind], entry.key)
<1>1. /\ session = "open"
      /\ tree' = IF outcome.childStatus = Unset THEN tree
                 ELSE WithStatus(tree, entry.child, outcome.childStatus)
      /\ waiting' = [waiting EXCEPT ![kind] = rest]
      /\ open' = [open EXCEPT ![kind] = @ - 1]
      /\ shown' = [children |-> tree', hints |-> shown.hints \ {<<kind, entry.key>>}]
  BY DEF EndWaitJoin, WithHint
<1>2. /\ waiting \in [Kind -> Seq(WaitEntry)] /\ MaxWaitJoins \in Nat
      /\ IsBoundedMap(waiting[kind], WaitEntry, MaxWaitJoins)
      /\ open[kind] = Len(waiting[kind]) /\ open \in [Kind \cup {"spawn"} -> Int]
      /\ IsBoundedMap(tree, Node, MaxSpawns)
      /\ shown \in [children : Seq(Node), hints : SUBSET (Kind \X WaitJoin)]
      /\ Len(waiting[kind]) \in Nat
  BY <1>1, LimitsPositive, LenProperties DEF IInv, WaitsKept, TreeKept, IsBoundedMap
<1>3. entry \in WaitEntry /\ Has(waiting[kind], entry.key)
  BY <1>2, EntryIsGot
<1>4. outcome.childStatus \in Status \cup {Unset}
  BY <1>3, OptionsTyped DEF WaitEntry, Outcome, Resolved
<1> HIDE DEF outcome
<1>5. IsBoundedMap(tree', Node, MaxSpawns) /\ EndedStay(tree, tree')
  <2>1. CASE outcome.childStatus = Unset
    BY <1>1, <1>2, <2>1 DEF EndedStay
  <2>2. CASE outcome.childStatus # Unset
    BY <1>1, <1>2, <1>4, <2>2, WithStatusKeeps
  <2>3. QED
    BY <2>1, <2>2
<1>6. /\ IsBoundedMap(rest, WaitEntry, MaxWaitJoins) /\ Len(rest) = Len(waiting[kind]) - 1
      /\ Entries(rest) = {e \in Entries(waiting[kind]) : e.key # entry.key}
  BY <1>2, <1>3, DeleteEntries
<1> HIDE DEF rest
<1>7. /\ waiting' \in [Kind -> Seq(WaitEntry)] /\ waiting'[kind] = rest
      /\ \A other \in Kind : other # kind => waiting'[other] = waiting[other]
  BY <1>1, <1>2, <1>6 DEF IsBoundedMap
<1>8. /\ open' \in [Kind \cup {"spawn"} -> Int] /\ open'["spawn"] = open["spawn"]
      /\ open'[kind] = Len(rest)
      /\ \A other \in Kind : other # kind => open'[other] = open[other]
  BY <1>1, <1>2, <1>6 DEF Kind
<1>9. \A other \in Kind : /\ IsBoundedMap(waiting'[other], WaitEntry, MaxWaitJoins)
                          /\ open'[other] = Len(waiting'[other])
  BY <1>6, <1>7, <1>8 DEF IInv, WaitsKept
<1>10. /\ shown' \in [children : Seq(Node), hints : SUBSET (Kind \X WaitJoin)]
       /\ shown'.children = tree'
       /\ shown'.hints = shown.hints \ {<<kind, entry.key>>}
  <2>1. tree' \in Seq(Node)
    BY <1>5 DEF IsBoundedMap
  <2>2. QED
    BY <1>1, <1>2, <2>1
<1>11. ASSUME NEW hint \in shown'.hints
       PROVE  \E e \in Entries(waiting'[hint[1]]) : e.key = hint[2]
  <2>1. hint \in shown.hints /\ hint # <<kind, entry.key>> /\ hint \in Kind \X WaitJoin
    BY <1>2, <1>10
  <2>2. PICK e \in Entries(waiting[hint[1]]) : e.key = hint[2]
    BY <2>1 DEF IInv, WaitsKept
  <2>3. CASE hint[1] = kind
    <3>1. e.key # entry.key
      BY <2>1, <2>2, <2>3
    <3>2. QED
      BY <1>6, <1>7, <2>2, <2>3, <3>1
  <2>4. CASE hint[1] # kind
    BY <1>7, <2>1, <2>2, <2>4
  <2>5. QED
    BY <2>3, <2>4
<1>12. WaitsKept'
  BY <1>7, <1>9, <1>10, <1>11 DEF WaitsKept
<1>13. TreeKept'
  BY <1>5, <1>10 DEF TreeKept
<1>14. QED
  BY <1>3, <1>5, <1>8, <1>12, <1>13
-----------------------------------------------------------------------------
(* One lemma for each kind of step                                         *)

\* What every step does besides keeping the invariant: no ended child changes,
\* and a step that closes the session ends the others.
EndsChildren ==
  /\ EndedStay(tree, tree')
  /\ session' # session =>
       \A child \in Keys(tree) :
         (\/ \E entry \in Entries(spawns) : entry.child = child
          \/ \E kind \in Kind : \E entry \in Entries(waiting[kind]) : entry.child = child)
            => Get(tree', child).status \in FinalStatus

LEMMA AccountingStays ==
  ASSUME IInv, accounting' = accounting, session' = session
  PROVE  Counts(accounting)' /\ (session' = "open" => Remembered(accounting)')
BY DEF IInv

LEMMA StartStep ==
  ASSUME IInv, NEW s \in Spawn, NEW child \in Child, StartSubagent(s, child)
  PROVE  IInv' /\ EndsChildren
<1>1. /\ tree' = Register(child) /\ ~Tracked(child) /\ ShowTree
      /\ waiting' = waiting /\ accounting' = accounting /\ session' = session
  BY DEF StartSubagent, Retained
<1>2. /\ SpawnsKept' /\ open' \in [Kind \cup {"spawn"} -> Int]
      /\ \A kind \in Kind : open'[kind] = open[kind]
  BY SpawnStarts
<1>3. IsBoundedMap(tree, Node, MaxSpawns)
  BY DEF IInv, TreeKept
<1>4. IsBoundedMap(tree', Node, MaxSpawns) /\ EndedStay(tree, tree')
  BY <1>1, <1>3, RegisterKeeps
<1>5. WaitsKept' /\ TreeKept'
  BY <1>1, <1>2, <1>4, WaitsStay
<1>6. Counts(accounting)' /\ (session' = "open" => Remembered(accounting)')
  BY <1>1, AccountingStays
<1>7. session' \in {"open", "closed"}
  BY <1>1 DEF IInv
<1>8. IInv'
  BY <1>2, <1>5, <1>6, <1>7 DEF IInv
<1>9. QED
  BY <1>1, <1>4, <1>8 DEF EndsChildren

LEMMA LaunchStep ==
  ASSUME IInv, NEW entry \in Entries(spawns), CompleteSubagentLaunch(entry)
  PROVE  IInv' /\ EndsChildren
<1>1. /\ tree' = WithStatus(tree, entry.child, "active") /\ ShowTree
      /\ waiting' = waiting /\ accounting' = accounting /\ session' = session /\ open' = open
  BY DEF CompleteSubagentLaunch
<1>2. IsBoundedMap(tree, Node, MaxSpawns) /\ "active" \in Status
  BY DEF IInv, TreeKept, Status
<1>3. IsBoundedMap(tree', Node, MaxSpawns) /\ EndedStay(tree, tree')
  BY <1>1, <1>2, WithStatusKeeps
<1>4. WaitsKept' /\ TreeKept'
  BY <1>1, <1>3, WaitsStay
<1>5. SpawnsKept'
  BY LaunchCompletes
<1>6. Counts(accounting)' /\ (session' = "open" => Remembered(accounting)')
  BY <1>1, AccountingStays
<1>7. IInv'
  BY <1>1, <1>4, <1>5, <1>6 DEF IInv
<1>8. QED
  BY <1>1, <1>3, <1>7 DEF EndsChildren

LEMMA CompleteStep ==
  ASSUME IInv, NEW entry \in Entries(spawns), NEW status \in Terminal, CompleteSubagent(entry, status)
  PROVE  IInv' /\ EndsChildren
<1>1. /\ tree' = WithStatus(tree, entry.child, status) /\ ShowTree /\ EndSpawn(entry)
      /\ waiting' = waiting /\ session' = session /\ session = "open"
      /\ accounting' = IF status = "failed" THEN Accounted(accounting, entry.child, FALSE)
                       ELSE accounting
  BY DEF CompleteSubagent
<1>2. IsBoundedMap(tree, Node, MaxSpawns) /\ status \in Status
  BY DEF IInv, TreeKept, Status, FinalStatus
<1>3. IsBoundedMap(tree', Node, MaxSpawns) /\ EndedStay(tree, tree')
  BY <1>1, <1>2, WithStatusKeeps
<1>4. /\ SpawnsKept' /\ open' \in [Kind \cup {"spawn"} -> Int]
      /\ \A kind \in Kind : open'[kind] = open[kind]
  BY <1>1, SpawnEnds
<1>5. WaitsKept' /\ TreeKept'
  BY <1>1, <1>3, <1>4, WaitsStay
<1>6. Account(accounting')
  <2>1. Account(accounting) /\ entry.child \in Child
    BY <1>1, EntryOfSpawns DEF IInv, Account, SpawnEntry
  <2>2. Account(Accounted(accounting, entry.child, FALSE))
    BY <2>1, AccountedKeeps
  <2>3. QED
    BY <1>1, <2>1, <2>2
<1>7. session' \in {"open", "closed"} /\ Counts(accounting') /\ Remembered(accounting')
  BY <1>1, <1>6 DEF Account
<1>8. IInv'
  BY <1>4, <1>5, <1>7 DEF IInv
<1>9. QED
  BY <1>1, <1>3, <1>8 DEF EndsChildren

LEMMA FailStep ==
  ASSUME IInv, NEW entry \in Entries(spawns), FailSubagent(entry)
  PROVE  IInv' /\ EndsChildren
<1>1. /\ tree' = WithStatus(tree, entry.child, "failed") /\ ShowTree /\ EndSpawn(entry)
      /\ waiting' = waiting /\ accounting' = accounting /\ session' = session
  BY DEF FailSubagent
<1>2. IsBoundedMap(tree, Node, MaxSpawns) /\ "failed" \in Status
  BY DEF IInv, TreeKept, Status, FinalStatus, Terminal
<1>3. IsBoundedMap(tree', Node, MaxSpawns) /\ EndedStay(tree, tree')
  BY <1>1, <1>2, WithStatusKeeps
<1>4. /\ SpawnsKept' /\ open' \in [Kind \cup {"spawn"} -> Int]
      /\ \A kind \in Kind : open'[kind] = open[kind]
  BY <1>1, SpawnEnds
<1>5. WaitsKept' /\ TreeKept'
  BY <1>1, <1>3, <1>4, WaitsStay
<1>6. Counts(accounting)' /\ (session' = "open" => Remembered(accounting)')
  BY <1>1, AccountingStays
<1>7. session' \in {"open", "closed"}
  BY <1>1 DEF IInv
<1>8. IInv'
  BY <1>4, <1>5, <1>6, <1>7 DEF IInv
<1>9. QED
  BY <1>1, <1>3, <1>8 DEF EndsChildren

\* The runner's settlements are launches, completions and failures.
LEMMA RunnerStep ==
  ASSUME IInv, NEW entry \in Entries(spawns),
         NEW settlement \in DOMAIN Ending \cup {"timeout", "launch_failed"},
         \/ RunnerEndsChild(entry, settlement)
         \/ RunnerGivesUp(entry, settlement)
         \/ RunnerFailsToLaunch(entry, settlement)
  PROVE  IInv' /\ EndsChildren
<1>1. CASE RunnerEndsChild(entry, settlement)
  <2>1. Ending[settlement] \in Terminal /\ CompleteSubagent(entry, Ending[settlement])
    BY <1>1 DEF RunnerEndsChild, Ending, Terminal
  <2>2. QED
    BY <2>1, CompleteStep
<1>2. CASE RunnerGivesUp(entry, settlement)
  BY <1>2, LaunchStep DEF RunnerGivesUp
<1>3. CASE RunnerFailsToLaunch(entry, settlement)
  BY <1>3, FailStep DEF RunnerFailsToLaunch
<1>4. QED
  BY <1>1, <1>2, <1>3

LEMMA LossStep ==
  ASSUME IInv, NEW child \in Child, RunnerLosesChild(child)
  PROVE  IInv' /\ EndsChildren
<1>1. /\ tree' = WithStatus(tree, child, "active") /\ ShowTree
      /\ spawns' = spawns /\ waiting' = waiting /\ accounting' = accounting
      /\ open' = open /\ latencies' = latencies /\ session' = session
  BY DEF RunnerLosesChild
<1>2. IsBoundedMap(tree, Node, MaxSpawns) /\ "active" \in Status
  BY DEF IInv, TreeKept, Status
<1>3. IsBoundedMap(tree', Node, MaxSpawns) /\ EndedStay(tree, tree')
  BY <1>1, <1>2, WithStatusKeeps
<1>4. WaitsKept' /\ TreeKept'
  BY <1>1, <1>3, WaitsStay
<1>5. SpawnsKept'
  BY <1>1 DEF IInv, SpawnsKept
<1>6. Counts(accounting)' /\ (session' = "open" => Remembered(accounting)')
  BY <1>1, AccountingStays
<1>7. IInv'
  BY <1>1, <1>4, <1>5, <1>6 DEF IInv
<1>8. QED
  BY <1>1, <1>3, <1>7 DEF EndsChildren

LEMMA WaitStartStep ==
  ASSUME IInv, NEW kind \in Kind, NEW id \in WaitJoin, NEW options \in StartOptions,
         StartWaitJoin(kind, id, options)
  PROVE  IInv' /\ EndsChildren
<1>1. /\ spawns' = spawns /\ accounting' = accounting /\ latencies' = latencies
      /\ session' = session
  BY DEF StartWaitJoin
<1>2. /\ WaitsKept' /\ TreeKept' /\ EndedStay(tree, tree')
      /\ open' \in [Kind \cup {"spawn"} -> Int] /\ open'["spawn"] = open["spawn"]
  BY WaitStarts
<1>3. SpawnsKept'
  BY <1>1, <1>2 DEF IInv, SpawnsKept
<1>4. Counts(accounting)' /\ (session' = "open" => Remembered(accounting)')
  BY <1>1, AccountingStays
<1>5. session' \in {"open", "closed"}
  BY <1>1 DEF IInv
<1>6. IInv'
  BY <1>2, <1>3, <1>4, <1>5 DEF IInv
<1>7. QED
  BY <1>1, <1>2, <1>6 DEF EndsChildren

LEMMA WaitEndStep ==
  ASSUME IInv, NEW kind \in Kind, NEW entry \in Entries(waiting[kind]), NEW given \in EndOptions,
         EndWaitJoin(kind, entry, given)
  PROVE  IInv' /\ EndsChildren
<1>1. /\ spawns' = spawns /\ latencies' = latencies /\ session' = session /\ session = "open"
      /\ accounting' = JoinAccounted(accounting, kind, entry.child, Resolved(entry.outcome, given))
  BY DEF EndWaitJoin
<1>2. /\ WaitsKept' /\ TreeKept' /\ EndedStay(tree, tree') /\ entry \in WaitEntry
      /\ open' \in [Kind \cup {"spawn"} -> Int] /\ open'["spawn"] = open["spawn"]
  BY WaitEnds
<1>3. SpawnsKept'
  BY <1>1, <1>2 DEF IInv, SpawnsKept
<1>4. Account(accounting')
  <2>1. Account(accounting) /\ entry.child \in Child \cup {Unset}
    BY <1>1, <1>2 DEF IInv, Account, WaitEntry
  <2>2. QED
    BY <1>1, <2>1, JoinAccountedKeeps
<1>5. session' \in {"open", "closed"} /\ Counts(accounting') /\ Remembered(accounting')
  BY <1>1, <1>4 DEF Account
<1>6. IInv'
  BY <1>2, <1>3, <1>5 DEF IInv
<1>7. QED
  BY <1>1, <1>2, <1>6 DEF EndsChildren

LEMMA InterruptStep ==
  ASSUME IInv, Interrupt
  PROVE  IInv' /\ EndsChildren
<1> DEFINE children == SpawnedChildren \cup AwaitedChildren("wait") \cup AwaitedChildren("join")
           cancelled == Cancelled(tree, children)
           account == CancelJoinAccounts(cancelled)
<1>1. /\ session = "open" /\ session' = "closed" /\ tree' = cancelled
      /\ accounting' = [account EXCEPT !.exact = <<>>, !.archive = {}]
      /\ latencies' = [s \in Spawn |->
                         IF Has(spawns, s) THEN latencies[s] + Recorded(Get(spawns, s)) - 1
                         ELSE latencies[s]]
      /\ open' = [open EXCEPT !["spawn"] = @ - Len(spawns),
                              !["wait"] = @ - Len(waiting["wait"]),
                              !["join"] = @ - Len(waiting["join"])]
      /\ spawns' = <<>> /\ waiting' = [kind \in Kind |-> <<>>] /\ shown' = NothingShown
  BY DEF Interrupt
<1>2. /\ IsBoundedMap(tree, Node, MaxSpawns) /\ IsBoundedMap(spawns, SpawnEntry, MaxSpawns)
      /\ open \in [Kind \cup {"spawn"} -> Int] /\ waiting \in [Kind -> Seq(WaitEntry)]
      /\ open["spawn"] = Len(spawns) /\ \A kind \in Kind : open[kind] = Len(waiting[kind])
      /\ latencies \in [Spawn -> Nat]
      /\ MaxSpawns \in Nat /\ MaxWaitJoins \in Nat
  BY LimitsPositive DEF IInv, TreeKept, SpawnsKept, WaitsKept
<1> HIDE DEF cancelled, account
<1>3. /\ IsBoundedMap(cancelled, Node, MaxSpawns) /\ EndedStay(tree, cancelled)
      /\ \A child \in Keys(tree) : child \in children => Get(cancelled, child).status \in FinalStatus
  BY <1>2, CancelledKeeps DEF cancelled
<1>4. EndsChildren
  <2>1. ASSUME NEW child \in Keys(tree),
               \/ \E entry \in Entries(spawns) : entry.child = child
               \/ \E kind \in Kind : \E entry \in Entries(waiting[kind]) : entry.child = child
        PROVE  child \in children
    BY <2>1 DEF SpawnedChildren, AwaitedChildren, Kind
  <2> HIDE DEF children
  <2>2. QED
    BY <1>1, <1>3, <2>1 DEF EndsChildren
<1>5. \A E, max : max \in Nat => IsBoundedMap(<<>>, E, max)
  BY DEF IsBoundedMap
<1>6. /\ open' \in [Kind \cup {"spawn"} -> Int] /\ open'["spawn"] = 0
      /\ \A kind \in Kind : open'[kind] = 0
  <2>1. /\ open["spawn"] \in Int /\ open["wait"] \in Int /\ open["join"] \in Int
        /\ Len(spawns) = open["spawn"] /\ Len(waiting["wait"]) = open["wait"]
        /\ Len(waiting["join"]) = open["join"]
    BY <1>2 DEF Kind
  <2>2. /\ open' \in [Kind \cup {"spawn"} -> Int]
        /\ open'["spawn"] = open["spawn"] - Len(spawns)
        /\ open'["wait"] = open["wait"] - Len(waiting["wait"])
        /\ open'["join"] = open["join"] - Len(waiting["join"])
    BY <1>1, <1>2, <2>1 DEF Kind
  <2>3. QED
    BY <2>1, <2>2 DEF Kind
<1>7. latencies' \in [Spawn -> Nat] /\ \A s \in Spawn : latencies'[s] = 0
  <2>1. ASSUME NEW s \in Spawn
        PROVE  latencies'[s] = 0
    <3>1. CASE Has(spawns, s)
      <4>1. Get(spawns, s) \in Entries(spawns) /\ Get(spawns, s).key = s
        BY <1>2, <3>1, GetEntry
      <4>2. /\ Get(spawns, s) \in SpawnEntry
            /\ latencies[s] = Count(Get(spawns, s).launched)
        BY <4>1, EntryOfSpawns
      <4>3. Get(spawns, s).launched \in BOOLEAN
        BY <4>2 DEF SpawnEntry
      <4>4. latencies[s] + Recorded(Get(spawns, s)) - 1 = 0
        BY <4>2, <4>3 DEF Recorded, Count
      <4>5. QED
        BY <1>1, <3>1, <4>4
    <3>2. CASE ~Has(spawns, s)
      <4>1. ~(\E e \in Entries(spawns) : e.key = s /\ e.launched)
        BY <1>2, <3>2, EntryIsGot
      <4>2. latencies[s] = Count(\E e \in Entries(spawns) : e.key = s /\ e.launched)
        BY DEF IInv, SpawnsKept
      <4>3. QED
        BY <1>1, <3>2, <4>1, <4>2 DEF Count
    <3>3. QED
      BY <3>1, <3>2
  <2>2. latencies' = [s \in Spawn |-> latencies'[s]]
    BY <1>1
  <2>3. QED
    BY <2>1, <2>2
<1>8. SpawnsKept'
  <2>1. IsBoundedMap(spawns', SpawnEntry, MaxSpawns) /\ Len(spawns') = 0
    BY <1>1, <1>2, <1>5
  <2>2. Entries(spawns') = {}
    BY <1>1 DEF Entries
  <2>3. \A s \in Spawn : latencies'[s] = Count(\E e \in Entries(spawns') : e.key = s /\ e.launched)
    BY <1>7, <2>2 DEF Count
  <2>4. QED
    BY <1>6, <1>7, <2>1, <2>2, <2>3 DEF SpawnsKept
<1>9. WaitsKept'
  <2>1. /\ waiting' \in [Kind -> Seq(WaitEntry)]
        /\ \A kind \in Kind : /\ IsBoundedMap(waiting'[kind], WaitEntry, MaxWaitJoins)
                              /\ open'[kind] = Len(waiting'[kind])
    <3>1. <<>> \in Seq(WaitEntry) /\ Len(<<>>) = 0
      OBVIOUS
    <3>2. waiting' \in [Kind -> Seq(WaitEntry)] /\ \A kind \in Kind : waiting'[kind] = <<>>
      BY <1>1, <3>1
    <3>3. IsBoundedMap(<<>>, WaitEntry, MaxWaitJoins)
      BY <1>2, <1>5
    <3>4. QED
      BY <1>6, <3>1, <3>2, <3>3
  <2>2. shown' \in [children : Seq(Node), hints : SUBSET (Kind \X WaitJoin)] /\ shown'.hints = {}
    BY <1>1 DEF NothingShown
  <2>3. QED
    BY <2>1, <2>2 DEF WaitsKept
<1>10. TreeKept'
  BY <1>1, <1>3 DEF TreeKept
<1>11. Counts(accounting')
  <2>1. Account(accounting) /\ waiting["join"] \in Seq(WaitEntry)
    BY <1>1, <1>2 DEF IInv, Account, Kind
  <2>2. Account(account)
    BY <2>1, CancelledJoinsKeep DEF account
  <2>3. /\ account \in [exact : Seq(Failure), archive : SUBSET Token,
                          failures : [Child -> Nat], recoveries : [Child -> Nat]]
        /\ \A c \in Child : account.failures[c] <= 1 /\ account.recoveries[c] <= 1
    BY <2>2 DEF Account, Counts
  <2>4. accounting' = [exact |-> <<>>, archive |-> {}, failures |-> account.failures,
                       recoveries |-> account.recoveries]
    BY <1>1, <2>3
  <2>5. IsBoundedMap(<<>>, Failure, MaxSpawns) /\ <<>> \in Seq(Failure)
    BY <1>2, <1>5
  <2>6. QED
    BY <2>3, <2>4, <2>5 DEF Counts
<1>12. QED
  BY <1>1, <1>4, <1>6, <1>8, <1>9, <1>10, <1>11 DEF IInv

LEMMA StutteringStep ==
  ASSUME IInv, UNCHANGED vars
  PROVE  IInv' /\ EndsChildren
<1> USE DEF vars
<1>1. Counts(accounting)' /\ (session' = "open" => Remembered(accounting)')
  BY AccountingStays
<1>2. SpawnsKept'
  BY DEF IInv, SpawnsKept
<1>3. WaitsKept' /\ TreeKept'
  BY DEF IInv, WaitsKept, TreeKept
<1>4. open' \in [Kind \cup {"spawn"} -> Int] /\ session' \in {"open", "closed"}
  BY DEF IInv
<1>5. QED
  BY <1>1, <1>2, <1>3, <1>4 DEF IInv, EndsChildren, EndedStay

LEMMA EveryStep ==
  ASSUME IInv, [Next]_vars
  PROVE  IInv' /\ EndsChildren
<1>1. CASE \E s \in Spawn, child \in Child : StartSubagent(s, child)
  BY <1>1, StartStep
<1>2. CASE \E entry \in Entries(spawns) : CompleteSubagentLaunch(entry)
  BY <1>2, LaunchStep
<1>3. CASE \E entry \in Entries(spawns) : FailSubagent(entry)
  BY <1>3, FailStep
<1>4. CASE \E entry \in Entries(spawns), status \in Terminal : CompleteSubagent(entry, status)
  BY <1>4, CompleteStep
<1>5. CASE \E entry \in Entries(spawns),
              settlement \in DOMAIN Ending \cup {"timeout", "launch_failed"} :
             \/ RunnerEndsChild(entry, settlement)
             \/ RunnerGivesUp(entry, settlement)
             \/ RunnerFailsToLaunch(entry, settlement)
  BY <1>5, RunnerStep
<1>6. CASE \E child \in Child : RunnerLosesChild(child)
  BY <1>6, LossStep
<1>7. CASE \E kind \in Kind, id \in WaitJoin, options \in StartOptions :
             StartWaitJoin(kind, id, options)
  BY <1>7, WaitStartStep
<1>8. CASE \E kind \in Kind : \E entry \in Entries(waiting[kind]), given \in EndOptions :
             EndWaitJoin(kind, entry, given)
  BY <1>8, WaitEndStep
<1>9. CASE Interrupt
  BY <1>9, InterruptStep
<1>10. CASE UNCHANGED vars
  BY <1>10, StutteringStep
<1>11. QED
  BY <1>1, <1>2, <1>3, <1>4, <1>5, <1>6, <1>7, <1>8, <1>9, <1>10 DEF Next

LEMMA InitKeeps == Init => IInv
<1> SUFFICES ASSUME Init
             PROVE  IInv
  OBVIOUS
<1> USE DEF Init
<1>1. /\ MaxSpawns \in Nat /\ MaxWaitJoins \in Nat
      /\ \A E, max : max \in Nat => IsBoundedMap(<<>>, E, max)
  BY LimitsPositive DEF IsBoundedMap
<1>2. \A s \in Spawn : latencies[s] = Count(\E e \in Entries(spawns) : e.key = s /\ e.launched)
  <2>1. Entries(spawns) = {}
    BY DEF Entries
  <2>2. QED
    BY <2>1 DEF Count
<1>3. SpawnsKept
  <2>1. IsBoundedMap(spawns, SpawnEntry, MaxSpawns) /\ open["spawn"] = Len(spawns)
    BY <1>1
  <2>2. latencies \in [Spawn -> Nat] /\ \A d, e \in Entries(spawns) : d.child = e.child => d = e
    BY DEF Entries
  <2>3. QED
    BY <1>2, <2>1, <2>2 DEF SpawnsKept
<1>4. WaitsKept
  <2>1. /\ waiting \in [Kind -> Seq(WaitEntry)]
        /\ \A kind \in Kind : IsBoundedMap(waiting[kind], WaitEntry, MaxWaitJoins)
                              /\ open[kind] = Len(waiting[kind])
    BY <1>1
  <2>2. shown \in [children : Seq(Node), hints : SUBSET (Kind \X WaitJoin)] /\ shown.hints = {}
    BY DEF NothingShown
  <2>3. QED
    BY <2>1, <2>2 DEF WaitsKept
<1>5. TreeKept
  BY <1>1 DEF TreeKept, NothingShown
<1>6. Counts(accounting) /\ Remembered(accounting)
  <2>1. /\ accounting \in [exact : Seq(Failure), archive : SUBSET Token,
                           failures : [Child -> Nat], recoveries : [Child -> Nat]]
        /\ IsBoundedMap(accounting.exact, Failure, MaxSpawns)
        /\ \A c \in Child : accounting.failures[c] = 0 /\ accounting.recoveries[c] = 0
        /\ Entries(accounting.exact) = {}
    BY <1>1 DEF Entries
  <2>2. QED
    BY <2>1 DEF Counts, Remembered
<1>7. open \in [Kind \cup {"spawn"} -> Int] /\ session \in {"open", "closed"}
  OBVIOUS
<1>8. QED
  BY <1>3, <1>4, <1>5, <1>6, <1>7 DEF IInv

-----------------------------------------------------------------------------
(* The theorems                                                            *)

\* The registries keep their bounds, the gauges count their entries, the
\* latencies are those of completed launches, the view is the tree's, and what
\* was counted of a child is remembered for as long as the session is open.
THEOREM Inductive == Spec => []IInv
<1>1. Init => IInv
  BY InitKeeps
<1>2. IInv /\ [Next]_vars => IInv'
  BY EveryStep
<1>3. QED
  BY <1>1, <1>2, PTL DEF Spec

\* recordSubagentSpawnTerminal, evictSubagentSpawn and the teardown end every
\* span once: the gauges are the registries' sizes, within their limits, and a
\* spawn has one latency.
THEOREM OperationsAccounted == Spec => []OperationsAreAccounted
<1>1. ASSUME IInv
      PROVE  OperationsAreAccounted
  <2>1. TypeOK
    <3>1. IsBoundedMap(tree, [key : Child, status : Status], MaxSpawns)
      BY <1>1 DEF IInv, TreeKept, Node
    <3>2. /\ IsBoundedMap(accounting.exact, [key : Child, recovered : BOOLEAN], MaxSpawns)
          /\ accounting.archive \subseteq Token
          /\ {accounting.failures, accounting.recoveries} \subseteq [Child -> Nat]
      BY <1>1 DEF IInv, Counts, Failure
    <3>3. shown.hints \subseteq Kind \X WaitJoin
      BY <1>1 DEF IInv, WaitsKept
    <3>4. QED
      BY <1>1, <3>1, <3>2, <3>3 DEF IInv, SpawnsKept, WaitsKept, TypeOK
  <2>2. EverySpanReachable
    BY <1>1 DEF IInv, SpawnsKept, WaitsKept, EverySpanReachable
  <2>3. ASSUME NEW s \in Spawn
        PROVE  latencies[s] = Count(Has(spawns, s) /\ Get(spawns, s).launched)
    <3>1. latencies[s] = Count(\E e \in Entries(spawns) : e.key = s /\ e.launched)
      BY <1>1 DEF IInv, SpawnsKept
    <3>2. IsBoundedMap(spawns, SpawnEntry, MaxSpawns)
      BY <1>1 DEF IInv, SpawnsKept
    <3>3. CASE Has(spawns, s)
      <4>1. Get(spawns, s) \in Entries(spawns) /\ Get(spawns, s).key = s
        BY <3>2, <3>3, GetEntry
      <4>2. latencies[s] = Count(Get(spawns, s).launched)
        BY <1>1, <4>1, EntryOfSpawns
      <4>3. QED
        BY <3>3, <4>2 DEF Count
    <3>4. CASE ~Has(spawns, s)
      <4>1. ~(\E e \in Entries(spawns) : e.key = s /\ e.launched)
        BY <3>2, <3>4, EntryIsGot
      <4>2. QED
        BY <3>1, <3>4, <4>1 DEF Count
    <3>5. QED
      BY <3>3, <3>4
  <2>4. QED
    BY <2>1, <2>2, <2>3 DEF OperationsAreAccounted, LatencyRecordedOnce
<1>2. QED
  BY <1>1, Inductive, PTL

\* recordChildFailureAccounting counts no failure and no recovery of a child
\* twice, whatever the exact map evicted into the filter.
THEOREM FailuresCountedOnce == Spec => []NeverRecounted
<1>1. IInv => NeverRecounted
  BY DEF IInv, Counts, NeverRecounted
<1>2. QED
  BY <1>1, Inductive, PTL

\* isChildAgentIdentifierRetained keeps a child to one active spawn.
THEOREM ChildrenAreNotShared == Spec => []OneSpawnPerChild
<1>1. ASSUME IInv
      PROVE  OneSpawnPerChild
  <2>1. /\ \A d, e \in Entries(spawns) : d.child = e.child => d = e
        /\ IsBoundedMap(spawns, SpawnEntry, MaxSpawns)
    BY <1>1 DEF IInv, SpawnsKept
  <2>2. ASSUME NEW i \in DOMAIN spawns, NEW j \in DOMAIN spawns, spawns[i].child = spawns[j].child
        PROVE  i = j
    <3>1. spawns[i] = spawns[j]
      BY <2>1, <2>2 DEF Entries
    <3>2. QED
      BY <2>1, <3>1 DEF IsBoundedMap
  <2>3. QED
    BY <2>2 DEF OneSpawnPerChild
<1>2. QED
  BY <1>1, Inductive, PTL

\* updateObsAgentsRuntimeStateFromTree and the hints keep /obs agents current.
THEOREM ViewFollows == Spec => []ViewIsCurrent
<1>1. ASSUME IInv
      PROVE  ViewIsCurrent
  <2>1. \A hint \in shown.hints : Has(waiting[hint[1]], hint[2])
    <3> TAKE hint \in shown.hints
    <3>1. /\ IsBoundedMap(waiting[hint[1]], WaitEntry, MaxWaitJoins)
          /\ \E e \in Entries(waiting[hint[1]]) : e.key = hint[2]
      BY <1>1 DEF IInv, WaitsKept
    <3>2. QED
      BY <3>1, EntryIsGot
  <2>2. QED
    BY <1>1, <2>1 DEF IInv, TreeKept, ViewIsCurrent
<1>2. QED
  BY <1>1, Inductive, PTL

\* updateStatus rewrites no final status, and the teardown
\* (interruptActiveSubagentOperations) leaves none of its children running.
THEOREM ChildrenEnd == Spec => ChildrenEndOnce
<1>1. ASSUME IInv, [Next]_vars
      PROVE  [\A child \in Child :
                (Tracked(child) /\ Tracked(child)' /\ StatusOf(child) \in FinalStatus)
                   => StatusOf(child)' = StatusOf(child)]_vars
  <2>1. EndedStay(tree, tree')
    BY <1>1, EveryStep DEF EndsChildren
  <2>2. QED
    BY <2>1 DEF EndedStay, Tracked, StatusOf
<1>2. ASSUME IInv, [Next]_vars
      PROVE  [session' # session =>
                \A child \in Keys(tree) :
                  (\/ \E entry \in Entries(spawns) : entry.child = child
                   \/ \E kind \in Kind : \E entry \in Entries(waiting[kind]) : entry.child = child)
                     => StatusOf(child)' \in FinalStatus]_vars
  BY <1>2, EveryStep DEF EndsChildren, StatusOf
<1>3. QED
  BY <1>1, <1>2, Inductive, PTL DEF Spec, ChildrenEndOnce, FinalStatusKept, TeardownStopsChildren
=============================================================================
