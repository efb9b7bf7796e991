------------------------- MODULE OtelOwnershipProofs -------------------------
(***************************************************************************)
(* The safety of the operation registry for every set of operations,       *)
(* callers and every bound on attempts, and the step simulation that makes *)
(* it an implementation of OperationLedger.                                *)
(***************************************************************************)
EXTENDS OtelOwnership, FiniteSetTheorems, TLAPS

Retrying(op) == retried = op

\* What is true of an operation in #operations.
Owned(op) ==
  /\ op \notin succeeded
  /\ attempt[op] > 0
  /\ inflight[op] \subseteq {attempt[op]}
  /\ state[op] = "settling" => pending[op] = attempt[op] /\ attempt[op] \in inflight[op]
  /\ state[op] = "retryable" => pending[op] = 0
  /\ state[op] = "retryable" /\ ~Retrying(op) => inflight[op] = {}
  /\ ~Retrying(op) => attempt[op] < MaxAttempts
  /\ Retrying(op) => state[op] = "retryable" /\ attempt[op] \in inflight[op]

\* What is true of an operation outside it.
Unowned(op) ==
  /\ attempt[op] > 0 <=> op \in succeeded
  /\ inflight[op] = {}
  /\ ~Retrying(op)

IInv ==
  /\ TypeOK
  /\ \A op \in Op : IF rank[op] # 0 THEN Owned(op) ELSE Unowned(op)

-----------------------------------------------------------------------------
(* Lemmas on the scan *)

\* Where a scan that starts from rank r stops: concluded, granting only when
\* no operation is left, or suspended in the retry of a retryable operation.
ScanConcludes(r, live) ==
  /\ \E verdict \in BOOLEAN :
       /\ Conclude(verdict)
       /\ verdict => \A op \in Op : r[op] = 0
  /\ inflight' = live
  /\ attempt' = attempt

ScanSuspends(r, live) ==
  \E op \in Op :
    /\ r[op] # 0
    /\ state[op] = "retryable"
    /\ resolution' = "retrying" /\ retried' = op
    /\ attempt' = [attempt EXCEPT ![op] = @ + 1]
    /\ inflight' = [live EXCEPT ![op] = @ \cup {attempt[op] + 1}]

\* Every scan either concludes or suspends.
LEMMA ScanStops ==
  ASSUME NEW r \in [Op -> Nat], NEW live, NEW kind \in {"flush", "shutdown"},
         NEW from \in Nat, ScanOn(r, live, kind, from)
  PROVE  ScanConcludes(r, live) \/ ScanSuspends(r, live)
<1>1. ASSUME NEW op \in FirstOf(r, ToVisit(r, kind, from))
      PROVE  op \in Op /\ r[op] # 0
  <2>1. op \in ToVisit(r, kind, from)
    BY DEF FirstOf
  <2>2. op \in Op /\ (r[op] > from \/ r[op] > 0)
    BY <2>1 DEF ToVisit, Ahead, OpsOf, Op
  <2>3. QED
    BY <2>2
<1>2. CASE /\ Conclude(\A op \in Op : r[op] = 0)
           /\ inflight' = live
           /\ UNCHANGED attempt
  <2> DEFINE none == \A op \in Op : r[op] = 0
  <2>1. none \in BOOLEAN
    OBVIOUS
  <2>2. QED
    BY <1>2, <2>1 DEF ScanConcludes
<1>3. CASE \E op \in FirstOf(r, ToVisit(r, kind, from)) :
             /\ state[op] = "settling"
             /\ Conclude(FALSE)
             /\ inflight' = live
             /\ UNCHANGED attempt
  BY <1>3 DEF ScanConcludes
<1>4. CASE \E op \in FirstOf(r, ToVisit(r, kind, from)) :
             /\ state[op] = "retryable"
             /\ resolution' = "retrying" /\ retried' = op
             /\ attempt' = [attempt EXCEPT ![op] = @ + 1]
             /\ inflight' = [live EXCEPT ![op] = @ \cup {attempt[op] + 1}]
  BY <1>1, <1>4 DEF ScanSuspends
<1>5. QED
  BY <1>2, <1>3, <1>4 DEF ScanOn

-----------------------------------------------------------------------------
(* The invariant is inductive *)

LEMMA InitIInv == Init => IInv
<1> SUFFICES ASSUME Init
             PROVE  IInv
  OBVIOUS
<1> USE DEF Init
<1>1. TypeOK
  BY AttemptBound, NoOpOutside DEF TypeOK
<1>2. ASSUME NEW op \in Op
      PROVE  rank[op] = 0 /\ Unowned(op)
  BY <1>2, NoOpOutside DEF Unowned, Retrying, Op
<1>3. QED
  BY <1>1, <1>2 DEF IInv

\* Retaining an operation adds one that satisfies Owned and touches no other.
LEMMA RetainIInv ==
  ASSUME IInv, NEW op \in Op, NEW outcome \in Outcome, Retain(op, outcome)
  PROVE  IInv'
<1> NoOp \notin Op
  BY NoOpOutside DEF Op
<1> USE DEF IInv, TypeOK
<1>1. rank[op] = 0 /\ inflight[op] = {} /\ ~Retrying(op) /\ op \notin succeeded
  BY DEF Retain, Owned, Unowned
<1>2. TypeOK'
  BY AttemptBound DEF Retain, StateAfter, PendingAfter, InflightAfter, Outcome
<1>3. ASSUME NEW other \in Op
      PROVE  (IF rank[other] # 0 THEN Owned(other) ELSE Unowned(other))'
  <2>1. CASE other # op
    BY <2>1 DEF Retain, Owned, Unowned, Retrying
  <2>2. CASE other = op /\ outcome = "completed"
    BY <2>2, <1>1 DEF Retain, Owned, Unowned, Retrying
  <2>3. CASE other = op /\ outcome # "completed"
    <3>1. rank'[op] # 0 /\ attempt'[op] = 1 /\ 1 < MaxAttempts
      BY <2>3 DEF Retain, Possible
    <3>2. Owned(op)'
      BY <1>1, <2>3, <3>1, AttemptBound
         DEF Retain, Owned, Retrying, StateAfter, PendingAfter, InflightAfter, Outcome
    <3>3. QED
      BY <2>3, <3>1, <3>2
  <2>4. QED
    BY <2>1, <2>2, <2>3
<1>4. QED
  BY <1>2, <1>3

\* Asking for the resolution starts at most one retry, of an idle operation.
LEMMA ResolveIInv ==
  ASSUME IInv, NEW c \in Caller, ResolveBeforeStart(c)
  PROVE  IInv'
<1> NoOp \notin Op
  BY NoOpOutside DEF Op
<1> USE DEF IInv, TypeOK
<1>1. CASE resolution # "none"
  BY <1>1 DEF ResolveBeforeStart, Owned, Unowned, Retrying
<1>2. CASE resolution = "none" /\ ScanConcludes(rank, inflight)
  BY <1>2 DEF ResolveBeforeStart, ScanConcludes, Conclude, Owned, Unowned, Retrying
<1>3. CASE resolution = "none" /\ ScanSuspends(rank, inflight)
  <2>1. PICK op \in Op :
          /\ rank[op] # 0
          /\ state[op] = "retryable"
          /\ resolution' = "retrying" /\ retried' = op
          /\ attempt' = [attempt EXCEPT ![op] = @ + 1]
          /\ inflight' = [inflight EXCEPT ![op] = @ \cup {attempt[op] + 1}]
    BY <1>3 DEF ScanSuspends
  <2>2. Owned(op) /\ ~Retrying(op)
    BY <1>3, <2>1 DEF Retrying
  <2>3. attempt[op] + 1 \in 1 .. MaxAttempts /\ inflight[op] = {}
    BY <2>1, <2>2, AttemptBound DEF Owned
  <2>4. TypeOK'
    BY <2>1, <2>3 DEF ResolveBeforeStart
  <2>5. ASSUME NEW other \in Op
        PROVE  (IF rank[other] # 0 THEN Owned(other) ELSE Unowned(other))'
    <3>1. CASE other = op
      BY <2>1, <2>2, <2>3, <3>1 DEF ResolveBeforeStart, Owned, Retrying
    <3>2. CASE other # op
      BY <1>3, <2>1, <3>2 DEF ResolveBeforeStart, Owned, Unowned, Retrying
    <3>3. QED
      BY <3>1, <3>2
  <2>6. QED
    BY <2>4, <2>5
<1>4. QED
  BY <1>1, <1>2, <1>3, ScanStops DEF ResolveBeforeStart

\* A retry that returns releases its operation and scans on, or parks it.
LEMMA RetryIInv ==
  ASSUME IInv, NEW outcome \in Outcome, RetryReturns(outcome)
  PROVE  IInv'
<1> NoOp \notin Op
  BY NoOpOutside DEF Op
<1> USE DEF IInv, TypeOK
<1>1. PICK op \in Op : retried = op
  BY DEF RetryReturns
<1>2. PICK n \in Nat : n = attempt[op]
  BY <1>1
<1> DEFINE settled == [inflight EXCEPT ![op] = @ \ {n}]
           released == [rank EXCEPT ![op] = 0]
<1>0. rank[op] # 0 /\ Owned(op) /\ inflight[op] = {n} /\ state[op] = "retryable"
  BY <1>1, <1>2 DEF Owned, Unowned, Retrying
<1>3. ASSUME NEW other \in Op, other # op
      PROVE  ~Retrying(other)
  BY <1>1, <1>3 DEF Retrying
<1>4. CASE outcome # "completed"
  <2>1. /\ n < MaxAttempts
        /\ state' = [state EXCEPT ![op] = StateAfter(outcome)]
        /\ pending' = [pending EXCEPT ![op] = PendingAfter(outcome, n)]
        /\ inflight' = IF outcome = "timedOut" THEN inflight ELSE settled
        /\ resolution' = "refused" /\ retried' = NoOp
        /\ UNCHANGED <<rank, lastRank, attempt, caller, diagnostic,
                       succeeded, diagnostics>>
    BY <1>1, <1>2, <1>4 DEF RetryReturns, Possible, Conclude
  <2>2. TypeOK'
    BY <1>0, <1>1, <1>2, <2>1 DEF StateAfter, PendingAfter
  <2>3. Owned(op)'
    BY <1>0, <1>1, <1>2, <2>1 DEF Owned, Retrying, StateAfter, PendingAfter
  <2>4. ASSUME NEW other \in Op, other # op
        PROVE  (IF rank[other] # 0 THEN Owned(other) ELSE Unowned(other))'
    BY <1>1, <1>3, <2>1, <2>4 DEF Owned, Unowned, Retrying
  <2>5. QED
    BY <1>0, <2>1, <2>2, <2>3, <2>4
<1>5. CASE outcome = "completed"
  <2>1. /\ Release(op)
        /\ ScanOn(released, settled, KindOf(op), rank[op])
        /\ UNCHANGED <<state, lastRank, caller>>
    BY <1>1, <1>2, <1>5 DEF RetryReturns
  <2>2. /\ rank' = released
        /\ pending' = [pending EXCEPT ![op] = 0]
        /\ succeeded' = succeeded \cup {op}
        /\ diagnostic' \in {"armed", "emitted"}
        /\ diagnostics' \in Nat
    BY <2>1 DEF Release
  <2>3. released \in [Op -> Nat] /\ settled \in [Op -> SUBSET Nat]
        /\ settled[op] = {} /\ rank[op] \in Nat
    BY <1>0, <1>1, <1>2
  <2>4. CASE ScanConcludes(released, settled)
    <3>1. PICK verdict \in BOOLEAN :
            resolution' = (IF verdict THEN "granted" ELSE "refused") /\ retried' = NoOp
      BY <2>4 DEF ScanConcludes, Conclude
    <3>2. inflight' = settled /\ attempt' = attempt
      BY <2>4 DEF ScanConcludes
    <3>3. TypeOK'
      BY <1>1, <2>1, <2>2, <2>3, <3>1, <3>2
    <3>4. Unowned(op)'
      BY <1>0, <1>1, <1>2, <2>2, <2>3, <3>1, <3>2 DEF Unowned, Owned, Retrying
    <3>5. ASSUME NEW other \in Op, other # op
          PROVE  (IF rank[other] # 0 THEN Owned(other) ELSE Unowned(other))'
      BY <1>1, <1>3, <2>1, <2>2, <3>1, <3>2, <3>5 DEF Owned, Unowned, Retrying
    <3>6. QED
      BY <1>1, <2>2, <3>3, <3>4, <3>5
  <2>5. CASE ScanSuspends(released, settled)
    <3>1. PICK next \in Op :
            /\ released[next] # 0
            /\ state[next] = "retryable"
            /\ resolution' = "retrying" /\ retried' = next
            /\ attempt' = [attempt EXCEPT ![next] = @ + 1]
            /\ inflight' = [settled EXCEPT ![next] = @ \cup {attempt[next] + 1}]
      BY <2>5 DEF ScanSuspends
    <3>2. next # op /\ rank[next] # 0 /\ ~Retrying(next) /\ Owned(next)
      BY <1>1, <1>3, <3>1
    <3>3. attempt[next] + 1 \in 1 .. MaxAttempts /\ settled[next] = {}
      BY <1>1, <3>1, <3>2, AttemptBound DEF Owned
    <3>4. TypeOK'
      BY <1>1, <2>1, <2>2, <2>3, <3>1, <3>3
    <3>5. Unowned(op)'
      BY <1>0, <1>1, <1>2, <2>2, <2>3, <3>1, <3>2 DEF Unowned, Owned, Retrying
    <3>6. Owned(next)'
      BY <1>1, <2>1, <2>2, <3>1, <3>2, <3>3 DEF Owned, Retrying
    <3>7. ASSUME NEW other \in Op, other # op, other # next
          PROVE  (IF rank[other] # 0 THEN Owned(other) ELSE Unowned(other))'
      BY <1>1, <1>3, <2>1, <2>2, <3>1, <3>7 DEF Owned, Unowned, Retrying
    <3>8. QED
      BY <1>1, <2>2, <3>2, <3>4, <3>5, <3>6, <3>7
  <2>6. KindOf(op) \in {"flush", "shutdown"}
    BY DEF KindOf
  <2> HIDE DEF settled, released
  <2>7. ScanConcludes(released, settled) \/ ScanSuspends(released, settled)
    BY <2>1, <2>3, <2>6, ScanStops
  <2>8. QED
    BY <2>4, <2>5, <2>7
<1>6. QED
  BY <1>4, <1>5

\* A late settlement frees a settling operation for release or retry.
LEMMA SettlementIInv ==
  ASSUME IInv, NEW op \in Op, NEW n \in inflight[op], NEW outcome \in Outcome,
         ApplyPendingSettlement(op, n, outcome)
  PROVE  IInv'
<1> NoOp \notin Op
  BY NoOpOutside DEF Op
<1> USE DEF IInv, TypeOK
<1>1. rank[op] # 0 /\ Owned(op) /\ n = attempt[op] /\ ~Retrying(op)
  BY DEF ApplyPendingSettlement, Owned, Unowned, Retrying
<1>2. state[op] = "settling" /\ pending[op] = n /\ inflight[op] = {n}
  BY <1>1 DEF Owned
<1>3. /\ inflight' = [inflight EXCEPT ![op] = @ \ {n}]
      /\ UNCHANGED <<lastRank, attempt, resolution, retried, caller>>
      /\ inflight'[op] = {}
  BY <1>2 DEF ApplyPendingSettlement
<1>4. CASE outcome = "completed"
  <2>1. Release(op) /\ UNCHANGED state
    BY <1>1, <1>2, <1>4 DEF ApplyPendingSettlement
  <2>2. TypeOK'
    BY <1>3, <2>1 DEF Release
  <2>3. rank'[op] = 0 /\ Unowned(op)'
    BY <1>1, <1>3, <2>1 DEF Release, Unowned, Owned, Retrying
  <2>4. ASSUME NEW other \in Op, other # op
        PROVE  (IF rank[other] # 0 THEN Owned(other) ELSE Unowned(other))'
    BY <1>3, <2>1, <2>4 DEF Release, Owned, Unowned, Retrying
  <2>5. QED
    BY <2>2, <2>3, <2>4
<1>5. CASE outcome = "failed"
  <2>1. /\ pending' = [pending EXCEPT ![op] = 0]
        /\ state' = [state EXCEPT ![op] = "retryable"]
        /\ UNCHANGED <<rank, diagnostic, succeeded, diagnostics>>
    BY <1>1, <1>2, <1>5 DEF ApplyPendingSettlement
  <2>2. TypeOK'
    BY <1>3, <2>1
  <2>3. Owned(op)'
    BY <1>1, <1>3, <2>1 DEF Owned, Retrying
  <2>4. ASSUME NEW other \in Op, other # op
        PROVE  (IF rank[other] # 0 THEN Owned(other) ELSE Unowned(other))'
    BY <1>3, <2>1, <2>4 DEF Owned, Unowned, Retrying
  <2>5. QED
    BY <1>1, <2>1, <2>2, <2>3, <2>4
<1>6. QED
  BY <1>4, <1>5 DEF ApplyPendingSettlement, Outcome

-----------------------------------------------------------------------------
(* The theorems *)

\* The invariant holds in every reachable state.
THEOREM Inductive == Spec => []IInv
<1>1. IInv /\ [Next]_vars => IInv'
  <2> SUFFICES ASSUME IInv, [Next]_vars
               PROVE  IInv'
    OBVIOUS
  <2>1. CASE \E op \in Op, outcome \in Outcome : Retain(op, outcome)
    BY <2>1, RetainIInv
  <2>2. CASE \E c \in Caller : ResolveBeforeStart(c)
    BY <2>2, ResolveIInv
  <2>3. ASSUME NEW c \in Caller, TakeStartupDiagnostic(c)
        PROVE  IInv'
    BY <2>3 DEF TakeStartupDiagnostic, IInv, TypeOK, Owned, Unowned, Retrying
  <2>4. ASSUME NEW c \in Caller, StartTelemetry(c)
        PROVE  IInv'
    BY <2>4 DEF StartTelemetry, IInv, TypeOK, Owned, Unowned, Retrying
  <2>5. CASE \E outcome \in Outcome : RetryReturns(outcome)
    BY <2>5, RetryIInv
  <2>6. CASE FinishResolution
    BY <2>6, NoOpOutside
       DEF FinishResolution, IInv, TypeOK, Owned, Unowned, Retrying, Op
  <2>7. CASE \E op \in Op : \E n \in inflight[op], outcome \in Outcome :
               ApplyPendingSettlement(op, n, outcome)
    BY <2>7, SettlementIInv
  <2>8. CASE UNCHANGED vars
    BY <2>8 DEF vars, IInv, TypeOK, Owned, Unowned, Retrying
  <2>9. QED
    BY <2>1, <2>2, <2>3, <2>4, <2>5, <2>6, <2>7, <2>8 DEF Next
<1>2. QED
  BY <1>1, InitIInv, PTL DEF Spec

\* An exporter is never flushed or shut down twice at once by the registry,
\* whichever retry, timeout and late settlement overtakes another.
THEOREM AttemptsNeverOverlap == Spec => []AttemptsAreExclusive
<1>1. IInv => AttemptsAreExclusive
  <2> SUFFICES ASSUME IInv, NEW op \in Op
               PROVE  Cardinality(inflight[op]) <= 1
    BY DEF AttemptsAreExclusive, NoOverlappingAttempts, IInv
  <2>1. inflight[op] = {} \/ inflight[op] = {attempt[op]}
    BY DEF IInv, Owned, Unowned
  <2>2. CASE inflight[op] = {}
    BY <2>2, FS_EmptySet
  <2>3. CASE inflight[op] = {attempt[op]}
    BY <2>3, FS_Singleton
  <2>4. QED
    BY <2>1, <2>2, <2>3
<1>2. QED
  BY <1>1, Inductive, PTL

\* No operation that failed or timed out is lost before one of its attempts
\* completes, and one that resolutions refuse to retry has an observed attempt
\* in flight: only the exporter itself can keep telemetry from restarting.
THEOREM CleanupNeverForgotten == Spec => []CleanupIsAttended
<1>1. IInv => NoForgottenCleanup
  BY DEF IInv, NoForgottenCleanup, Unowned, Operations
<1>2. IInv => SettlingCanLeave
  BY DEF IInv, SettlingCanLeave, Owned, Operations
<1>3. IInv => CleanupIsAttended
  BY <1>1, <1>2 DEF CleanupIsAttended
<1>4. QED
  BY <1>3, Inductive, PTL

\* The diagnostic is armed exactly while none was taken in this episode.
DInv ==
  /\ diagnostic = "armed" => diagnostics = 0
  /\ diagnostic = "emitted" => diagnostics = 1 /\ Operations # {}

\* Refused handlers report pending cleanup at most once per episode.
THEOREM DiagnosticTakenOnce == Spec => []DiagnosticOncePerEpisode
<1>1. Init => DInv
  BY DEF Init, DInv
<1>2. IInv /\ DInv /\ [Next]_vars => DInv'
  <2> SUFFICES ASSUME IInv, DInv, [Next]_vars
               PROVE  DInv'
    OBVIOUS
  <2> USE DEF IInv, TypeOK, DInv, Operations
  <2>1. ASSUME NEW op \in Op, NEW outcome \in Outcome, Retain(op, outcome)
        PROVE  DInv'
    BY <2>1 DEF Retain
  <2>2. ASSUME NEW op \in Op, Release(op)
        PROVE  DInv'
    BY <2>2 DEF Release
  <2>3. ASSUME NEW c \in Caller, TakeStartupDiagnostic(c)
        PROVE  DInv'
    BY <2>3 DEF TakeStartupDiagnostic
  <2>4. ASSUME NEW c \in Caller, ResolveBeforeStart(c) \/ StartTelemetry(c)
        PROVE  DInv'
    BY <2>4 DEF ResolveBeforeStart, StartTelemetry
  <2>5. ASSUME NEW outcome \in Outcome, RetryReturns(outcome)
        PROVE  DInv'
    <3>1. CASE outcome = "completed"
      <4>1. PICK op \in Op : retried = op
        BY <2>5 DEF RetryReturns
      <4>2. Release(op)
        BY <2>5, <3>1, <4>1 DEF RetryReturns
      <4>3. QED
        BY <2>2, <4>2
    <3>2. CASE outcome # "completed"
      <4>1. UNCHANGED <<rank, diagnostic, diagnostics>>
        BY <2>5, <3>2 DEF RetryReturns
      <4>2. QED
        BY <4>1
    <3>3. QED
      BY <3>1, <3>2
  <2>6. CASE FinishResolution \/ UNCHANGED vars
    BY <2>6 DEF FinishResolution, vars
  <2>7. ASSUME NEW op \in Op, NEW n \in inflight[op], NEW outcome \in Outcome,
               ApplyPendingSettlement(op, n, outcome)
        PROVE  DInv'
    BY <2>2, <2>7 DEF ApplyPendingSettlement
  <2>8. QED
    BY <2>1, <2>3, <2>4, <2>5, <2>6, <2>7 DEF Next
<1>3. IInv /\ DInv => DiagnosticOncePerEpisode
  BY DEF IInv, TypeOK, DInv, DiagnosticOncePerEpisode
<1>4. QED
  BY <1>1, <1>2, <1>3, Inductive, PTL DEF Spec

-----------------------------------------------------------------------------
(* The registry implements OperationLedger *)

verdictBar == IF resolution = "retrying" THEN "none" ELSE resolution

\* A concluded or suspended scan is a decision the ledger allows.
LEMMA ScanDecides ==
  ASSUME NEW r \in [Op -> Nat], NEW live, NEW kind \in {"flush", "shutdown"},
         NEW from \in Nat, ScanOn(r, live, kind, from),
         rank' = r, verdictBar = "none"
  PROVE  Ledger!Decide
<1>1. CASE ScanConcludes(r, live)
  <2>1. PICK verdict \in BOOLEAN :
          /\ resolution' = IF verdict THEN "granted" ELSE "refused"
          /\ verdict => \A op \in Op : r[op] = 0
    BY <1>1 DEF ScanConcludes, Conclude
  <2>2. CASE verdict
    <3>1. Operations' = {}
      BY <2>1, <2>2 DEF Operations
    <3>2. QED
      BY <2>1, <2>2, <3>1 DEF Ledger!Decide, verdictBar
  <2>3. CASE ~verdict
    BY <2>1, <2>3 DEF Ledger!Decide, verdictBar
  <2>4. QED
    BY <2>2, <2>3
<1>2. CASE ScanSuspends(r, live)
  BY <1>2 DEF ScanSuspends, Ledger!Decide, verdictBar
<1>3. QED
  BY <1>1, <1>2, ScanStops

\* Every step of the registry is a step of the ledger or leaves it alone.
THEOREM ImplementsOperationLedger == Spec => ImplementsLedger
<1>1. Init => Ledger!Init
  BY DEF Init, Ledger!Init, Operations
<1>2. IInv /\ [Next]_vars => [Ledger!Next]_(Ledger!vars)
  <2> SUFFICES ASSUME IInv, [Next]_vars
               PROVE  [Ledger!Next]_(Ledger!vars)
    OBVIOUS
  <2> USE DEF IInv, TypeOK
  <2>1. ASSUME NEW op \in Op, NEW outcome \in Outcome, Retain(op, outcome)
        PROVE  [Ledger!Next]_(Ledger!vars)
    <3>1. op \notin Operations /\ op \notin succeeded
      BY <2>1 DEF Retain, Operations, Owned, Unowned
    <3>2. CASE outcome = "completed"
      <4>1. Ledger!Complete(op)
        BY <2>1, <3>1, <3>2
           DEF Retain, Ledger!Complete, Ledger!Decide, Operations
      <4>2. QED
        BY <4>1 DEF Ledger!Next
    <3>3. CASE outcome # "completed"
      <4>1. Operations' = Operations \cup {op}
        BY <2>1, <3>3 DEF Retain, Operations
      <4>2. Ledger!Own(op)
        BY <2>1, <3>1, <3>3, <4>1 DEF Retain, Ledger!Own
      <4>3. QED
        BY <4>2 DEF Ledger!Next
    <3>4. QED
      BY <3>2, <3>3
  <2>2. ASSUME NEW op \in Op, Release(op)
        PROVE  Operations' = Operations \ {op} /\ succeeded' = succeeded \cup {op}
    BY <2>2 DEF Release, Operations
  <2>3. ASSUME NEW c \in Caller, ResolveBeforeStart(c)
        PROVE  [Ledger!Next]_(Ledger!vars)
    <3>1. UNCHANGED <<rank, succeeded>> /\ Operations' = Operations
      BY <2>3 DEF ResolveBeforeStart, Operations
    <3>2. CASE resolution # "none"
      BY <2>3, <3>1, <3>2 DEF ResolveBeforeStart, Ledger!vars
    <3>3. CASE resolution = "none"
      <4>1. ScanOn(rank, inflight, "flush", 0)
        BY <2>3, <3>3 DEF ResolveBeforeStart
      <4>2. Ledger!Decide
        BY <3>1, <3>3, <4>1, ScanDecides DEF verdictBar
      <4>3. QED
        BY <3>1, <4>2 DEF Ledger!Next, Ledger!Judge
    <3>4. QED
      BY <3>2, <3>3
  <2>4. ASSUME NEW c \in Caller, TakeStartupDiagnostic(c) \/ StartTelemetry(c)
        PROVE  [Ledger!Next]_(Ledger!vars)
    BY <2>4 DEF TakeStartupDiagnostic, StartTelemetry, Operations, Ledger!vars
  <2>5. ASSUME NEW outcome \in Outcome, RetryReturns(outcome)
        PROVE  [Ledger!Next]_(Ledger!vars)
    <3>1. PICK op \in Op : retried = op
      BY <2>5 DEF RetryReturns
    <3>2. op \notin succeeded /\ resolution = "retrying"
      BY <2>5, <3>1 DEF RetryReturns, Owned, Unowned, Retrying
    <3>3. CASE outcome = "completed"
      <4> DEFINE released == [rank EXCEPT ![op] = 0]
                 settled == [inflight EXCEPT ![op] = @ \ {attempt[op]}]
      <4>1. Release(op) /\ ScanOn(released, settled, KindOf(op), rank[op])
        BY <2>5, <3>1, <3>3 DEF RetryReturns
      <4>2. rank' = released /\ released \in [Op -> Nat] /\ rank[op] \in Nat
            /\ KindOf(op) \in {"flush", "shutdown"}
        BY <4>1 DEF Release, KindOf
      <4>3. verdictBar = "none"
        BY <3>2 DEF verdictBar
      <4> HIDE DEF released, settled
      <4>4. Ledger!Decide
        BY <4>1, <4>2, <4>3, ScanDecides
      <4>5. Ledger!Complete(op)
        BY <2>2, <3>2, <4>1, <4>4 DEF Ledger!Complete
      <4>6. QED
        BY <4>5 DEF Ledger!Next
    <3>4. CASE outcome # "completed"
      <4>1. resolution' = "refused" /\ UNCHANGED <<rank, succeeded>>
        BY <2>5, <3>4 DEF RetryReturns, Conclude
      <4>2. Ledger!Judge
        BY <3>2, <4>1 DEF Ledger!Judge, Ledger!Decide, Operations
      <4>3. QED
        BY <4>2 DEF Ledger!Next
    <3>5. QED
      BY <3>3, <3>4
  <2>6. CASE FinishResolution
    <3>1. Ledger!Deliver
      BY <2>6 DEF FinishResolution, Ledger!Deliver, Operations
    <3>2. QED
      BY <3>1 DEF Ledger!Next
  <2>7. ASSUME NEW op \in Op, NEW n \in inflight[op], NEW outcome \in Outcome,
               ApplyPendingSettlement(op, n, outcome)
        PROVE  [Ledger!Next]_(Ledger!vars)
    <3>1. rank[op] # 0 /\ pending[op] = n /\ op \notin succeeded
      BY <2>7 DEF ApplyPendingSettlement, Owned, Unowned, Retrying
    <3>2. UNCHANGED resolution
      BY <2>7 DEF ApplyPendingSettlement
    <3>3. CASE outcome = "completed"
      <4>1. Release(op)
        BY <2>7, <3>1, <3>3 DEF ApplyPendingSettlement
      <4>2. Ledger!Complete(op)
        BY <2>2, <3>1, <3>2, <4>1 DEF Ledger!Complete, Ledger!Decide
      <4>3. QED
        BY <4>2 DEF Ledger!Next
    <3>4. CASE outcome = "failed"
      BY <2>7, <3>1, <3>2, <3>4 DEF ApplyPendingSettlement, Operations, Ledger!vars
    <3>5. QED
      BY <2>7, <3>3, <3>4 DEF ApplyPendingSettlement, Outcome
  <2>8. CASE UNCHANGED vars
    BY <2>8 DEF vars, Operations, Ledger!vars
  <2>9. QED
    BY <2>1, <2>3, <2>4, <2>5, <2>6, <2>7, <2>8 DEF Next
<1>3. QED
  BY <1>1, <1>2, Inductive, PTL DEF Spec, Ledger!Spec, ImplementsLedger

=============================================================================
