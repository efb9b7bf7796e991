CONSTANTS
  FlushOps = {f1, f2}
  ShutdownOps = {s1}
  NoOp = NoOp
  Caller = {c1, c2}
  MaxAttempts = 3
SPECIFICATION FairSpec
INVARIANTS
  AttemptsAreExclusive
  CleanupIsAttended
  DiagnosticOncePerEpisode
PROPERTIES
  EveryCallerAnswered
  ImplementsLedger
