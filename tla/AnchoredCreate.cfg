CONSTANTS
  Proc = {p1, p2}
  MaxDisturbances = 1
SPECIFICATION FairSpec
CHECK_DEADLOCK FALSE
INVARIANTS
  PathIsAsReported
  HelperReaped
PROPERTIES
  EveryStartAnswered
