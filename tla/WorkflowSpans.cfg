\* Three runs for two places of the registry; three requests for two places and
\* four tools for three.
CONSTANTS
  Run = {r1, r2, r3}
  Request = {q1, q2, q3}
  Tool = {t1, t2, t3, t4}
  Prompt = {p1, p2}
  NoId = NoId
  MaxIndex = 1
  MaxRuns = 2
  MaxTurns = 1
  MaxRequests = 2
  MaxTools = 3
SPECIFICATION PartsSpec
CHECK_DEADLOCK FALSE
INVARIANTS
  NoLeakedGauge
  
  ArgumentsAreOwn
