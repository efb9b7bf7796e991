CONSTANTS
  Spawn = {s1, s2, s3}
  Child = {c1, c2, c3}
  WaitJoin = {w1}
  Unset = Unset
  MaxSpawns = 2
  MaxWaitJoins = 1
  StartOptions = {}
  EndOptions = {}
  FalsePositive = {}
SPECIFICATION Spec
SYMMETRY Symmetry
CHECK_DEADLOCK FALSE
INVARIANT RefusalMeansTerminal
