CONSTANTS
  Spawn = {s1, s2, s3}
  Child = {c1, c2, c3}
  WaitJoin = {w1, w2}
  Unset = Unset
  MaxSpawns = 2
  MaxWaitJoins = 1
  StartOptions <- SpawnsStartOptions
  EndOptions <- SpawnsEndOptions
  FalsePositive <- SpawnsFalsePositive
SPECIFICATION Spec
SYMMETRY Symmetry
CHECK_DEADLOCK FALSE
INVARIANTS
  OperationsAreAccounted
  OneSpawnPerChild
  NeverRecounted
  
PROPERTIES
  ChildrenEndOnce
