\* Two processes that are started again and again, so that chains of agents and
\* resumed sessions meet every envelope; parents of depth 1 are the deepest.
CONSTANTS
  Process = {p1, p2}
  Persistent = {p1}
  File = {f1, f2}
  Unset = Unset
  Partial = Partial
  Foreign = Foreign
  MaxDepth = 1
  MaxAgents = 3
  MaxSpawns = 2
  MaxEntries = 2
SPECIFICATION Spec
SYMMETRY Symmetry
CHECK_DEADLOCK FALSE
INVARIANT LineageOfOneSpawn
PROPERTIES RestoredAsWritten ReloadKeepsLineage
