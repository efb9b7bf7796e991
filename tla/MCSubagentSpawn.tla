--------------------------- MODULE MCSubagentSpawn ---------------------------
(***************************************************************************)
(* SubagentSpawn with three spawns of three children that compete for two  *)
(* places, two waits and two joins that compete for one each, and a        *)
(* membership filter that takes the failure of a child for the recovery of *)
(* every other.                                                            *)
(***************************************************************************)
EXTENDS SubagentSpawn, TLC

Undefined == [childStatus |-> Unset, joinStatus |-> Unset, propagated |-> Unset]

StartsActive(child) ==
  [spawn |-> Unset, child |-> child, outcome |-> [Undefined EXCEPT !.childStatus = "active"]]
RecoveredFromFailure ==
  [childStatus |-> "failed", joinStatus |-> "completed", propagated |-> "false"]

SpawnsStartOptions == {StartsActive(child) : child \in Child}
TimedOut == [Undefined EXCEPT !.childStatus = "orphaned", !.joinStatus = "timeout"]
SpawnsEndOptions == {Undefined, TimedOut, RecoveredFromFailure}
SpawnsFalsePositive ==
  {<<<<"failure", c>>, <<"recovery", d>>>> : c, d \in Child}
    \ {<<<<"failure", c>>, <<"recovery", c>>>> : c \in Child}

\* The options treat spawns, children, waits and joins alike.
Symmetry == Permutations(Spawn) \cup Permutations(Child) \cup Permutations(WaitJoin)
=============================================================================
