--------------------------- MODULE MCAgentLineage ---------------------------
(***************************************************************************)
(* AgentLineage with interchangeable session files.                        *)
(***************************************************************************)
EXTENDS AgentLineage, TLC

Symmetry == Permutations(File)
=============================================================================
