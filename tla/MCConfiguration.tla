--------------------------- MODULE MCConfiguration ---------------------------
(***************************************************************************)
(* Two parts of the configuration that share no state: how its layers are  *)
(* loaded (SessionConfig), and how a custom pattern in it is judged        *)
(* (CustomPatterns).  A behaviour is one of a part.                        *)
(***************************************************************************)
EXTENDS SessionConfig

CONSTANTS MaxTokens, MaxWord  \* as in CustomPatterns
VARIABLES
  part,    \* "layers" or "patterns"
  pattern

Patterns == INSTANCE CustomPatterns

PartsInit == part \in {"layers", "patterns"} /\ LoadInit /\ Patterns!Init

PartsNext ==
  /\ UNCHANGED part
  /\ \/ part = "layers" /\ LoadNext /\ UNCHANGED pattern
     \/ part = "patterns" /\ Patterns!Next /\ UNCHANGED loadVars

PartsSpec == PartsInit /\ [][PartsNext]_<<part, loadVars, pattern>>

-----------------------------------------------------------------------------
\* Every regular expression is judged, and an accepted one matches no text in
\* two ways, neither by one of its repetitions nor by two in a row
\* (CustomPatterns).
AcceptedIsUnambiguous == Patterns!AcceptedIsUnambiguous
=============================================================================
