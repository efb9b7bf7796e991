\* Every choice of up to three layers; all patterns of six tokens, and the words
\* that a repetition in them matches.
CONSTANTS
  MaxPresent = 3
  MaxTokens = 6
  MaxWord = 3
SPECIFICATION PartsSpec
CHECK_DEADLOCK FALSE
INVARIANTS
  DisablementKept
  EffectiveIsSafe
  AcceptedSourcesCount
  AcceptedIsUnambiguous
