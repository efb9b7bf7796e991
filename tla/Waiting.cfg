\* Two callers of the controller; backfills of three options, three entries and
\* two records; three commands of the shell;
\* every /obs command, two sessions and bodies of one chunk.
CONSTANTS
  Caller = {c1, c2}
  MaxTokens = 3
  MaxEntries = 3
  MaxRecords = 2
  Command = {b1, b2, b3}
  NoCommand = NoCommand
  Channel = {"entry", "message_end"}
  MaxSessions = 2
  MaxChunks = 1
  MaxOptions = 2
SPECIFICATION PartsSpec
CHECK_DEADLOCK FALSE
INVARIANTS
  NothingIsLost
  CountsAreHonest
  CommandsAreAccounted
  OneFailureHidesNone
  
PROPERTIES
  ImplementsPipeline
  ShutdownAnswers
  CompletedIsComplete
  BackfillEnds
  
  CommandSettles
