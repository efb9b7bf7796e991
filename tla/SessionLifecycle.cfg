SPECIFICATION FairSpec
CONSTANTS
  Session = {s1, s2, s3}
  NoSession = NoSession
  MaxDeliveries = 4
  MaxRetries = 1
INVARIANTS
  
  
  NoSpawnOutlivesTeardown
  StateAgreesWithSession
PROPERTIES
  HandlersProgress
  KeepsItsContracts
CHECK_DEADLOCK FALSE
