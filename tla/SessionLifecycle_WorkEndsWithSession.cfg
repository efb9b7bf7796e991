SPECIFICATION Spec
CONSTANTS
  Session = {s1, s2}
  NoSession = NoSession
  MaxDeliveries = 3
  MaxRetries = 1
INVARIANT WorkEndsWithSession
CHECK_DEADLOCK FALSE
