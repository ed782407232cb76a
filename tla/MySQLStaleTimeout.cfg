\* A timer outlives the wait it was set for.
CONSTANTS
  Queries = {q1, q2}
  NoQuery = NoQuery
  MaxSets = 1
  MaxWaits = 4
  ConnectAtOnce = FALSE
  ServerMayClose = FALSE
  Careful = {TRUE}
SPECIFICATION Spec
PROPERTIES
  TimeoutIsForItsWait
CHECK_DEADLOCK FALSE
