\* A query fails.
CONSTANTS
  Queries = {q1, q2}
  NoQuery = NoQuery
  MaxSets = 1
  MaxWaits = 4
  ConnectAtOnce = FALSE
  ServerMayClose = FALSE
  Careful = {TRUE}
SPECIFICATION Spec
INVARIANTS
  QueryErrorIsReported
CHECK_DEADLOCK FALSE
