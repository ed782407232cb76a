\* The server closes an idle connection after a query.
CONSTANTS
  Queries = {q1, q2}
  NoQuery = NoQuery
  MaxSets = 1
  MaxWaits = 4
  ConnectAtOnce = FALSE
  ServerMayClose = TRUE
  Careful = {TRUE}
SPECIFICATION Spec
INVARIANTS
  IdleCloseIsReported
CHECK_DEADLOCK FALSE
