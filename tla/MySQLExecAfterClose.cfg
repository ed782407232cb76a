\* The server closes while an execSql is on its way to the loop.
CONSTANTS
  Queries = {q1, q2}
  NoQuery = NoQuery
  MaxSets = 1
  MaxWaits = 4
  ConnectAtOnce = FALSE
  ServerMayClose = TRUE
  Careful = {TRUE}
SPECIFICATION FairSpec
PROPERTIES
  QueryCallsBack
CHECK_DEADLOCK FALSE
