\* disconnect() while a query is in flight.
CONSTANTS
  Queries = {q1, q2}
  NoQuery = NoQuery
  MaxSets = 1
  MaxWaits = 4
  ConnectAtOnce = FALSE
  ServerMayClose = FALSE
  Careful = {FALSE}
SPECIFICATION FairSpec
PROPERTIES
  QueryCallsBack
CHECK_DEADLOCK FALSE
