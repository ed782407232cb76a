\* mysql_real_connect_start finishes at once.
CONSTANTS
  Queries = {q1, q2}
  NoQuery = NoQuery
  MaxSets = 1
  MaxWaits = 3
  ConnectAtOnce = TRUE
  ServerMayClose = FALSE
  Careful = {TRUE}
SPECIFICATION FairSpec
PROPERTIES
  ConnectSettles
CHECK_DEADLOCK FALSE
