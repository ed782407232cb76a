\* Callers that wait for okCallback_ and idleCb_ and callers that call at any
\* time, a server that answers or closes; two queries of up to two result sets,
\* at most five suspensions of libmariadb.
CONSTANTS
  Queries = {q1, q2}
  NoQuery = NoQuery
  MaxSets = 2
  MaxWaits = 5
  ConnectAtOnce = FALSE
  ServerMayClose = TRUE
  Careful = {TRUE, FALSE}
SPECIFICATION FairSpec
INVARIANTS
  WaitsAreWatched
  StatusMatchesLibrary
  ResultsAreComplete
  CarefulIsSafe
PROPERTIES
  ImplementsDbConnection
  ConnectSettles
  QueryAnswered
CHECK_DEADLOCK FALSE
