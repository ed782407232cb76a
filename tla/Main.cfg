\* main.cpp as it is: one query, which returns one result.
CONSTANTS
  Queries = {q1}
  NoQuery = NoQuery
  MaxResults = 1
  PromptThread = TRUE
SPECIFICATION Spec
PROPERTIES
  MainSettles
CHECK_DEADLOCK FALSE
