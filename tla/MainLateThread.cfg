\* The thread enters loop() after main has given up and quit() the loop: the quit
\* is erased, and the loop's destructor waits for ever.
CONSTANTS
  Queries = {q1}
  NoQuery = NoQuery
  MaxResults = 1
  PromptThread = FALSE
SPECIFICATION Spec
PROPERTIES
  MainSettles
CHECK_DEADLOCK FALSE
