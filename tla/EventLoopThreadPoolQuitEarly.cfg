\* A user quits the loop before run() has returned.
CONSTANTS
  Users = {owner, u1}
  Owner = owner
  Funcs = {f1}
  MaxThreads = 1
  IndexBits = 1
  MaxPicks = 0
  EarlyQuit = TRUE
SPECIFICATION Spec
PROPERTIES
  CallsReturn
CHECK_DEADLOCK FALSE
