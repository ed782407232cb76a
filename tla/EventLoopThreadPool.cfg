\* Pools of none to two threads, the owner and another user, two functions;
\* an index of one bit, so that it wraps round within the calls.
CONSTANTS
  Users = {owner, u1}
  Owner = owner
  Funcs = {f1, f2}
  MaxThreads = 2
  IndexBits = 1
  MaxPicks = 3
  EarlyQuit = FALSE
SPECIFICATION Spec
INVARIANTS
  QuitFindsTheLoop
  RoundRobin
PROPERTIES
  CallsReturn
  QueuedIsDrained
CHECK_DEADLOCK FALSE
