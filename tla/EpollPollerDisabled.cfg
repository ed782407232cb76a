\* disableAll on a dispatcher that is disabled; a callback that destroys a later
\* dispatcher of the batch.  Run with -continue to see both.
CONSTANTS
  Dispatchers = {d1, d2}
  Fds = {f1, f2}
  General = {d1}
  Conditions = {"in", "hup"}
  NoFd = NoFd
  NoOne = NoOne
  InitSize = 1
  MaxSize = 2
SPECIFICATION Spec
INVARIANTS
  DisabledIsUnregistered
  NoDanglingDispatcher
CHECK_DEADLOCK FALSE
