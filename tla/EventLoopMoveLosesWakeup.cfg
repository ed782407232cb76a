\* The loop is moved while its creator queues a function.
CONSTANTS
  LoopThread = L
  Callers = {c1, c2}
  Creator = c1
  Destroyer = NoThread
  NoThread = NoThread
  Throws = {}
  MaxFuncs = 1
  MaxLoops = 1
SPECIFICATION Spec
PROPERTIES
  QueuedFuncRuns
CHECK_DEADLOCK FALSE
