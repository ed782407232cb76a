\* The loop is made by a caller and moved to the thread that runs it, as in
\* main.cpp; the poll may be relied upon to time out.
CONSTANTS
  LoopThread = L
  Callers = {c1, c2}
  Creator = c1
  Destroyer = NoThread
  NoThread = NoThread
  Throws = {"std"}
  MaxFuncs = 1
  MaxLoops = 2
SPECIFICATION TimeoutSpec
PROPERTIES
  QueuedFuncRuns
CHECK_DEADLOCK FALSE
