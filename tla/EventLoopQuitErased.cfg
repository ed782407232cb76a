\* The loop is destroyed while loop() starts.
CONSTANTS
  LoopThread = L
  Callers = {c1, c2}
  Creator = L
  Destroyer = c1
  NoThread = NoThread
  Throws = {}
  MaxFuncs = 1
  MaxLoops = 1
SPECIFICATION Spec
PROPERTIES
  DestructorReturns
CHECK_DEADLOCK FALSE
