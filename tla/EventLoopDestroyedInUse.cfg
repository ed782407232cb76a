\* The loop is destroyed while it runs its quit functions.
CONSTANTS
  LoopThread = L
  Callers = {c1, c2}
  Creator = L
  Destroyer = c1
  NoThread = NoThread
  Throws = {}
  MaxFuncs = 1
  MaxLoops = 1
SPECIFICATION Spec
INVARIANTS
  DestroyedNotInUse
CHECK_DEADLOCK FALSE
