\* The loop is destroyed by another thread than its own.
CONSTANTS
  LoopThread = L
  Callers = {c1, c2}
  Creator = L
  Destroyer = c1
  NoThread = NoThread
  Throws = {}
  MaxFuncs = 1
  MaxLoops = 1
SPECIFICATION Spec
INVARIANTS
  TimerfdReleased
CHECK_DEADLOCK FALSE
