\* A function throws something that is not a std::exception.
CONSTANTS
  LoopThread = L
  Callers = {c1, c2}
  Creator = L
  Destroyer = NoThread
  NoThread = NoThread
  Throws = {"std", "other"}
  MaxFuncs = 1
  MaxLoops = 1
SPECIFICATION Spec
PROPERTIES
  QuitFuncsRunOnException
CHECK_DEADLOCK FALSE
