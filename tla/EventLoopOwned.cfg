\* The loop is made by the thread that runs it and destroyed by a caller, as an
\* EventLoopThread does it.  Two callers, one function from each thread, a second
\* call of loop() after a quit or an exception.
CONSTANTS
  LoopThread = L
  Callers = {c1, c2}
  Creator = L
  Destroyer = c1
  NoThread = NoThread
  Throws = {"std", "other"}
  MaxFuncs = 1
  MaxLoops = 2
SPECIFICATION Spec
INVARIANTS
  NoSleepWithWork
  SpinProtectsTheLoop
  LoopCanRestart
PROPERTIES
  QueuedFuncRuns
  QuitStops
CHECK_DEADLOCK FALSE
