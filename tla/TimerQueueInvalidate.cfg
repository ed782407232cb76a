\* A timer is invalidated before the loop runs, as in the test InvalidateTimer.
CONSTANTS
  Callers = {}
  MaxTimers = 1
  MaxTime = 3
  Delays = {1}
  Intervals = {0}
  Throwing = FALSE
  MaxLoops = 1
SPECIFICATION Spec
PROPERTIES
  InvalidateIsFinal
CHECK_DEADLOCK FALSE
