\* Two timers, one-shot or repeating, added and invalidated by the loop's own
\* thread and by another one, before the loop, between polls and in callbacks.
CONSTANTS
  Callers = {c1}
  MaxTimers = 2
  MaxTime = 3
  Delays = {1, 2}
  Intervals = {0, 1}
  Throwing = TRUE
  MaxLoops = 1
SPECIFICATION Spec
INVARIANTS
  ArmedForEarliest
PROPERTIES
  NotTooOften
  ErasedNeverRuns
  TimerFires
