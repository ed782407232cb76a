\* Three producers so that two of them can overtake a third one that sits
\* between its exchange and its link; four enqueues so that one producer
\* enqueues twice.
CONSTANTS
  Producers = {p1, p2, p3}
  MaxNodes = 4
SPECIFICATION Spec
INVARIANTS
  NoUseAfterFree
  OnlyEnqueuesInProgressBreakTheList
  DestructorFreesEverything
PROPERTIES
  ImplementsFifo
  EverythingIsDequeued
CHECK_DEADLOCK FALSE
