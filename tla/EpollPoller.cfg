\* Two dispatchers over two descriptors, whose numbers are reused; an event
\* list of one entry that doubles; every condition that handleEventSafely tells
\* apart.
CONSTANTS
  Dispatchers = {d1, d2}
  Fds = {f1, f2}
  General = {d1}
  Conditions = {"in", "out", "hup"}
  NoFd = NoFd
  NoOne = NoOne
  InitSize = 1
  MaxSize = 2
SPECIFICATION Spec
INVARIANTS
  RegistrationMatches
  OnlyOthersLeaveItDangling
PROPERTIES
  CallbackHasCause
  ReadyIsDispatched
CHECK_DEADLOCK FALSE
