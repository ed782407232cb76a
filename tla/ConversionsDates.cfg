\* Three things that DateTime.h says of dates; `tlc -continue' shows a
\* counterexample of each.
CONSTANTS
  Word <- MCWord
  tolower <- MCtolower
  ConnCharacters <- MCConnCharacters
  ParameterLists <- MCParameterLists
  SqlCharacters <- MCSqlCharacters
  Statements <- MCStatements
  Parameters <- MCParameters
  Cells <- MCCells
  Instants <- MCInstants
  ByteBits = 3
  IntBits = 4
  LongBits = 5
  PerSecond = 100
  HourLength = 1
  DayLength = 6
  StandardOffset <- MCStandardOffset
  DstBegin = 13
  DstEnd = 27
  UnsignedRange = 4096
  ZeroDay <- MCZeroDay
SPECIFICATION Spec
INVARIANTS
  InverseOfToDbStringLocal
  UtcText
  ZeroHours
CHECK_DEADLOCK FALSE
