\* Lists of up to two parameters, statements of up to five characters with up
\* to two parameters, bytes of 3, ints of 4 and longs of 5 bits; days of six
\* hours, daylight saving from the third to the fifth day.
CONSTANTS
  Word <- MCWord
  tolower <- MCtolower
  ConnCharacters <- MCConnCharacters
  ParameterLists <- MCParameterLists
  SqlCharacters <- MCSqlCharacters
  Statements <- MCStatements
  Parameters <- MCParameters
  Cells <- MCCells
  Instants <- MCInstants
  ByteBits = 3
  IntBits = 4
  LongBits = 5
  PerSecond = 100
  HourLength = 1
  DayLength = 6
  StandardOffset <- MCStandardOffset
  DstBegin = 13
  DstEnd = 27
  UnsignedRange = 4096
  ZeroDay <- MCZeroDay
SPECIFICATION Spec
INVARIANTS
  OptionsAsSpelled
  ParametersAreTokens
  NumbersComeThrough
  DatesComeBack
CHECK_DEADLOCK FALSE
