\* Every text of up to four characters.
CONSTANTS
  Alphabet <- MCAlphabet
  MaxText = 4
  Values <- MCValues
  Shapes <- MCShapes
SPECIFICATION ParserSpec
INVARIANTS
  EscapedIsKept
CHECK_DEADLOCK FALSE
