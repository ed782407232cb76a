\* Every text of up to five characters, and every array of MCValues with up to
\* two elements, two rows of one, or one row in a row.
CONSTANTS
  Alphabet <- MCAlphabet
  MaxText = 5
  Values <- MCValues
  Shapes <- MCShapes
SPECIFICATION ParserSpec
INVARIANTS
  FindsTheArray
  ScansEndInTheText
PROPERTIES
  GetNextMovesOn
CHECK_DEADLOCK FALSE
