\* Results of up to three rows and three columns, names that differ in case, and
\* columns of the same name.
CONSTANTS
  Names <- MCNames
  tolower <- MCtolower
  MaxRows = 3
  MaxColumns = 3
SPECIFICATION Spec
INVARIANTS
  ReadsTheField
  EndIsBehindTheLast
