SPECIFICATION Spec
CONSTANTS
  a = a
  b = b
  Line <- TwoLines
  Loaded <- MCLoaded
  MaxLen = 3
  MaxItems = 3
INVARIANTS
  TypeOK
PROPERTIES
  UndoesSteps
