SPECIFICATION Spec
CONSTANTS
  source = source
  notes = notes
  start = start
  end = end
  Path <- TwoPaths
  Pos <- TwoPositions
  Start = start
  Queries <- SomeQueries
  Listings <- OneListing
  Pickers <- TwoPickers
  Size = 2
  Nowhere = Nowhere
  None = None
INVARIANTS
  TypeOK
PROPERTIES
  LeavesNoTrace
  BackReturns
  SelectionStays
