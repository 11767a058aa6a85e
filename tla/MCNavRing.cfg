SPECIFICATION RingSpec
CONSTANTS
  p = p
  q = q
  top = top
  bottom = bottom
  Path <- TwoPaths
  Pos <- TwoPositions
  Nowhere = Nowhere
  Size = 4
INVARIANTS
  RingTypeOK
PROPERTIES
  RingIsList
