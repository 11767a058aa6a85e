SPECIFICATION Spec
CONSTANTS
  file = file
  second = second
  blank = blank
  other = other
  Paths <- TwoFiles
  Contents <- TwoContents
  Blank = blank
  Foreign <- OneFile
  GapWrites = FALSE
  WatchFails = TRUE
  Absent = Absent
  NoPrint = NoPrint
  Listing = Listing
  Elsewhere = Elsewhere
INVARIANTS
  TypeOK
  StaleIsNoticed
PROPERTIES
  Converges
