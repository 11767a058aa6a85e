SPECIFICATION Spec
CONSTANTS
  file = file
  second = second
  blank = blank
  other = other
  Paths <- OneFile
  Contents <- TwoContents
  Blank = blank
  Foreign <- NoFile
  GapWrites = FALSE
  WatchFails = FALSE
  Absent = Absent
  NoPrint = NoPrint
  Listing = Listing
  Elsewhere = Elsewhere
PROPERTIES
  OwnSavesKeepText
