SPECIFICATION Spec
CONSTANTS
  first = first
  second = second
  None = None
  Killed = Killed
  Editors <- TwoEditors
  Items <- TwoItems
  Procs <- TwoProcs
  MaxEnds = 1
INVARIANTS
  TypeOK
  TakenByOne
  LaunchedOnce
PROPERTIES
  DeliveriesEnd
  ItemsAreTaken
