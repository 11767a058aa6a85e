SPECIFICATION Spec
CONSTANTS
  Entries <- SomeEntries
  Folders <- SomeFolders
  MaxChanges = 2
INVARIANTS
  TypeOK
  ListingIsTree
  StaleIsNoticed
PROPERTIES
  ReloadRestores
  Converges
