SPECIFICATION Spec
CONSTANTS
  Entries <- SomeEntries
  Folders <- SomeFolders
  MaxChanges = 1
PROPERTIES
  KeepsExpanded
