\* A host that is looked up twice.
SPECIFICATION Spec
CONSTANTS
  Worker = {w1}
  Host = {h1}
  NoNode = NoNode
  NoRecord = NoRecord
  HasCache = TRUE
  InitialDb <- EmptyDb
  WorkersThrow = FALSE
  MaxQueued = 2
PROPERTY
  StoredIsFound
