SPECIFICATION FairPipeSpec
CONSTANTS
  Worker = {w1, w2}
  Host = {h1, h2}
  HostName = {n1}
  NoNode = NoNode
  NoRecord = NoRecord
  HasCache = FALSE
  InitialDb <- EmptyDb
  WorkersThrow = FALSE
  MaxQueued = 4
  Spammer = {h1}
  CanSwapOut = {h2, n1}
  CanAbort = TRUE
  Incremental = TRUE
  MaxRecords = 3
INVARIANTS
  NoDanglingHost
  KeptVisitWillBeGrouped
PROPERTIES
  EveryVisitGrouped
  Spec
  RunEnds
