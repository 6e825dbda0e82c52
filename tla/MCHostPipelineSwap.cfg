\* A host that is caught spamming while it is in the resolver, and a hash
\* table that is swapped out.
SPECIFICATION PipeSpec
CONSTANTS
  Worker = {w1}
  Host = {h1, h2}
  HostName = {}
  NoNode = NoNode
  NoRecord = NoRecord
  HasCache = FALSE
  InitialDb <- EmptyDb
  WorkersThrow = FALSE
  MaxQueued = 4
  Spammer = {h1}
  CanSwapOut = {h1}
  CanAbort = FALSE
  Incremental = FALSE
  MaxRecords = 4
INVARIANT
  NoDanglingHost
