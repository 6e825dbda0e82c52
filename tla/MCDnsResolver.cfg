\* The safety of the resolver for any caller, with workers that may throw.
SPECIFICATION Spec
CONSTANTS
  Worker = {w1, w2}
  Host = {h1, h2}
  NoNode = NoNode
  NoRecord = NoRecord
  HasCache = FALSE
  InitialDb <- EmptyDb
  WorkersThrow = TRUE
  MaxQueued = 2
\* Workers that all left their loop leave a caller of dns_wait blocked: the
\* system stops there (see the TODO in dns_worker_thread_proc).
CHECK_DEADLOCK FALSE
SYMMETRY Symmetry
INVARIANTS
  Accounted
PROPERTIES
  WaitDelivers
  ImplementsService
