\* Everything that may go wrong without an error of the database: downloads
\* that outlive visits, a maximum visit length, Ctrl-C in the last run.
SPECIFICATION Spec
CONSTANTS
  Host = {h1, h2}
  Url = {u1, u2}
  NoUrl = NoUrl
  Kind = {"page", "download", "error"}
  VisitTimeout = 2
  DownloadTimeout = 3
  MaxVisitLength = 1
  CanInterrupt = TRUE
  MonthLength = 6
  MaxTime = 6
  MaxHits = 3
SYMMETRY Symmetry
INVARIANTS
  CleanIsStored
  TotalsAccounted
PROPERTIES
  ImplementsSessions
