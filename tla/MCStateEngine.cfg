\* Pages, downloads and errors of two hosts, no maximum visit length.
SPECIFICATION Spec
CONSTANTS
  Host = {h1, h2}
  Url = {u1, u2}
  NoUrl = NoUrl
  Kind = {"page", "download", "error"}
  VisitTimeout = 2
  DownloadTimeout = 2
  MaxVisitLength = 0
  CanInterrupt = FALSE
  MonthLength = 6
  MaxTime = 6
  MaxHits = 3
SYMMETRY Symmetry
INVARIANTS
  ReferencesCounted
  DatabaseWhole
  NothingThrows
  MonthClosed
PROPERTIES
  SwapEndsOldDownloads
