\* Any two files, runs of any mode, Ctrl-C.
SPECIFICATION FairHistSpec
CONSTANTS
  File = {f1, f2}
  NoFile = NoFile
  Contents <- MCContents
  Mode <- AllModes
  DnsEnabled = TRUE
  CanInterrupt = TRUE
  MaxLength = 2
  VisitTimeout = 1
  MonthLength = 3
  MaxRuns = 2
  FirstMonth = 24262
  HistoryLength = 12
  ignore_hist = FALSE
  CanLose = TRUE
INVARIANTS
  StatesMatchFiles
  OrderedFilesCounted
  MonthsApart
  NoDatabaseCountsTwice
  IndexShowsReports
PROPERTIES
  NothingForgotten
  SaveChangesOneMonth
  RunEnds
CHECK_DEADLOCK FALSE
