SPECIFICATION Spec

CONSTANTS
  Configs <- MCConfigs
  Records <- MCRecords
  NameOrder <- MCNameOrder
  TextOrder <- MCTextOrder
  Page <- MCPage
  Mangled <- MCMangled
  Restarts = TRUE
  MaxRecords = 3

INVARIANTS
  TablesAddUp
  SameUrlOnce

PROPERTY IgnoredNotCounted
