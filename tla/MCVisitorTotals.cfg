SPECIFICATION Spec
CONSTANTS
  Host = {h1, h2}
  Named = {h2}
  is_dns_enabled = TRUE
  Restarts = TRUE
  MaxRecords = 4
  LastDay = 2
INVARIANTS
  TotalsBalance
  ConversionsArePeople
  CountriesArePeople
CHECK_DEADLOCK FALSE
