SPECIFICATION Spec
CONSTANTS
  MayFail = {"urls", "agents", "page"}
  NodeIds = 32
  GeonameIds = 2
  CharIds = 8
  LetterIds = 4
  FirstLetter = 5
  MaxItems = 3
  TopMax = 2
  HumanVisits = {1}
  Foci = {"urls", "hosts", "downloads", "agents", "referrers", "search",
         "users", "errors", "countries", "cities", "asn", "month"}
INVARIANTS
  AllVisibleReachable
  TopIsTop
  LinksLead
  EnginesAgree
  DaysReported
CHECK_DEADLOCK FALSE
