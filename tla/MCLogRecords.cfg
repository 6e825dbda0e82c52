\* Log files of every type, alone and interleaved.
SPECIFICATION Spec
CONSTANTS
  Normal <- MCNormal
  Lower <- MCLower
  LowerHost <- MCLowerHost
  Setups <- MCSetups
  Printed <- MCPrinted
INVARIANTS
  RequestRecorded
  TimeIsExact
PROPERTY
  RecordsInOrder
