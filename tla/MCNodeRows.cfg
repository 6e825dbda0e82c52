SPECIFICATION Spec
CONSTANTS
  Classes <- AllClasses
  Lengths = {0, 3}
  Stamps = {"null", "utc", "local"}
  MaxRows = 2
CHECK_DEADLOCK FALSE
INVARIANTS
  RowsReadBack
  IndexKeysAreFields
