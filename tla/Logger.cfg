SPECIFICATION CardSpec
CONSTANT MaxStarts = 5
INVARIANTS
  CardTypeOK
  OneStartPerNumber
  NumberIsFresh
PROPERTIES
  LogsKept
CHECK_DEADLOCK FALSE
