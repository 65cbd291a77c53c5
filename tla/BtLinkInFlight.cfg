SPECIFICATION Spec
CONSTANTS
  ClientSets <- MCBleOnly
  Lens <- MCShort
  MaxFrames = 1
  MaxAlarms = 1
INVARIANTS
  QueuedIsInFlight
CHECK_DEADLOCK FALSE
