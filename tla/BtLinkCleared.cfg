SPECIFICATION Spec
CONSTANTS
  ClientSets <- MCBleOnly
  Lens <- MCShort
  MaxFrames = 2
  MaxAlarms = 1
PROPERTIES
  ClearedWhenSent
CHECK_DEADLOCK FALSE
