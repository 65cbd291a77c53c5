SPECIFICATION FairSpec
CONSTANTS
  ClientSets <- MCClientSets
  Lens <- MCLens
  MaxFrames = 2
  MaxAlarms = 1
INVARIANTS
  TypeOK
  SentUnmixed
  AtMostOnce
  InFlightWhileAttached
PROPERTIES
  BufferIsFreed
CHECK_DEADLOCK FALSE
