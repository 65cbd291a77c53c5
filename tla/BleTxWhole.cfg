SPECIFICATION Spec
CONSTANTS
  KISS_FEED_TIMEOUT_MS = 1
  ClockRange = 3
  BUFFER_SIZE = 6
  CALLS_SIZE = 4
  MaxFrames = 2
  WriteSizes = {2, 3, 5}
  Contents <- MCContents
INVARIANTS
  OnlyClientFrames
CHECK_DEADLOCK FALSE
