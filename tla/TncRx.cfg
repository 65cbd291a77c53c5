SPECIFICATION FairSpec
CONSTANTS
  KISS_FEED_TIMEOUT_MS = 1
  ClockRange = 3
  MaxFrames = 3
  KISS_BUFFER_SIZE = 3
  Contents <- MCContents
INVARIANTS
  TypeOK
  OnlySentFrames
  BufferBound
  HeardIsComplete
PROPERTIES
  CompletedIsHandled
  ImplementsLossyFrames
CHECK_DEADLOCK FALSE
