SPECIFICATION FairSpec
CONSTANTS
  KISS_FEED_TIMEOUT_MS = 1
  ClockRange = 3
  BUFFER_SIZE = 6
  CALLS_SIZE = 4
  MaxFrames = 3
  WriteSizes = {2, 5}
  Contents <- MCContents
INVARIANTS
  TypeOK
  UnharmedIsExact
  UnharmedIsForwarded
  OncePerFrame
  OverrunIsJoined
PROPERTIES
  MailboxIsFreed
CHECK_DEADLOCK FALSE
