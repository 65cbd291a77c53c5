SPECIFICATION Spec
CONSTANTS
  KISS_FEED_TIMEOUT_MS = 1
  ClockRange = 4
  MaxBytes = 6
  Input <- MCInput
  Gaps <- MCGaps
INVARIANTS
  TypeOK
  FrameIffDelimited
  UnescapesTheSegment
  RelayRoundTrip
CHECK_DEADLOCK FALSE
