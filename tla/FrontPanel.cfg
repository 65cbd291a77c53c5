SPECIFICATION FairSpec
CONSTANTS
  pulse_on_ms = 1
  pulse_off_ms = 2
  ClockRange = 16
  CallLen = 2
  IdleMs = 9
  BusyMs = 11
  CMD_BUFFER_SIZE = 7
  Scenes <- MCScenes
INVARIANTS
  TypeOK
  PulsesSpellTheLetter
  ShownIsSent
  CommandIsTyped
PROPERTIES
  LedGoesOff
CHECK_DEADLOCK FALSE
