SPECIFICATION FairSpec
CONSTANTS
  MaxAlarms = 1
  MaxEvents = 3
  Kinds <- MCKinds
INVARIANTS
  TypeOK
  ToTncWhole
  ToClientsWhole
PROPERTIES
  FrameIsFinished
CHECK_DEADLOCK FALSE
