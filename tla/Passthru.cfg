SPECIFICATION FairSpec
CONSTANTS
  PASSTHRU_UART_BUFFER_SIZE = 2
  PASSTHRU_USB_BUFFER_SIZE = 2
  CdcSize = 1
  MaxBytes = 3
INVARIANTS
  TypeOK
  ToTncExact
PROPERTIES
  KeptInOrder
  ImplementsLossyBytes
  HostByteArrives
  TncByteArrives
CHECK_DEADLOCK FALSE
