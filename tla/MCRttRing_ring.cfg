SPECIFICATION RunningSpec
CONSTANTS
  SizeOfBuffer = 4
  MaxBytes = 5
  MaxOverwrite = 3
  ReadSizes = {1, 2, 4}
  Numbers = 5
INVARIANTS
  RingTypeOK
  ReadIsPrefix
PROPERTIES
  UnreadUntouched
  MessagesWhole
  ImplementsFifo
  NonBlockingReturns
  CallsReturn
