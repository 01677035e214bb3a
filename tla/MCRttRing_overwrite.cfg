SPECIFICATION RingSpec
CONSTANTS
  SizeOfBuffer = 4
  MaxBytes = 3
  MaxOverwrite = 8
  ReadSizes = {1, 4}
  Numbers = 5
PROPERTY OverwriteFills
