SPECIFICATION LogSpec
CONSTANTS
  SizeOfBuffer = 5
  PrintfBufferSize = 2
  MainLengths = {2}
  HandlerLengths = {1, 3}
  LockMasks = FALSE
INVARIANTS
  LinesUnmixed
