SPECIFICATION PrintfSpec
CONSTANTS
  Capacity = 6
  Terminals = {0, 1}
  MaxText = 2
  WordMod = 256
  PrintfBufferSize = 3
  PointerDigits = 2
  Values <- SomeValues
  Widths = {0, 5}
  Precisions = {0, 2, 3}
  Lengths = {0, 3, 7}
INVARIANT ResultCounts
