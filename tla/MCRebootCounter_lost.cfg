SPECIFICATION RebootSpec
CONSTANTS
  WordBits = 3
  Erased = 7
  PowerFailsInInit = TRUE
INVARIANT CounterKeepsUp
