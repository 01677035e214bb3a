SPECIFICATION Spec
CONSTANTS
  XtalPresent = FALSE
  RTC_FREQUENCY = 2
  CounterMod = 5
  OvfMod = 1
  IvBytes = 2
  RngOverrun = TRUE
  CollectTicks = 1
  IvTags = 2
  BleInterval = 2
  AesInterval = 1
INVARIANT IndexInBounds
