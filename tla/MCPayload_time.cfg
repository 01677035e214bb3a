SPECIFICATION PayloadSpec
CONSTANTS
  WordBits = 3
  Erased = 7
  PowerFailsInInit = FALSE
  RTC_FREQUENCY = 2
  CounterMod = 6
  OvfMod = 20
  BootMod = 4
  WordMod = 20
  Interval = 2
  MaxTicks = 26
INVARIANT TimeSinceBoot
