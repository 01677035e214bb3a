SPECIFICATION PayloadSpec
CONSTANTS
  WordBits = 3
  Erased = 7
  PowerFailsInInit = TRUE
  RTC_FREQUENCY = 2
  CounterMod = 6
  OvfMod = 20
  BootMod = 4
  WordMod = 20
  Interval = 2
  MaxTicks = 26
INVARIANTS
  FlashDiscipline
  CountsBoots
PROPERTY BlocksGetNewer
