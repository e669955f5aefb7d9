SPECIFICATION FairSpec
CONSTANTS
  Peripherals = {p1, p2}
  NoPeripheral = none
  CommandCapacity = 2
  EventCapacity = 2
  MaxTaps = 3
  MaxToggles = 2
  MaxLaunches = 2
CHECK_DEADLOCK FALSE
INVARIANTS
  NoUnaskedConnection
  DeadlinesAreArmed
  PumpOwnsAttempt
PROPERTIES
  EffortsEnd
