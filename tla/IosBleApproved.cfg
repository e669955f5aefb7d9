SPECIFICATION Spec
CONSTANTS
  Peripherals = {p1, p2}
  NoPeripheral = none
  CommandCapacity = 2
  EventCapacity = 6
  MaxTaps = 4
  MaxToggles = 0
  MaxLaunches = 1
CHECK_DEADLOCK FALSE
INVARIANTS
  PumpedIsApproved
