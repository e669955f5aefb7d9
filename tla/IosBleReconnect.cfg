SPECIFICATION ReportingSpec
CONSTANTS
  Peripherals = {p1}
  NoPeripheral = none
  CommandCapacity = 2
  EventCapacity = 3
  MaxTaps = 3
  MaxToggles = 2
  MaxLaunches = 1
CHECK_DEADLOCK FALSE
PROPERTIES
  ReconnectIsAvailable
