SPECIFICATION PhoneSpec
CONSTANTS
  BootTolerance = 1
  Drift = 1
  SleepTime = 2
  RestartTime = 3
  MaxLaunches = 1
  MaxDeviceRestarts = 0
  MaxSleeps = 0
  MaxPolicyChanges = 0
  MaxSessions = 1
  MaxLaunchFaults = 1
  MaxPackets = 1
  InitLength = 1
  Interval = 1
  NotificationCapacity = 1
  LinkBuffer = 1
  MaxDfuFaults = 0
  Devices = {"x", "y"}
  MaxUsbEfforts = 0
  MaxUsbFaults = 0
  Identities = {"i"}
  MaxRequests = 0
  MaxViews = 1
  MaxPauses = 0
  MaxKills = 0
  MaxAuthorizations = 0
  MaxMishaps = 0
CHECK_DEADLOCK FALSE
INVARIANTS
  RestoreIsReported
