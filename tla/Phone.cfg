SPECIFICATION PhoneSpec
CONSTANTS
  BootTolerance = 1
  Drift = 1
  SleepTime = 2
  RestartTime = 3
  MaxLaunches = 3
  MaxDeviceRestarts = 1
  MaxSleeps = 1
  MaxPolicyChanges = 1
  MaxSessions = 2
  MaxLaunchFaults = 2
  MaxPackets = 7
  InitLength = 1
  Interval = 3
  NotificationCapacity = 2
  LinkBuffer = 2
  MaxDfuFaults = 2
  Devices = {"x", "y"}
  MaxUsbEfforts = 2
  MaxUsbFaults = 2
  Identities = {"i", "j"}
  MaxRequests = 2
  MaxViews = 2
  MaxPauses = 1
  MaxKills = 1
  MaxAuthorizations = 3
  MaxMishaps = 3
CHECK_DEADLOCK FALSE
INVARIANTS
  NodeNeedsUnlock
  ActivatesOnlyValidated
  UsbAttemptIsReaped
  BackupIsReclaimed
  NothingLeftBehind
PROPERTIES
  IdentityAsChosen
  BootstrapProgresses
  UpdateEnds
  UsbEffortEnds
  AnswersAreForTheLast
