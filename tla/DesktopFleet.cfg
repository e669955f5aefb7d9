SPECIFICATION ScreensSpec
CONSTANTS
  Records = {}
  Messages = {}
  Devices = {}
  Capabilities = {"rpc.status", "messaging.history.read", "chat.send", "messaging.lifecycle", "rpc.exec", "network.probe"}
  TimelineCapacity = 2
  TransientCapacity = 3
  EventCapacity = 4
  CommandCapacity = 3
  FrameCapacity = 1
  Followed <- OneCollection
  ObservedKinds = {}
  Own = {}
  MaxEffort = 4
  FleetCapabilities = {}
  NetworkCapabilities = {}
  Runtimes = {"live"}
  Grants <- NoGrant
  MaxRuns = 0
  MaxLabTaps = 0
  MaxContexts = 0
  MaxLabFaults = 0
  Addresses = {a1}
  PageQueue = 1
  MaxPageTaps = 0
  MaxAnswers = 0
  MaxProfiles = 0
  MaxPageFaults = 0
  Peers = {"a"}
  Announced = {}
  MessageCapacity = 1
  MaxKeys = 0
  MaxMessageTaps = 0
  MaxUpsets = 0
  ReducerPeers = {"p"}
  MaxBackendChanges = 1
  MaxGenerations = 2
CHECK_DEADLOCK FALSE
INVARIANTS
  JobsEnd
