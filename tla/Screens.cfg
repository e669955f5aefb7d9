SPECIFICATION ScreensSpec
CONSTANTS
  Records = {r1}
  Messages = {m1, m2}
  Devices = {d1}
  Capabilities = {"rpc.status", "messaging.history.read", "chat.send", "messaging.lifecycle", "rpc.exec", "network.probe"}
  TimelineCapacity = 3
  TransientCapacity = 3
  EventCapacity = 4
  CommandCapacity = 3
  FrameCapacity = 1
  Followed <- OneCollection
  ObservedKinds = {"links"}
  Own = {m2}
  MaxEffort = 3
  FleetCapabilities = {"rpc.exec"}
  NetworkCapabilities = {"network.link_close"}
  Runtimes = {"live", "fixture"}
  Grants <- AllOrNothing
  MaxRuns = 2
  MaxLabTaps = 3
  MaxContexts = 1
  MaxLabFaults = 1
  Addresses = {a1, a2}
  PageQueue = 2
  MaxPageTaps = 4
  MaxAnswers = 2
  MaxProfiles = 1
  MaxPageFaults = 1
  Peers = {"a", "b"}
  Announced = {"a"}
  MessageCapacity = 2
  MaxKeys = 2
  MaxMessageTaps = 2
  MaxUpsets = 1
  ReducerPeers = {"p"}
  MaxBackendChanges = 3
  MaxGenerations = 3
CHECK_DEADLOCK FALSE
INVARIANTS
  ShownIsNegotiated
  GapReloadsMessages
  TypedIsKept
  ThreadIsActive
  LoadingIsAnswered
PROPERTIES
  LiveOutlivesPage
  OutcomeReachesPage
  FormStaysHere
  UpdatesAreFenced
