SPECIFICATION ComposerSpec
CONSTANTS
  Peers = {"a", "b"}
  Announced = {"a", "b"}
  MessageCapacity = 5
  MaxKeys = 0
  MaxMessageTaps = 5
  MaxUpsets = 0
CHECK_DEADLOCK FALSE
INVARIANTS
  OneSendInFlight
