SPECIFICATION FairSpec
CONSTANTS
  MaxPackets = 2
  Chunks = 2
  StartWrites = 1
  MaxResponses = 1
  ReadCapacity = 2
  MaxHeard = 3
  MaxAttempts = 2
INVARIANTS
  TypeOK
  OfferNotStranded
  CallbackNamesPendingWrite
  GapIsNoticed
PROPERTIES
  DeliversRetained
  PumpStops
  StableAttemptDelivers
