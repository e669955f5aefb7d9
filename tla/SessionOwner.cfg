SPECIFICATION SessionSpec
CONSTANTS
  ActionCapacity = 1
  EventCapacity = 2
  MaxTaps = 1
  MaxExports = 1
  MaxChanges = 1
  MaxRestarts = 1
  MaxNodes = 2
  MaxFaults = 1
  MaxFacts = 2
  MaxReadFaults = 1
CHECK_DEADLOCK FALSE
INVARIANTS
  TypeOK
  SnapshotOfOneGeneration
  GenerationNamesBackend
  ActsOnWhatWasShown
  OwnerIsNotAhead
PROPERTIES
  ViewNeverGoesBack
  ViewCatchesUp
  ExportAnswered
  FactsNeverGoBack
  FactsAreShown
