SPECIFICATION FairRunSpec
CONSTANTS
  N = 3
  Slots = 2
  MaxRetries = 2
  Cap = 2
  Costs <- FreeOrNot
  MockCost = 1
  ProviderPairs <- SettingsPairs
CHECK_DEADLOCK FALSE
INVARIANTS
  NoSlotLost
  RetriesThenFailover
  SpendIsReported
PROPERTIES
  RunReturns
