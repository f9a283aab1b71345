CONSTANTS
  Budget = 18
  Reserve <- SmallReserve
  SoftLimit = 2
  HardLimit = 2
  MaxBatches = 2
  RowsPerRound = 2
  Heavy = {3, 4}
  Page = 2
  Chunk = 2
  Settings <- Both
  Fallback <- OnlyTrim
  Backlogs <- SmallBacklogs
  MaxArrivals = 1
  MaxFaults = 1
SPECIFICATION FairSpec
INVARIANTS
  PhaseGetsReserve
  BudgetNearlyHolds
  StampsAreTrue
PROPERTIES
  NeverSkipsSilently
  BacklogDrains
