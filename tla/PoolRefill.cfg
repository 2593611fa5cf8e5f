SPECIFICATION FairSpec
CONSTANTS
  ConfigSize = 3
  ConfigConcurrency = 2
  AutoRefill = TRUE
  StartRaces = FALSE
  MaxCalls = 1
  MaxFailures = 1
  MaxPauses = 1
  MaxSignaling = 2
INVARIANTS
  PoolInv
  RoomForEveryGeneration
  ConcurrencyBound
  CloseStopsWorkers
PROPERTIES
  PauseHolds
  CloseTerminates
  Refilled
CHECK_DEADLOCK FALSE
