SPECIFICATION Spec
CONSTANTS
  ConfigSize = 0
  ConfigConcurrency = 4
  AutoRefill = TRUE
  StartRaces = TRUE
  MaxCalls = 0
  MaxFailures = 0
  MaxPauses = 0
  MaxSignaling = 2
INVARIANTS
  CloseStopsWorkers
CHECK_DEADLOCK FALSE
