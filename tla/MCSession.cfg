SPECIFICATION SessionSpec
CONSTANTS
  MaxRuns = 1
  MaxStray = 1
  MaxTurns = 1
  MaxRetries = 1
  MaxCompact = 1
  MaxStops = 1
  Allowance = TRUE
  Quick = TRUE
  Crowded = TRUE
INVARIANT IdleIsKnown
INVARIANT OwnRunKept
PROPERTY StopMeansStopped
CHECK_DEADLOCK FALSE
