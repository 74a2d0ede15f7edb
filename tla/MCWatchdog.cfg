SPECIFICATION FairSpec
CONSTANTS
  MaxSteps = 2
  MaxRecoveries = 1
  MaxNudges = 1
  MaxWaits = 2
  FallbackAfter = 1
  Fallbacks = 1
  MaxRepairs = 1
  MaxMain = 1
  MaxSteers = 2
  Ends <- Every
  Calls <- Any
  MaxCalls = 1
INVARIANT BudgetsHold
INVARIANT SteersExact
PROPERTY HeldIsSeen
PROPERTY LadderEnds
CHECK_DEADLOCK FALSE
