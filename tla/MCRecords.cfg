SPECIFICATION RecordsSpec
CONSTANTS
  Plan = 2
  FinalOnly = FALSE
  MaxRevisions = 2
  PerStep = 1
  MaxReplans = 1
  AutoRepairs = 2
  RepairsKept = 1
  HistoryKept = 2
  MaxTasks = 2
  MaxReports = 2
  MaxIds = 3
  Failures <- Failing
  Events <- Every
  MaxEvents = 3
INVARIANT RecordsAgree
INVARIANT LoadsAgain
INVARIANT DecisionsCountOnce
INVARIANT ActivationsAreSaved
CHECK_DEADLOCK FALSE
