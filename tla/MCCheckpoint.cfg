SPECIFICATION Spec
CONSTANTS
  NFiles = 2
  Links = {2}
  Plan = 1
  NChecks = 1
  RequirePassing = FALSE
  AutoRepairs = 1
  FreezeAttempts = 2
  Retained = 1
  MaxTasks = 2
  MaxReports = 2
  MaxWrites = 2
  MaxEvents = 1
  MaxSum = 2
INVARIANT CheckpointsAreReal
INVARIANT ReviewsTile
INVARIANT EvidenceKept
CHECK_DEADLOCK FALSE
