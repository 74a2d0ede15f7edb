SPECIFICATION FairSpec
CONSTANTS
  Command <- MCRun
  OnControl = {"ping"}
  Observed = {"prompt"}
  Signalled = {"prompt", "steer", "dialog"}
  Dialogs = {"dialog"}
  NORMAL_REQUESTS = 2
  CONTROL_REQUESTS = 2
  NORMAL_WRITES = 2
  CONTROL_WRITES = 1
CONSTRAINT FewAtOnce
INVARIANT OutcomesAreTrue
INVARIANT LanesBalanced
PROPERTY OrdinaryLaneHeld
PROPERTY IdleEndIsClean
PROPERTY CallsSettle
CHECK_DEADLOCK FALSE
