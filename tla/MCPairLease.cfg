SPECIFICATION FairSpec
CONSTANTS
  ReportKinds = {"review"}
  Callers = {"pause", "cancel"}
  IdleCalls = FALSE
  Watchdog = TRUE
  MaxLease = 2
  MaxGen = 2
  MaxIntent = 2
INVARIANT QuietWorkspace
INVARIANT HeldReportIsLatest
INVARIANT LeasesAreHeld
PROPERTY ImplementsAssignment
PROPERTY LeasesResolve
CHECK_DEADLOCK FALSE
