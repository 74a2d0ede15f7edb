SPECIFICATION LockSpec
CONSTANTS
  p1 = p1
  p2 = p2
  p3 = p3
  Procs = {p1, p2, p3}
  SessionOf <- MCSessionOf
INVARIANT SoleOwner
PROPERTY TakeoversAreRight
CHECK_DEADLOCK FALSE
