SPECIFICATION Spec
CONSTANTS
  s1 = s1
  s2 = s2
  Nobody = Nobody
  Worker = {w1}
  Slot = {s1, s2}
  Kinds <- Recoveries
  MaxGen = 3
  MaxEpoch = 3
INVARIANT OneWriter
CHECK_DEADLOCK FALSE
