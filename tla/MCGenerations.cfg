SPECIFICATION Spec
CONSTANTS
  s1 = s1
  s2 = s2
  Nobody = Nobody
  Worker = {w1, w2}
  Slot = {s1, s2}
  Kinds <- BesideStart
  MaxGen = 2
  MaxEpoch = 2
SYMMETRY Symmetry
CONSTRAINT OneLater
INVARIANT OneWriter
INVARIANT ProcessesAreKnown
INVARIANT NobodyIsStuck
CHECK_DEADLOCK FALSE
