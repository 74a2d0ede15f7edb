SPECIFICATION Spec
CONSTANTS
  s1 = s1
  s2 = s2
  Session = {s1, s2}
  Disks <- AnyFiles
  MaxEdits = 2
  MaxFaults = 1
SYMMETRY Symmetry
INVARIANT SettingsAreInForce
INVARIANT ConsentIsExplicit
PROPERTY FilesKeepTheirs
CHECK_DEADLOCK FALSE
