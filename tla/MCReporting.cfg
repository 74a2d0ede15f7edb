SPECIFICATION Spec
CONSTANTS
  Backends = {"pi", "low"}
  Texts = {"a", "b"}
  Repairs = 0
  MaxLease = 2
  MaxCalls = 2
  MaxFailures = 1
  MaxEvents = 1
INVARIANT JudgedByItsOwn
PROPERTY ReportEndsWork
PROPERTY ReportsAreTaken
CHECK_DEADLOCK FALSE
