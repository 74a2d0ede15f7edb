SPECIFICATION FairSpec
CONSTANTS
  MaxReports = 1
  MaxAttempts = 2
  Cap = 1
  AutoModes <- OnlyAuto
  Outcomes = {"completed", "aborted"}
  Events = {"input", "loss", "compaction", "navigation", "human", "restart"}
  MaxEvents = 1
INVARIANT NoticesAreTrue
PROPERTY NoSecondCopy
PROPERTY ArmedOfferIsQuiet
PROPERTY ActivatedOnBranch
PROPERTY ReportReaches
CHECK_DEADLOCK FALSE
