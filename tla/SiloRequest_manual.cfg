SPECIFICATION FairSpec
CONSTANTS
  DataSources = {d1, d2}
  Manual = TRUE
  Faults = {"start", "update"}
  MaxMarks = 2
  MaxDeletions = 1
PROPERTY MarkIsNoticed
CHECK_DEADLOCK FALSE
