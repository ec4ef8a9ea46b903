SPECIFICATION Spec
CONSTANTS
  DataSources = {d1, d2}
  Manual = FALSE
  Faults = {}
  MaxMarks = 0
  MaxDeletions = 0
INVARIANT ProgressRevisited
CHECK_DEADLOCK FALSE
