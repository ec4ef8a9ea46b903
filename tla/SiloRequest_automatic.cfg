SPECIFICATION FairSpec
CONSTANTS
  DataSources = {d1, d2, d3}
  Manual = FALSE
  Faults <- AllButUpdates
  MaxMarks = 0
  MaxDeletions = 1
INVARIANT TypeOK
INVARIANT NoneForgotten
INVARIANT ResultSound
INVARIANT RowsShowVerdicts
PROPERTY ExecutedIsFinal
PROPERTY KeepsPromise
PROPERTY Finishes
CHECK_DEADLOCK FALSE
