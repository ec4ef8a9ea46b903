SPECIFICATION FairSpec
CONSTANTS
  Activities <- EveryActivity
  Faults <- EveryFault
  MaxLines = 2
INVARIANT TypeOK
INVARIANT LinesKept
INVARIANT EndsWell
INVARIANT TornDown
PROPERTY Returns
CHECK_DEADLOCK FALSE
