SPECIFICATION Spec
CONSTANTS
  MaxAttempts = 2
  MaxLines = 2
  MaxEmpty = 0
  Faults <- EveryFault
INVARIANT TypeOK
INVARIANT NothingLost
INVARIANT LogIsTrue
PROPERTY LinesArrive
CHECK_DEADLOCK FALSE
