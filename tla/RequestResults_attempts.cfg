SPECIFICATION Spec
CONSTANTS
  DataSources = {d1, d2}
  IsQuery = TRUE
  Faults <- EveryFault
  MaxAttempts = 2
  MaxRecords = 1
  MaxGivenUp = 2
SYMMETRY Alike
INVARIANT TypeOK
INVARIANT TrustedOnly
INVARIANT AnswersHaveHandles
INVARIANT ResultOnce
INVARIANT DoneHasResult
CHECK_DEADLOCK FALSE
