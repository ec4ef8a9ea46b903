SPECIFICATION Spec
CONSTANTS
  Names = {n1}
  Props = {p1}
  None = None
  Jobs = {j1, j2}
  Users = {u1}
  Faults <- EveryFault
  MaxTries = 2
  MaxEvents = 2
  MaxRows = 6
INVARIANT TypeOK
INVARIANT NoDuplicateOpen
INVARIANT ScanAccounts
 
CHECK_DEADLOCK FALSE
