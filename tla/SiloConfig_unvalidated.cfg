SPECIFICATION Spec
CONSTANTS
  Users = {u1}
  Schema <- TheKeys
  Values <- TheValues
  ApiInputs <- TheInputs
  Accepts <- HostIsGood
  Faults = {}
INVARIANT SavedIsValidated
CHECK_DEADLOCK FALSE
