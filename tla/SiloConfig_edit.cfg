SPECIFICATION Spec
CONSTANTS
  Users = {u1, u2}
  Schema <- TheKeys
  Values <- TheValues
  ApiInputs <- TheInputs
  Accepts <- HostIsGood
  Faults = {"run"}
SYMMETRY Alike
INVARIANT TypeOK
INVARIANT SecretsKept
INVARIANT ValidatedUnlessJoined
PROPERTY MergedAsMeant
CHECK_DEADLOCK FALSE
