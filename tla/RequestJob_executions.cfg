SPECIFICATION Spec
CONSTANTS
  Silos = {s1, s2}
  ManualSilos = {}
  Executions = {e1, e2}
  NoJob = NoJob
  Faults <- EveryFault
  MaxCancels = 1
  MaxSignals = 1
SYMMETRY Alike
INVARIANT TypeOK
INVARIANT JobSound
INVARIANT NoneOrphaned
CHECK_DEADLOCK FALSE
