SPECIFICATION SystemSpec
CONSTANTS
  s1 = s1
  s2 = s2
  d1 = d1
  d2 = d2
  d3 = d3
  Silos = {s1, s2}
  SourcesOf <- TwoAndOne
  ManualSilos = {s2}
  Executions = {e1}
  NoJob = NoJob
  Faults <- OtherFaults
  MaxCancels = 1
  MaxSignals = 1
INVARIANT JobTellsVerdicts
PROPERTY SignalReachesChild
PROPERTY JobSettles
CHECK_DEADLOCK FALSE
