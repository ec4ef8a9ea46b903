SPECIFICATION Spec
CONSTANTS
  d1 = d1
  d2 = d2
  s1 = s1
  DataSources = {d1, d2}
  Silos = {s1}
  SiloOf <- OneSilo
  Calls = {c1, c2, c3}
  Faults <- EveryFault
  MaxResults = 2
  MaxObjects = 2
  MaxFiles = 2
SYMMETRY Alike
INVARIANT TypeOK
INVARIANT ReturnedIsComplete
INVARIANT LinksServed
INVARIANT ArchiveFaithful
CHECK_DEADLOCK FALSE
