SPECIFICATION Spec
CONSTANTS
  d1 = d1
  d2 = d2
  b1 = b1
  Domains = {}
  Bases = {b1}
  None = None
  Lists <- EmptyOnly
  NoList <- Empty
  MaxRev = 1
  MaxCert = 1
  MaxEnv = 0
  MaxFaults = 1
  MaxCrashes = 0
INVARIANTS
  CompletedEnsureServed
