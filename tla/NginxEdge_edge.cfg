SPECIFICATION EdgeSpec
CONSTANTS
  d1 = d1
  d2 = d2
  b1 = b1
  Domains = {d1, d2}
  Bases = {b1}
  None = None
  Lists <- BothLists
  NoList <- Empty
  MaxRev = 2
  MaxCert = 2
  MaxEnv = 1
  MaxFaults = 1
  MaxCrashes = 2
INVARIANTS
  ServedCertificatesExist
  ModesFollowList
  FilesLoadable
  CompletedIsServed
  MarkerMeansRendered
