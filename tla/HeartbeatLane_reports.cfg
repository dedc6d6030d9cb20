SPECIFICATION FairSpec
CONSTANTS
  MaxVersion = 2
  MaxChanges = 2
  MaxFaults = 1
INVARIANTS
  FreshAfterCleanUpdate
PROPERTIES
  HostConverges
  PostureConverges
