SPECIFICATION Spec
CONSTANTS
  MaxVersion = 2
  MaxChanges = 0
  MaxFaults = 0
INVARIANTS
  UpdateSeenAtOnce
