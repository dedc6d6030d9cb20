SPECIFICATION Spec
CONSTANTS
  Ids = {h1}
  MaxRuns = 1
  MaxFaults = 1
  MaxCrashes = 0
INVARIANTS
  EveryChallengeReleased
CHECK_DEADLOCK FALSE
