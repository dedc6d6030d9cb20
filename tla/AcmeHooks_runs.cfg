SPECIFICATION FairSpec
CONSTANTS
  Ids = {h1, h2}
  MaxRuns = 2
  MaxFaults = 2
  MaxCrashes = 1
INVARIANTS
  ValidatedWhileVisible
  AnsweredAreReleased
PROPERTIES
  RunEnds
CHECK_DEADLOCK FALSE
