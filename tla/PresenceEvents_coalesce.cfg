SPECIFICATION FairSpec
CONSTANTS
  Engines = {asterisk, freeswitch}
  Debounce = 1
  MinInterval = 3
  MaxChanges = 2
  MaxDrops = 2
  MaxFailures = 1
INVARIANTS
  TimerKeepsInterval
PROPERTIES
  RefinesFairWakeups
  ChangesAreRead
