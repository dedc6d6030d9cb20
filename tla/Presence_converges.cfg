SPECIFICATION FairSpec
CONSTANTS
  asterisk = asterisk
  freeswitch = freeswitch
  k1 = k1
  k2 = k2
  Engines = {asterisk, freeswitch}
  Keys = {k1, k2}
  EngineOf <- OneEach
  Values = {none, home}
  Absent = none
  none = none
  home = home
  away = away
  EnginesFail = TRUE
  LateDelivery = TRUE
  MaxChanges = 2
  MaxFaults = 2
  MaxRestarts = 1
PROPERTIES
  OnlyObservedStates
  Converges
