SPECIFICATION Spec
CONSTANTS
  asterisk = asterisk
  freeswitch = freeswitch
  k1 = k1
  k2 = k2
  Engines = {asterisk, freeswitch}
  Keys = {k1, k2}
  EngineOf <- OneEach
  Values = {none, home, away}
  Absent = none
  none = none
  home = home
  away = away
  EnginesFail = FALSE
  LateDelivery = FALSE
  MaxChanges = 2
  MaxFaults = 2
  MaxRestarts = 1
INVARIANTS
  IInv
  AppliedReportIsComplete
