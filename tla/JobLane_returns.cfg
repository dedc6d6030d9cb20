SPECIFICATION FairSpec
CONSTANTS
  Jobs <- TwoMonitors
  KindOf <- MonitorKinds
  Offers <- AllTogether
  NoExec = NoExec
  BatchLimit = 2
  ReportRetries = 1
  PrincipalAttempts = 2
  ReconcileAttempts = 2
  DeleteAfterUpload = TRUE
  MaxLeases = 1
  MaxCrashes = 0
PROPERTIES
  LaneReturns
