SPECIFICATION Spec
CONSTANTS
  Jobs <- JobOfEachKind
  KindOf <- KindItself
  Offers <- Together
  NoExec = NoExec
  BatchLimit = 2
  ReportRetries = 1
  PrincipalAttempts = 2
  ReconcileAttempts = 2
  DeleteAfterUpload = TRUE
  MaxLeases = 2
  MaxCrashes = 1
INVARIANTS
  IInv
  RecordingKeptUntilConfirmed
  FailureOnlyOfFailedWork
  NeverLeftRunning
PROPERTIES
  WorkBeginsOncePerLease
  RefinesJobLife
