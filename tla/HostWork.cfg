SPECIFICATION HostSpec
CONSTANTS
  Window = 2
  Ceiling = 2
  Patience = 1
  MaxTick = 1
  NoTime = NoTime
  NoSample = NoSample
  MaxSecond = 5
  MaxStarts = 3
  MaxStepsBack = 1
  Blocks = {x, y}
  MaxSize = 2
  NoFile = NoFile
  MaxWrites = 2
  MaxFileJobs = 1
  MaxFileStops = 1
  Tags = {t1}
  Commits = {c1, c2}
  Digests = {s1, s2}
  NoEntry = NoEntry
  KeepReleases = 1
  KeepBackups = 1
  MinAgeDays = 0
  MaxDay = 2
  MaxSchemaJobs = 3
  MaxMishaps = 1
  PabxJobs = {p1}
  NoPabxJob = NoPabxJob
  MaxLeases = 2
  MaxChain = 1
  MaxPabxStops = 1
  Artifacts = {f1, f2}
  Addresses = {a1, a2}
  Absent = Absent
  Torn = Torn
  MaxApplies = 2
  MaxDecisions = 3
  MaxSecStops = 1
  Budget = 1
  MaxOutput = 2
  Tables = {r1, r2}
  NoTable = NoTable
  Sizes = {10}
  Purged = {0, 1}
  Spaces = {11}
  CopyStep = 10
  MaxGrowth = 1
  MaxMaintJobs = 2
  MaxDeaths = 1
SYMMETRY HostSymmetry
INVARIANTS
  HostTypeOK
  SampleIsPeak
  SentIsOneVersion
  RemovedWasChecked
  DestinationPreserved
  OneSourcePerTag
  AppliesLastPlan
  AcceptedIsLatest
  MutatesOnceConfirmed
  LeftPolicyValidated
  NeverCutIntoSuccess
  RebuildHasRoom
PROPERTIES
  PruneKeepsRecentPlans
  ListedStaysBlocked
  CommandsRefineJobLife
CHECK_DEADLOCK FALSE
