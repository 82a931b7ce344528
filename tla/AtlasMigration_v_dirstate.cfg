CONSTANTS
  t1 = t1
  t2 = t2
  NoTarget = NoTarget
  Targets = {t1}
  DirKinds = {"local"}
  Flows <- OnlyDown
  BackoffLimit = 1
  MaxFailed = 2
  ManagedDevDB = FALSE
  Prewarm = FALSE
  FreshReads = TRUE
  FaultKinds = {"migrate"}
  MaxVersion = 2
  MaxEdits = 2
  MaxFaults = 1
  MaxCrashes = 0
SPECIFICATION Spec
INVARIANTS DownDirHasAllVersions
CHECK_DEADLOCK FALSE
