CONSTANTS
  t1 = t1
  t2 = t2
  NoTarget = NoTarget
  Targets = {t1}
  DirKinds = {"configMap"}
  Flows <- OnlyDown
  BackoffLimit = 1
  MaxFailed = 2
  ManagedDevDB = FALSE
  Prewarm = FALSE
  FreshReads = TRUE
  FaultKinds = {}
  MaxVersion = 2
  MaxEdits = 1
  MaxFaults = 0
  MaxCrashes = 0
SPECIFICATION Spec
INVARIANTS DownHasLastVersion
CHECK_DEADLOCK FALSE
