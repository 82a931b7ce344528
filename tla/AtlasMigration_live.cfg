CONSTANTS
  t1 = t1
  t2 = t2
  NoTarget = NoTarget
  Targets = {t1}
  DirKinds = {"local", "configMap"}
  Flows <- SomeFlow
  BackoffLimit = 0
  MaxFailed = 1
  ManagedDevDB = TRUE
  Prewarm = FALSE
  FreshReads = TRUE
  FaultKinds = {"extract", "devdb", "migrate", "store"}
  MaxVersion = 2
  MaxEdits = 1
  MaxFaults = 1
  MaxCrashes = 1
SPECIFICATION FairSpec
PROPERTIES Converges
CHECK_DEADLOCK FALSE
