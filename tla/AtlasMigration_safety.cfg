CONSTANTS
  t1 = t1
  t2 = t2
  NoTarget = NoTarget
  Targets = {t1}
  DirKinds = {"local", "configMap", "remote"}
  Flows <- AnyFlow
  BackoffLimit = 1
  MaxFailed = 2
  ManagedDevDB = TRUE
  Prewarm = FALSE
  FreshReads = TRUE
  FaultKinds = {"extract", "connect", "status", "devdb", "render", "migrate", "store", "write", "cleanup"}
  MaxVersion = 2
  MaxEdits = 1
  MaxFaults = 1
  MaxCrashes = 1
SPECIFICATION Spec
INVARIANTS TypeOK ReadyMeansDeployed
PROPERTIES DowngradeIsAllowed ImplementsDeployment
CHECK_DEADLOCK FALSE
