CONSTANTS
  t1 = t1
  NoTarget = NoTarget
  Targets = {t1, t2}
  t2 = t2
  DirKinds = {"local"}
  Flows <- SomeFlow
  BackoffLimit = 1
  MaxFailed = 2
  ManagedDevDB = FALSE
  Prewarm = FALSE
  FreshReads = FALSE
  FaultKinds = {"connect", "migrate", "store", "write"}
  MaxVersion = 1
  MaxEdits = 2
  MaxFaults = 1
  MaxCrashes = 1
SPECIFICATION Spec
INVARIANTS ObservedReadyIsDeployed
CHECK_DEADLOCK FALSE
