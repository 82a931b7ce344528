CONSTANTS
  t1 = t1
  t2 = t2
  NoTarget = NoTarget
  Targets = {t1}
  DirKinds = {"local"}
  Flows <- NoDown
  BackoffLimit = 1
  MaxFailed = 2
  ManagedDevDB = FALSE
  Prewarm = FALSE
  FreshReads = TRUE
  FaultKinds = {"migrate"}
  MaxVersion = 2
  MaxEdits = 1
  MaxFaults = 3
  MaxCrashes = 0
SPECIFICATION Spec
PROPERTIES RetriedBeforeGivingUp
CHECK_DEADLOCK FALSE
