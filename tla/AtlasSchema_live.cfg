CONSTANTS
  t1 = t1
  t2 = t2
  a = a
  b = b
  NoPlan = NoPlan
  Targets = {t1}
  Tables = {a}
  Kinds = {"inline", "configMap"}
  Clouds = {"none", "repo"}
  Policies <- NoPolicy
  BackoffLimit = 0
  MaxFailed = 1
  ManagedDevDB = TRUE
  Prewarm = FALSE
  FreshReads = TRUE
  InitialDBs <- AnyDB
  FaultKinds = {"extract", "devdb", "inspect", "reports", "cleanup"}
  MaxEdits = 1
  MaxFaults = 1
  MaxCrashes = 1
  MaxDrifts = 0
  MaxReviews = 0
SPECIFICATION FairSpec
INVARIANTS
  TypeOK
PROPERTIES Converges
CHECK_DEADLOCK FALSE
