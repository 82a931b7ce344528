CONSTANTS
  t1 = t1
  t2 = t2
  a = a
  b = b
  NoPlan = NoPlan
  Targets = {t1}
  Tables = {a, b}
  Kinds = {"inline"}
  Clouds = {"none"}
  Policies <- NoPolicy
  BackoffLimit = 1
  MaxFailed = 2
  ManagedDevDB = FALSE
  Prewarm = FALSE
  FreshReads = TRUE
  InitialDBs <- EmptyDB
  FaultKinds = {"apply"}
  MaxEdits = 0
  MaxFaults = 1
  MaxCrashes = 0
  MaxDrifts = 0
  MaxReviews = 0
SPECIFICATION FairSpec
PROPERTIES Converges
CHECK_DEADLOCK FALSE
