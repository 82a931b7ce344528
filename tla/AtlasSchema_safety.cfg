CONSTANTS
  t1 = t1
  t2 = t2
  a = a
  b = b
  NoPlan = NoPlan
  Targets = {t1, t2}
  Tables = {a}
  Kinds = {"inline", "configMap"}
  Clouds = {"none"}
  Policies <- LintPolicy
  BackoffLimit = 1
  MaxFailed = 2
  ManagedDevDB = FALSE
  Prewarm = FALSE
  FreshReads = FALSE
  InitialDBs <- AnyDB
  FaultKinds = {"cli", "whoami", "apply", "write"}
  MaxEdits = 2
  MaxFaults = 1
  MaxCrashes = 1
  MaxDrifts = 0
  MaxReviews = 0
SYMMETRY Symmetry
SPECIFICATION Spec
INVARIANTS
  ObservedReadyIsDeployed
PROPERTIES
  FirstRunIsAdditive
CHECK_DEADLOCK FALSE
