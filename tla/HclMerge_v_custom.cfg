SPECIFICATION Spec
CONSTANTS
  Owners = {}
  Lazy = {}
  MayPrewarm = {}
  Foreign = {}
  BackoffLimit = 1
  DevFaults = {}
  MaxDevFaults = 0
  MaxChanges = 0
  MaxDeletions = 0
  MaxDevCrashes = 0
  Objects = {"x"}
  Dependents = {}
  Unwatched = {}
  MaxObjectChanges = 0
  MaxRefEdits = 0
  MaxRestarts = 0
  Retry = 1
  MaxDelay = 1
  Horizon = 0
  MaxReplans = 0
  MaxEvents = 0
  MaxErrors = 0
  Ids = {}
  Extensions = {}
  Ranks = {}
  MaxFindings = 0
  Uses = {"schema"}
  SchemaConfigs <- AnySchemaConfig
  ScanConfigs <- AnyScanConfig
INVARIANTS
  AnyOrderIsReviewed
  AlwaysIsReadable
CHECK_DEADLOCK FALSE
