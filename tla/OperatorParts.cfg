SPECIFICATION FairSpec
CONSTANTS
  Owners = {"schema", "migration"}
  Lazy = {"migration"}
  MayPrewarm = {"schema"}
  Foreign = {}
  BackoffLimit = 1
  DevFaults = {"get", "update", "list", "delete"}
  MaxDevFaults = 1
  MaxChanges = 1
  MaxDeletions = 1
  MaxDevCrashes = 1
  Objects = {"x", "y"}
  Dependents = {"a", "b"}
  Unwatched = {}
  MaxObjectChanges = 1
  MaxRefEdits = 1
  MaxRestarts = 1
  Retry = 1
  MaxDelay = 6
  Horizon = 15
  MaxReplans = 1
  MaxEvents = 1
  MaxErrors = 2
  Ids = {"a", "b"}
  Extensions = {"x", "y"}
  Ranks = {0, 1}
  MaxFindings = 3
  Uses = {"schema", "scan"}
  SchemaConfigs <- AnySchemaConfig
  ScanConfigs <- AnyScanConfig
INVARIANTS
  NothingLeftRunning
  RegisteredAtRest
  PickedUpInTime
  PollsAreFew
  VerdictIsOfTheReport
  SummaryIsComplete
  PolicyIsTheResources
  HelpersSeeTheFile
  ConnectedIsReviewed
PROPERTIES
  ImplementsService
  EveryOwnerIsServed
  EveryChangeArrives
CHECK_DEADLOCK FALSE
