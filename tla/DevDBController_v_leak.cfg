SPECIFICATION FairSpec
CONSTANTS
  Owners = {"schema", "migration"}
  Lazy = {"migration"}
  MayPrewarm = {}
  Foreign = {}
  BackoffLimit = 1
  DevFaults = {}
  MaxDevFaults = 0
  MaxChanges = 1
  MaxDeletions = 0
  MaxDevCrashes = 0
INVARIANT
  CleanUpIsReliable
CHECK_DEADLOCK FALSE
