SPECIFICATION FairSpec
CONSTANTS
  Owners = {"schema", "migration"}
  Lazy = {"migration"}
  MayPrewarm = {}
  Foreign = {"migration"}
  BackoffLimit = 1
  DevFaults = {}
  MaxDevFaults = 0
  MaxChanges = 1
  MaxDeletions = 0
  MaxDevCrashes = 0
PROPERTY
  EveryOwnerIsServed
CHECK_DEADLOCK FALSE
