SPECIFICATION FairSpec
CONSTANTS
  Owners = {"schema"}
  Lazy = {}
  MayPrewarm = {}
  Foreign = {}
  BackoffLimit = 1
  DevFaults = {}
  MaxDevFaults = 0
  MaxChanges = 1
  MaxDeletions = 0
  MaxDevCrashes = 0
INVARIANT
  AloneIsNeverInterrupted
PROPERTY
  UrlNamesTheLivePod
CHECK_DEADLOCK FALSE
