SPECIFICATION FairSpec
CONSTANTS
  Period = 2
  MaxSlotSteps = 5
  BackoffLimit = 1
  Configs = {"ok"}
  FlagMayChange = FALSE
  Relists = TRUE
  Scheduled = {FALSE}
  Expirations <- NoWaiver
  FaultKinds = {"scan"}
  MaxTime = 1
  MaxEdits = 1
  MaxRequests = 0
  MaxApplies = 1
  MaxFaults = 0
  MaxCrashes = 0
PROPERTY
  EverythingIsCovered
CHECK_DEADLOCK FALSE
