SPECIFICATION FairSpec
CONSTANTS
  Period = 1
  MaxSlotSteps = 5
  BackoffLimit = 1
  Configs = {"custom", "badConfig"}
  FlagMayChange = TRUE
  Relists = FALSE
  Scheduled = {TRUE, FALSE}
  Expirations = {1}
  FaultKinds = {"scan", "write"}
  MaxTime = 1
  MaxEdits = 1
  MaxRequests = 0
  MaxApplies = 1
  MaxFaults = 2
  MaxCrashes = 1
PROPERTY
  EverythingIsCovered
CHECK_DEADLOCK FALSE
