SPECIFICATION FairSpec
CONSTANTS
  Period = 2
  MaxSlotSteps = 5
  BackoffLimit = 1
  Configs = {"custom", "ok"}
  FlagMayChange = TRUE
  Relists = FALSE
  Scheduled = {FALSE}
  Expirations <- NoWaiver
  FaultKinds = {"scan"}
  MaxTime = 1
  MaxEdits = 1
  MaxRequests = 0
  MaxApplies = 0
  MaxFaults = 0
  MaxCrashes = 2
PROPERTY
  ValidIsScanned
CHECK_DEADLOCK FALSE
