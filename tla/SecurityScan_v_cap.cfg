SPECIFICATION Spec
CONSTANTS
  Period = 2
  MaxSlotSteps = 0
  BackoffLimit = 1
  Configs = {"ok"}
  FlagMayChange = FALSE
  Relists = FALSE
  Scheduled = {TRUE}
  Expirations <- NoWaiver
  FaultKinds = {"scan"}
  MaxTime = 3
  MaxEdits = 0
  MaxRequests = 0
  MaxApplies = 0
  MaxFaults = 2
  MaxCrashes = 1
PROPERTY
  AttemptIsEarned
CHECK_DEADLOCK FALSE
