SPECIFICATION Spec
CONSTANTS
  Period = 2
  MaxSlotSteps = 5
  BackoffLimit = 1
  Configs = {"ok", "badConfig"}
  FlagMayChange = FALSE
  Relists = FALSE
  Scheduled = {FALSE}
  Expirations <- NoWaiver
  FaultKinds = {"scan"}
  MaxTime = 1
  MaxEdits = 1
  MaxRequests = 1
  MaxApplies = 0
  MaxFaults = 1
  MaxCrashes = 0
INVARIANT
  ReadyReflectsSpec
CHECK_DEADLOCK FALSE
