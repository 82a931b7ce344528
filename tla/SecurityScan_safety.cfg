SPECIFICATION Spec
CONSTANTS
  Period = 1
  MaxSlotSteps = 5
  BackoffLimit = 1
  Configs = {"ok", "invalid"}
  FlagMayChange = FALSE
  Relists = FALSE
  Scheduled = {TRUE}
  Expirations <- NoWaiver
  FaultKinds = {"snapshot", "scan", "store", "write"}
  MaxTime = 1
  MaxEdits = 1
  MaxRequests = 1
  MaxApplies = 1
  MaxFaults = 2
  MaxCrashes = 1
INVARIANTS
  TypeOK
  NothingCoveredUnseen
  ReadyReflectsSpec
CHECK_DEADLOCK FALSE
