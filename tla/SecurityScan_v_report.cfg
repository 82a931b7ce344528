SPECIFICATION Spec
CONSTANTS
  Period = 2
  MaxSlotSteps = 5
  BackoffLimit = 1
  Configs = {"ok"}
  FlagMayChange = FALSE
  Relists = FALSE
  Scheduled = {FALSE}
  Expirations <- NoWaiver
  FaultKinds = {"write"}
  MaxTime = 1
  MaxEdits = 0
  MaxRequests = 1
  MaxApplies = 0
  MaxFaults = 1
  MaxCrashes = 0
INVARIANT
  ReportIsOfLastScan
CHECK_DEADLOCK FALSE
