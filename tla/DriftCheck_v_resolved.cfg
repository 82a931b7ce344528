SPECIFICATION Spec
CONSTANTS
  f1 = f1
  f2 = f2
  Drifts = {f1, f2}
  NoDrift = NoDrift
  Actions = {"Report", "Fail"}
  FaultKinds = {"transient"}
  MaxEdits = 0
  MaxFaults = 1
  MaxCrashes = 0
  MaxChanges = 2
INVARIANT
  ResolutionIsAnnounced
CHECK_DEADLOCK FALSE
