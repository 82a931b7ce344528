SPECIFICATION FairSpec
CONSTANTS
  f1 = f1
  f2 = f2
  Drifts = {f1, f2}
  NoDrift = NoDrift
  Actions = {"Report", "Fail"}
  FaultKinds = {"transient", "permanent", "locked", "write"}
  MaxEdits = 2
  MaxFaults = 2
  MaxCrashes = 1
  MaxChanges = 2
INVARIANTS
  TypeOK
  DriftDegradesTheCheck
  DriftIsAnnounced
PROPERTY
  DriftIsReported
CHECK_DEADLOCK FALSE
