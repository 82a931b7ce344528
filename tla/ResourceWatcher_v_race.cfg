SPECIFICATION FairSpec
CONSTANTS
  Objects = {"x", "y"}
  Dependents = {"a", "b"}
  Unwatched = {}
  MaxObjectChanges = 1
  MaxRefEdits = 0
  MaxRestarts = 0
PROPERTY
  ChangesTrigger
CHECK_DEADLOCK FALSE
