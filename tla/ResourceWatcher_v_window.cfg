SPECIFICATION PromptSpec
CONSTANTS
  Objects = {"x", "y"}
  Dependents = {"a"}
  Unwatched = {}
  MaxObjectChanges = 1
  MaxRefEdits = 0
  MaxRestarts = 0
PROPERTY
  ChangesTrigger
CHECK_DEADLOCK FALSE
