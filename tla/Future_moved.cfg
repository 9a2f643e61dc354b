SPECIFICATION FairSpec
CONSTANTS
  Tasks = {a, b}
  None = None
  SpinBudget = FALSE
  MaxMoves = 1
  MaxDeferred = 0
PROPERTIES
  FaultResolves
CHECK_DEADLOCK FALSE
