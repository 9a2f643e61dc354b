SPECIFICATION FairSpec
CONSTANTS
  Tasks = {a, b}
  None = None
  SpinBudget = TRUE
  MaxMoves = 2
  MaxDeferred = 2
INVARIANTS
  OkMeansDone
  SignalReachesOwner
  ErrHasCause
PROPERTIES
  DoneResolves
  FaultResolvesInPlace
CHECK_DEADLOCK FALSE
