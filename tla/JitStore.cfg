SPECIFICATION MCSpec
CONSTANTS
  p1 = p1
  b1 = b1
  small = small
  large = large
  Procs = {p1, p2}
  Kernels = {small, large}
  Bins = {b1, b2}
  None = None
  Failure = Failure
  Size <- MCSize
  Low = 2
  High = 3
  MaxRequests = 3
  MaxIoErrors = 2
  MaxToolFaults = 1
  MaxCrashes = 1
  MaxSwaps = 0
INVARIANTS
  PublishedComplete
  NoStrayTemp
  NewestSurvives
PROPERTIES
  ImplementsDirect
CHECK_DEADLOCK FALSE
