SPECIFICATION MCSwapSpec
CONSTANTS
  p1 = p1
  b1 = b1
  small = small
  large = large
  Procs = {p1, p2}
  Kernels = {small, large}
  Bins = {b1, b2}
  None = None
  Failure = Failure
  Size <- MCSize
  Low = 2
  High = 3
  MaxRequests = 3
  MaxIoErrors = 0
  MaxToolFaults = 1
  MaxCrashes = 0
  MaxSwaps = 1
INVARIANT
  ServedByOwnBinary
CHECK_DEADLOCK FALSE
