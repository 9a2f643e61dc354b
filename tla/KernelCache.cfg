SPECIFICATION MCSpec
CONSTANTS
  f1 = f1
  Threads = {t1, t2}
  Kernels = {foreign}
  Linking = {foreign}
  Files = {f1, f2}
  None = None
  MaxCells = 3
  MaxLaunches = 3
  MaxChanges = 2
  MaxEvictions = 1
INVARIANTS
  NoOrphanedCompile
  NoLeakedSlot
  KeyDescribesKernel
  FreshLibraries
CONSTRAINT Bound
SYMMETRY Symmetry
CHECK_DEADLOCK FALSE
