CONSTANTS
  Graphs = {g, h}
  Ops = {o1, o2}
  Streams = {s1, s2}
  Bufs = {b}
  Tensors = {b}
  None = None
  MaxNodes = 1
SPECIFICATION Spec
SYMMETRY Symmetry
CONSTRAINT Bound
INVARIANTS NoReplayRace RecordedMemoryAlive ExecAlive CaptureCleansUp NothingStranded
CHECK_DEADLOCK FALSE
