CONSTANTS
  Graphs = {g, h}
  Ops = {o1, o2}
  Streams = {s1, s2}
  Bufs = {b}
  Tensors = {}
  None = None
  MaxNodes = 1
SPECIFICATION Spec
SYMMETRY Symmetry
INVARIANT NoReplayRace
CHECK_DEADLOCK FALSE
