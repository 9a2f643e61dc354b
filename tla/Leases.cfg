SPECIFICATION FairSpec
CONSTANTS
  Clients = {c1, c2}
  Allocs = {a1}
  Streams = {s1, s2}
  None = None
  MaxLaunches = 1
  MaxDeferred = 1
INVARIANTS
  NoCrossStreamRace
  NoFreeInFlight
  CoveredInFlight
PROPERTIES
  DroppedIsFreed
CHECK_DEADLOCK FALSE
