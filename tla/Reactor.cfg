SPECIFICATION RFairSpec
CONSTANTS
  t1 = t1
  t2 = t2
  t3 = t3
  s1 = s1
  s2 = s2
  c1 = c1
  c2 = c2
  None = None
  WordBits = 1
  SpinPasses = 1
  PassWrap = 3
  Tokens = {t1, t2}
  NumSlots = 1
  StreamOf <- TwoStreams
  ContextOf <- TwoContexts
  MaxDeferred = 0
INVARIANTS
  TypeOK
  NoSleepOnArmed
  SignalOnlyIfLanded
  IndInv
PROPERTIES
  ImplementsNotifier
  ImplementsSlotTable
  ScannerRests
  PoolRefills
CHECK_DEADLOCK FALSE
