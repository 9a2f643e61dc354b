SPECIFICATION RSpec
CONSTANTS
  t1 = t1
  t2 = t2
  t3 = t3
  s1 = s1
  s2 = s2
  c1 = c1
  c2 = c2
  None = None
  WordBits = 1
  SpinPasses = 1
  PassWrap = 3
  Tokens = {t1, t2}
  NumSlots = 2
  StreamOf <- SharedStream
  ContextOf <- OneContext
  MaxDeferred = 1
INVARIANTS
  NoUnderflow
  SlotOwnedOnce
  DeliveredOnce
  PayloadExclusive
CHECK_DEADLOCK FALSE
