SPECIFICATION FairSpec
CONSTANTS
  Ops = {"A", "B"}
  Calls = {"a1", "b1", "nb", "na", "nt"}
  Threads = {"T1", "T2"}
  Streams = {"s1", "s2"}
  Op <- SharedOp
  Route <- SharedRoute
  Parent <- SharedParent
  Thread <- SharedThread
  Stream <- SharedStream
  None = None
INVARIANTS
  RunOnce
  UseOrdered
  HostSeesFinishedWork
  SameOutcome
  LockHeldWhileExecuting
PROPERTIES
  EveryCallReturns
CHECK_DEADLOCK FALSE
