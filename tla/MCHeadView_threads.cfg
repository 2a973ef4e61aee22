SPECIFICATION Spec
CONSTANTS
  Threads = {t1, t2, t3}
  Paths = {p1, p2}
  None = None
  MaxRetries = 2
  Ops = {"write", "author", "float", "lookup", "snapshot", "pinned", "release", "reload", "close"}
  MaxCalls = 3
  MaxFaults = 1
INVARIANTS MemoFresh OneRevision CancelledByWrites
PROPERTY CallsEnd
CHECK_DEADLOCK FALSE
