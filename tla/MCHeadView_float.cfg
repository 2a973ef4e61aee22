SPECIFICATION Spec
CONSTANTS
  Threads = {t1, t2}
  Paths = {p1, p2}
  None = None
  MaxRetries = 2
  Ops = {"write", "float"}
  MaxCalls = 2
  MaxFaults = 0
INVARIANT WholeRevision
CHECK_DEADLOCK FALSE
