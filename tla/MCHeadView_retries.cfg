SPECIFICATION Spec
CONSTANTS
  Threads = {t1, t2}
  Paths = {p1, p2}
  None = None
  MaxRetries = 2
  Ops = {"write", "float"}
  MaxCalls = 2
  MaxFaults = 1
INVARIANT CompletedWrites
CHECK_DEADLOCK FALSE
