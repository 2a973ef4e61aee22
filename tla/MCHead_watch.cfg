SPECIFICATION FairSpec
CONSTANTS
  Paths = {p1}
  Texts = {t1, t2}
  Vals = {v1}
  NoDoc = NoDoc
  Gone = Gone
  RetainCap = 2
  KeepHistory = TRUE
  ReviewOnChange = TRUE
  Ops = {"edit", "sync", "syncall", "watch", "unwatch"}
  MaxRev = 3
  MaxDisk = 3
  MaxFaults = 0
  MaxStarts = 1
  MaxSnaps = 0
  MaxIds = 3
INVARIANTS Coherent BufferWins
PROPERTY WatchedChangesArrive
CHECK_DEADLOCK FALSE
