SPECIFICATION Spec
CONSTANTS
  Paths = {p1, p2}
  Texts = {t1, t2}
  Vals = {v1}
  NoDoc = NoDoc
  Gone = Gone
  RetainCap = 2
  KeepHistory = TRUE
  ReviewOnChange = TRUE
  Ops = {"edit", "other", "sync", "syncall", "fault", "snapshot", "reload"}
  MaxRev = 3
  MaxDisk = 1
  MaxFaults = 1
  MaxStarts = 1
  MaxSnaps = 1
  MaxIds = 3
SYMMETRY Symmetry
INVARIANTS TypeOK AllOrNothing SnapshotIsolation RetainedWindow VersionNamesText
PROPERTY ImplementsLedger
CHECK_DEADLOCK FALSE
