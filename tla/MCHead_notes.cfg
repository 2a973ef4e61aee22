SPECIFICATION Spec
CONSTANTS
  Paths = {p1}
  Texts = {t1, t2}
  Vals = {v1}
  NoDoc = NoDoc
  Gone = Gone
  RetainCap = 2
  KeepHistory = TRUE
  ReviewOnChange = TRUE
  Ops = {"edit", "author", "fault", "stop", "sync", "watch", "unwatch", "rescan", "damage"}
  MaxRev = 4
  MaxDisk = 1
  MaxFaults = 1
  MaxStarts = 2
  MaxSnaps = 0
  MaxIds = 3
SYMMETRY Symmetry
INVARIANTS ReviewFollowsContent IdsStayInForce NotesDurable
PROPERTY HistoryKept
CHECK_DEADLOCK FALSE
