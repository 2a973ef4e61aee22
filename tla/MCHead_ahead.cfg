SPECIFICATION Spec
CONSTANTS
  Paths = {p1}
  Texts = {t1, t2}
  Vals = {v1}
  NoDoc = NoDoc
  Gone = Gone
  RetainCap = 2
  KeepHistory = TRUE
  ReviewOnChange = TRUE
  Ops = {"edit", "other", "fault"}
  MaxRev = 3
  MaxDisk = 0
  MaxFaults = 1
  MaxStarts = 1
  MaxSnaps = 0
  MaxIds = 2
INVARIANT AheadIsBenign
CHECK_DEADLOCK FALSE
