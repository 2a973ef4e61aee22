SPECIFICATION Spec
CONSTANTS
  a = a
  b = b
  plain = plain
  documented = documented
  calling = calling
  Ids = {a, b}
  Texts <- MCTexts
  Normal <- MCNormal
  Calls <- MCCalls
  FirstText = plain
  Gone = Gone
  None = None
  Writers = {w}
  Readers = {r}
  Worker = worker
  Collector = collector
  Layers <- MCLayers
  Edits <- MCEdits
  RetainCap = 2
  MaxRev = 3
  MaxReads = 2
  MaxUpsets = 1
INVARIANTS FreshIsExact EagerArrives
PROPERTIES WindowKept ItemsSettle
CHECK_DEADLOCK FALSE
