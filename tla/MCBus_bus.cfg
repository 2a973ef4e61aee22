SPECIFICATION FairSpec
CONSTANTS
    Writers = {w1}
    Subs = {s1}
    Session = session_thread
    Ids = {"a", "b"}
    Files = {"f"}
    Layers = {"code", "authored"}
    Interests <- MCInterests
    Changes <- MCChanges
    Capacity = 2
    MaxRev = 3
INVARIANTS RevisionOrder NothingHidden ClosedIsReleased
PROPERTIES DeltasConsumed IterationsEnd
CHECK_DEADLOCK FALSE
