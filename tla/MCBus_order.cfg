SPECIFICATION Spec
CONSTANTS
    Writers = {w1, w2}
    Subs = {s1}
    Session = session_thread
    Ids = {"a", "b"}
    Files = {"f"}
    Layers = {"code", "authored"}
    Interests <- MCInterests
    Changes <- MCChanges
    Capacity = 2
    MaxRev = 3
INVARIANT EveryCommitPublishes
CHECK_DEADLOCK FALSE
