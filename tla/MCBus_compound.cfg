SPECIFICATION Spec
CONSTANTS
    Writers = {w1}
    Subs = {s1}
    Session = session_thread
    Ids = {"a", "b"}
    Files = {"f"}
    Layers = {"code", "authored"}
    Interests <- MCCompounds
    Changes <- MCChanges
    Capacity = 2
    MaxRev = 2
INVARIANT CompoundsAreUnions
CHECK_DEADLOCK FALSE
