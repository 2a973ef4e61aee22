SPECIFICATION FairSpec
CONSTANTS
    Daemons = {"d1", "d2"}
    Requests = {"r1"}
    Nobody = "nobody"
    MaxStarts = 2
    MaxCrashes = 0
INVARIANT BindHoldsLock
CHECK_DEADLOCK FALSE
