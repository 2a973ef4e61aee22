SPECIFICATION FairSpec
CONSTANTS
    Daemons = {"d1"}
    Requests = {"r1"}
    Nobody = "nobody"
    MaxStarts = 1
    MaxCrashes = 0
PROPERTY SignalsStop
CHECK_DEADLOCK FALSE
