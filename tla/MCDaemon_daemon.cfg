SPECIFICATION FairSpec
CONSTANTS
    Daemons = {"d1", "d2"}
    Requests = {"r1"}
    Nobody = "nobody"
    MaxStarts = 2
    MaxCrashes = 1
INVARIANTS OneSession SocketStands
PROPERTIES RequestsSettle ShutdownCompletes
CHECK_DEADLOCK FALSE
