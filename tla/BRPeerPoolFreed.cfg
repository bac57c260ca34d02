SPECIFICATION Spec
CONSTANTS
    Peers = {p1, p2}
    MaxConnectCount = 2
    MAX_CONNECT_FAILURES = 2
    MaxHeight = 1
    MaxFaults = 2
    Mishaps = {"disconnect"}
    MaxCalls = 1
INVARIANTS NoReconnect
SYMMETRY Symmetry
CHECK_DEADLOCK FALSE
