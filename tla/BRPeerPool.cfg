SPECIFICATION Spec
CONSTANTS
    Peers = {p1, p2, p3}
    MaxConnectCount = 2
    MAX_CONNECT_FAILURES = 1
    MaxHeight = 1
    MaxFaults = 1
    Mishaps = {"thread","lookup","network","disconnect"}
    MaxCalls = 1
INVARIANTS TypeOK DownloadConnected SyncHasWorker
PROPERTIES BetterDownloadPeer SyncEnds
CHECK_DEADLOCK FALSE
