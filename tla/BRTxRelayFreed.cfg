SPECIFICATION Spec
CONSTANTS
    s1 = s1
    s2 = s2
    k = k
    Txs = {s1, s2}
    Inputs <- MCInputs
    Stored = {}
    Mined = {}
    Publications = {k}
    TxOf <- MCTxOf
    Peers = {p1, p2}
    maxConnectCount = 2
    MaxConnects = 2
    MaxMessages = 1
INVARIANTS PublishedAlive
CHECK_DEADLOCK FALSE
SYMMETRY Symmetry
