SPECIFICATION Spec
CONSTANTS
    b1 = b1
    b2 = b2
    t1 = t1
    t2 = t2
    Txs = {t1, t2}
    Blocks = {b1, b2}
    Matched <- MCMatched
    Invs <- MCInvs
    Mempool = {t1}
    Callbacks = {c1, c2}
    MaxKnown = 2
    MaxAnnounced = 3
INVARIANTS TypeOK AnsweredOnce AnsweredAtEnd KnownIsTail
PROPERTIES BlockWhole HandshakeEnds DisconnectEnds ImplementsRequests
CHECK_DEADLOCK FALSE
