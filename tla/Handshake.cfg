SPECIFICATION FairSpec
CONSTANTS
    a = a
    b = b
    c = c
    None = None
    Threads <- Three
    Main = a
    Callers <- Two
    MaxCalls = 1
    Pairs <- Mutual
CHECK_DEADLOCK FALSE
INVARIANT NoneRunsUnacknowledged
INVARIANT FoundByIndex
INVARIANT BlockedStayOut
PROPERTY HandshakeEnds
PROPERTY PairEnds
