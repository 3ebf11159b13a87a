SPECIFICATION Spec
CONSTANTS
    a = a
    b = b
    c = c
    None = None
    Threads <- Two
    Main = a
    Callers <- Nobody
    MaxCalls = 0
    Pairs <- MutualOfTwo
CHECK_DEADLOCK FALSE
INVARIANT PairedNeverDeadlock
