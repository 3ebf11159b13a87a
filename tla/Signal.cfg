SPECIFICATION FairSpec
CONSTANTS
    a = a
    b = b
    c = c
    NoThread = NoThread
    Threads <- Two
    Initial <- OnlyA
    Terminable <- OnlyB
    AltStack <- OnlyA
    Width = 4
INVARIANT WorldIsStopped
INVARIANT SignalsUnderstood
PROPERTY KeepsPromise
PROPERTY SuspendedRunAgain
PROPERTY BlockedIsReleased
CHECK_DEADLOCK FALSE
