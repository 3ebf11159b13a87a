SPECIFICATION Spec
CONSTANTS
    a = a
    b = b
    c = c
    Gc = Gc
    Mutators <- Three
    Initial <- One
    Terminable <- OnlyB
    Critical <- One
    MaxNest = 2
    Careless <- One
INVARIANT StoppedAreParked
INVARIANT NobodyForgotten
INVARIANT RequestReachesThread
INVARIANT SleepersHaveReason
INVARIANT BlockedHasCollection
PROPERTY OnlyResumeReleases
PROPERTY KeepsPromise
