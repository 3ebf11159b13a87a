SPECIFICATION FairSpec
CONSTANTS
    a = a
    b = b
    Objects <- TwoObjects
    Null = Null
    NWords = 1
    Descriptors <- TwoDescriptors
    Procedures <- OneProcedure
    Links <- TwoLinks
    Spans <- OneObject
    MAXOBJKINDS = 1
    GC_MAX_MARK_PROCS = 1
    MaxDue <- OnlyFirst
CHECK_DEADLOCK FALSE
INVARIANT FinalizersConserved
PROPERTY NothingReachableLost
PROPERTY OnlyDeadObjects
PROPERTY NoStaleLinks
PROPERTY RevivedSurvive
PROPERTY CollectionEnds
