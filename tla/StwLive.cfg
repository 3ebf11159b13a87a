SPECIFICATION FairSpec
CONSTANTS
    a = a
    b = b
    c = c
    Gc = Gc
    Mutators <- Two
    Initial <- One
    Terminable <- OnlyB
    Critical <- OnlyB
    MaxNest = 2
    Careless <- OnlyB
PROPERTY CollectionHappens
PROPERTY StartedGetsRegistered
PROPERTY BlockedRunAgain
