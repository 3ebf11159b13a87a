SPECIFICATION Spec
CONSTANTS
    a = a
    b = b
    c = c
    Gc = Gc
    Mutators <- Two
    Initial <- One
    Terminable <- Nobody
    Critical <- Nobody
    MaxNest = 0
    Careless <- Nobody
INVARIANT WorldStopped
