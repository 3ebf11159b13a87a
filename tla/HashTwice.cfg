SPECIFICATION Spec
CONSTANTS
    x = x
    y = y
    Nobody = Nobody
    Objects <- Both
    Size <- Sizes
    Align <- Alignments
    Last = 11
INVARIANT HashNeverChanges
