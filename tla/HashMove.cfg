SPECIFICATION Spec
CONSTANTS
    x = x
    y = y
    Nobody = Nobody
    Objects <- Both
    Size <- Sizes
    Align <- Alignments
    Last = 11
INVARIANT BodyIntact
INVARIANT HashSurvivesMove
INVARIANT ExtentIsCell
INVARIANT RefAligned
PROPERTY CopyIsWherePromised
