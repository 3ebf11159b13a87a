SPECIFICATION Spec
CONSTANTS
    a = a
    b = b
    Threads <- Two
    Blocks <- ThreeAndOneWord
    VoWords = 4
    Sizes <- EmptyAndSmall
    Aligns <- OneOrTwo
    MaxNonLos = 2
    NarrowSpan = 64
    Page = 8
    MinAlignment = 4
    TaggedScale = 2
    Heaps <- FourHeaps
SYMMETRY Symmetric
INVARIANT NothingHandedOutTwice
INVARIANT VoBitsMatchObjects
PROPERTY ServesRequests
INVARIANT NarrowFieldsLeadBack
