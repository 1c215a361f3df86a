SPECIFICATION Spec
CONSTANTS
    a = a
    b = b
    c = c
    Empty = Empty
    NoKey = NoKey
    Names <- Named
    Texts <- NamedTexts
    MaxMatching = 3
INVARIANT ReadFindsEntry
