SPECIFICATION FairSpec
CONSTANTS
    a = a
    b = b
    c = c
    Empty = Empty
    NoKey = NoKey
    Names <- Unnamed
    Texts <- UnnamedTexts
    MaxMatching = 6
INVARIANT TypeOK
INVARIANT EachMatchOnce
INVARIANT NoMoreMeansAll
PROPERTY SearchReturns
