SPECIFICATION Spec
CONSTANTS
    u1 = u1
    u2 = u2
    n1 = n1
    n2 = n2
    None = None
    Users = {u1, u2}
    Names = {n1, n2}
    NamesOf <- OwnNames
    MaxTracks = 3
INVARIANT TypeOK
INVARIANT NoGap
PROPERTY DeletesAllTracks
PROPERTY ListsAllTracks
