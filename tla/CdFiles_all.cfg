SPECIFICATION Spec
CONSTANTS
    u = u
    v = v
    CStar = CStar
    CStarP = CStarP
    Users = {u, v}
    Cats = {CStar, CStarP}
    NoCat = NoCat
    BeginsWith <- MCBeginsWith
    GrepFinds <- MCGrepFinds
    PerlFinds <- MCPerlFinds
    BadPerl = {CStarP}
    MaxActs = 4
    MaxRuns = 2
    MaxBreaks = 1
SYMMETRY UserSymmetry
INVARIANTS
    TypeOK
    NothingLost
    TracksHaveTitle
    KindsKept
CHECK_DEADLOCK FALSE
