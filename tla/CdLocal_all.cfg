SPECIFICATION FairSpec
CONSTANTS
    Procs = {"left", "right"}
    Names = {"", "b", "ab"}
    Empty = ""
    Contain <- MCContain
    Programs <- MCPrograms
    NamesOf <- MCNamesOf
    MaxTracks = 2
    MaxFiles = 2
    MaxActs = 5
INVARIANTS
    TypeOK
    SameFiles
    RowsAreTracks
    NoOrphanTracks
PROPERTY
    Returns
CHECK_DEADLOCK FALSE
