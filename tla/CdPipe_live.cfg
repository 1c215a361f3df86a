SPECIFICATION FairSpec
CONSTANTS
    c1 = c1
    c2 = c2
    c3 = c3
    Clients = {c1, c2, c3}
    MaxReq = 1
    MaxHits = 2
    PipeCap = 1
    MaxStarts = 1
    Faults <- NoFaults
PROPERTY CallsReturn
PROPERTY ClientsEnter
CHECK_DEADLOCK FALSE
