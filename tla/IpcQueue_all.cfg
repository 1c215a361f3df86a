SPECIFICATION FairSpec
CONSTANTS
    first = first
    second = second
    other = other
    Clients = {first, second, other}
    Pids = {"p", "q"}
    pid <- MCpid
    MaxReq <- MCMaxReq
    MaxHits = 1
    QueueIds = {1, 2, 3, 4}
    NoQueue = 0
    QueueCap = 2
    MaxFaults = 2
INVARIANTS
    TypeOK
    QueuesPaired
    OwnAnswers
PROPERTIES
    ServiceSpec
    CallsReturn
CHECK_DEADLOCK FALSE
