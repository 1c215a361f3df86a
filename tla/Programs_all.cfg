SPECIFICATION FairSpec
CONSTANTS
    FifoClients = {"a", "b"}
    TimesToSend = 3
    MaxCrashes = 1
    SemProcs = {"a", "b", "c"}
    Setter = "a"
    Turns = 2
    MaxKills = 2
    LastText = 4
    LastLine = 4
    MaxLines = 3
    Visitors = {"a", "b"}
    MaxVisits = 5
    Lockers = {"a", "b", "c"}
    Tries = 2
    MaxDead = 1
    DiskUsers = {"a", "b"}
    Size = 2
    MaxDisk = 6
    MapUsers = {"a", "b"}
    Page = 2
    MaxMap = 4
    NumThreads = 4
    Senders = {"a", "b"}
    LastMsg = 3
    MsgCap = 2
    Producers = {"a", "b"}
    Consumers = {"a", "b"}
    TenMeg = 2
    FifoCap = 2
    BOXED_LINES = 2
    MaxOnFile = 5
    TurnPolls = 4
INVARIANTS
    ProgramTypes
    HandedOver
    Protected
PROPERTY
    Served
CHECK_DEADLOCK FALSE
