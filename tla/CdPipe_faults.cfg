SPECIFICATION Spec
CONSTANTS
    c1 = c1
    c2 = c2
    Clients = {c1, c2}
    MaxReq = 2
    MaxHits = 3
    PipeCap = 2
    MaxStarts = 2
    Faults <- AllFaults
INVARIANT TypeOK
INVARIANT IInv
INVARIANT RequestAccounted
INVARIANT AnswerInOrder
INVARIANT StopsForAReason
PROPERTY ServiceSpec
CHECK_DEADLOCK FALSE
