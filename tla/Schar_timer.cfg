SPECIFICATION FairSpec
CONSTANTS
    r1 = r1
    r2 = r2
    w1 = w1
    Readers = {r1}
    Writers = {}
    NonBlocking = {}
    Modulus = 8
    SCHAR_INC = 1
    SCHAR_POOL_MIN = 2
    Sizes = {1, 2, 3}
    PoolMins = {2}
    Incs = {1}
    MaxPool = 3
    MayFault = FALSE
PROPERTY ReaderServed
