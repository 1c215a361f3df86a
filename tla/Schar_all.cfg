SPECIFICATION Spec
CONSTANTS
    r1 = r1
    r2 = r2
    w1 = w1
    Readers = {r1, r2}
    Writers = {r1}
    NonBlocking = {r2}
    Modulus = 4
    SCHAR_INC = 1
    SCHAR_POOL_MIN = 1
    Sizes = {1, 2}
    PoolMins = {1}
    Incs = {1}
    MaxPool = 1
    MayFault = TRUE
INVARIANT NothingLeftBehind
INVARIANT PoolAccounted
