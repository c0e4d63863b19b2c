\* The abstract communication and the progress a fair program makes.
SPECIFICATION FairSpec
CONSTANTS
    FastCacheSize = 1
    Objects = {o1}
    NULL = NULL
    FallbackFrees = "lifo"
    Sends = {s1}
    Recvs = {v1, v2}
    ReqVars = {r1, r2}
    TmpBufs = {b1, b2}
    Scratch = Scratch
    Habits = {}
PROPERTIES
    ImplementsComm
    OperationsReturn
    TemporariesFreed
