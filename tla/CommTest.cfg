SPECIFICATION Spec
CONSTANTS
    FastCacheSize = 1
    Objects = {o1, o2}
    NULL = NULL
    FallbackFrees = "lifo"
    Sends = {s1}
    Recvs = {v1, v2}
    ReqVars = {r1, r2}
    TmpBufs = {b1, b2}
    Scratch = Scratch
    Habits = {"test"}
SYMMETRY Symmetry
INVARIANT
    ReceivesRight
