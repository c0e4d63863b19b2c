SPECIFICATION Spec
CONSTANTS
    FastCacheSize = 1
    Objects = {o1, o2}
    NULL = NULL
    FallbackFrees = "lifo"
    Sends = {s1, s2}
    Recvs = {v1, v2}
    ReqVars = {r1, r2}
    TmpBufs = {b1, b2, b3}
    Scratch = Scratch
    Habits = {}
SYMMETRY Symmetry
INVARIANTS
    InterposerTypeOK
    NoFault
    RecordsMatchRequests
    InFlightBuffersPinned
    SendsRight
    ReceivesRight
