\* After a fault the process is gone: the run may stop there.
SPECIFICATION Spec
CONSTANTS
    FastCacheSize = 1
    Objects = {o1}
    NULL = NULL
    FallbackFrees = "lifo"
    Sends = {s1}
    Recvs = {v1, v2}
    ReqVars = {r1, r2}
    TmpBufs = {b1, b2}
    Scratch = Scratch
    Habits = {"test", "waitany", "copy", "bottom", "typefree"}
SYMMETRY Symmetry
CHECK_DEADLOCK FALSE
INVARIANT
    TemporariesOwnedOnce
