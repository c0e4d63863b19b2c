SPECIFICATION HandlesSpec
CONSTANTS
    FastCacheSize = 2
    Objects = {o1, o2, o3, o4, o5}
    NULL = NULL
    FallbackFrees = "any"
SYMMETRY ObjectSymmetry
CHECK_DEADLOCK FALSE
INVARIANT
    HandlesResolve
