SPECIFICATION HandlesSpec
CONSTANTS
    FastCacheSize = 2
    Objects = {o1, o2, o3, o4}
    NULL = NULL
    FallbackFrees = "lifo"
INVARIANTS
    TypeOK
    NoFault
    HandlesResolve
    HeapIsHeldTypes
    CommittedTypesCompiled
    SlotsPartitioned
    
PROPERTY
    ImplementsRegistry
