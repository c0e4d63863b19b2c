\* Three types of every class and two compilations, with and without LAZY.
SPECIFICATION Spec
CONSTANTS
    Lazy <- BothBuilds
    Kinds = {"contiguous", "vector", "indexed", "hindexed", "struct", "resized"}
    MaxTypes = 3
    MaxCompiles = 2
INVARIANTS
    TypeOK
    NoMisuse
    SubtypesOwnedOnce
    OwnTypesFreed
    FunctionsAccounted
    CodeKeepsItsArrays
PROPERTIES
    ImplementsValues
CHECK_DEADLOCK FALSE
