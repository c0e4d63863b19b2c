SPECIFICATION Spec
CONSTANTS
    SIMD_BYTE_SIZE = 8
    COPY_LOOP_UNROLL = 3
    COPY_LOOP_TRESHOLD = 32
    Sizes <- ElementSizes
    Counts <- Boundaries
INVARIANTS
    TypeOK
    NothingElseCopied
    AllCopied
PROPERTY CopyEnds
CHECK_DEADLOCK FALSE
