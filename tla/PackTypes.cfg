SPECIFICATION Spec
CONSTANTS
    IDXB_LOOP_TRESHOLD = 2
    COPY_LOOP_TRESHOLD = 512
    Primitives = {"BYTE", "INT"}
    Counts = {0, 1, 2}
    Blocklens = {0, 1, 2}
    Strides = {1, 2}
    ByteStrides = {4, 9}
    ElementDispls <- ElementLists
    ByteDispls <- ByteLists
    LowerBounds <- Negative
    Extents = {4, 24}
    MaxDepth = 2
    PackCounts = {2}
INVARIANTS
    TypeOK
    BoundsMatchTypeMap
    CompressionKeepsMeaning
    PackFollowsTypeMap
    UnpackFollowsTypeMap
    CodeEnds
CHECK_DEADLOCK FALSE
