SPECIFICATION Spec
CONSTANTS
    IDXB_LOOP_TRESHOLD = 2
    COPY_LOOP_TRESHOLD = 512
    Primitives = {"BYTE"}
    Counts = {2}
    Blocklens = {1, 2}
    Strides = {1, 3}
    ByteStrides = {2, 5}
    ElementDispls <- FewElements
    ByteDispls <- FewBytes
    LowerBounds <- OneBelow
    Extents = {2, 4, 9}
    MaxDepth = 3
    PackCounts = {1, 2}
INVARIANTS
    CompressionKeepsMeaning
    PackFollowsTypeMap
    UnpackFollowsTypeMap
CHECK_DEADLOCK FALSE
