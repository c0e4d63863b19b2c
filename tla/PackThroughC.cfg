SPECIFICATION Spec
CONSTANTS
    IDXB_LOOP_TRESHOLD = 16
    COPY_LOOP_TRESHOLD = 512
    Primitives = {"INT"}
    Counts = {2}
    Blocklens = {3}
    Strides = {5}
    ByteStrides = {}
    ElementDispls <- Unused
    ByteDispls <- Unused
    LowerBounds = {}
    Extents = {}
    MaxDepth = 1
    PackCounts = {1, 2}
INVARIANT LpkPackFollowsTypeMap
CHECK_DEADLOCK FALSE
