SPECIFICATION Spec
CONSTANTS
    IDXB_LOOP_TRESHOLD = 16
    COPY_LOOP_TRESHOLD = 512
    Primitives = {"INT"}
    Counts = {2}
    Blocklens = {1}
    Strides = {}
    ByteStrides <- TraceStride
    ElementDispls <- Unused
    ByteDispls <- Unused
    LowerBounds = {}
    Extents = {}
    MaxDepth = 2
    PackCounts = {1}
INVARIANT AssertionsHold
CHECK_DEADLOCK FALSE
