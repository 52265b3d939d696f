CONSTANTS
    Options = {"capture", "header", "awb", "processing", "processing_yuv", "preview"}
    MaxQueued = 2
SPECIFICATION Spec
INVARIANTS
    StreamsComplete
    NothingLeft
    PortClosedBeforePool
PROPERTY MainReturns
CHECK_DEADLOCK FALSE
