CONSTANTS
    b1 = b1
    b2 = b2
    b3 = b3
    r1 = r1
    r2 = r2
    ProcessingYuv = ProcessingYuv
    Buffers = {b1, b2, b3}
    Replicas = {r1, r2}
    Workers = {ProcessingYuv}
    PutOrder <- MCPutOrder
    Callback = Callback
    SinkCallback = SinkCallback
    Main = Main
    Port = Port
    NoBuffer = NoBuffer
    NoReplica = NoReplica
    SinkMayFail = FALSE
SPECIFICATION FairSpec
PROPERTIES
    NeverStarved
    Quiesces
CHECK_DEADLOCK FALSE
