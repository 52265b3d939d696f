CONSTANTS
    b1 = b1
    b2 = b2
    b3 = b3
    r1 = r1
    r2 = r2
    r3 = r3
    Awb = Awb
    Processing = Processing
    Buffers = {b1, b2, b3}
    Replicas = {r1, r2, r3}
    Workers = {Awb, Processing}
    PutOrder <- MCPutOrder
    Callback = Callback
    SinkCallback = SinkCallback
    Main = Main
    Port = Port
    NoBuffer = NoBuffer
    NoReplica = NoReplica
    SinkMayFail = TRUE
SPECIFICATION Spec
INVARIANTS
    RefCountsHolders
    PortIsAlone
    PoolIsFree
    PoolIsServed
    SinkMissesNothing
PROPERTY LedgerSpec
CHECK_DEADLOCK FALSE
SYMMETRY Symmetry
