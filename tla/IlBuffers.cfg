CONSTANTS
    p1 = p1
    p2 = p2
    p3 = p3
    t1 = t1
    t2 = t2
    Nil = Nil
    Careful = {"whole", "alone"}
    Ports = {p1, p2, p3}
    Dir <- PortDirs
    Count <- Counts
    Threads = {t1, t2}
    Uses <- PortsOf
    MaxAllocs = 2
SPECIFICATION FairSpec
INVARIANTS BuffersConserved InOrder NoLostWakeup
PROPERTY PortsEnd
CHECK_DEADLOCK FALSE
