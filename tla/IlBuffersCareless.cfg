CONSTANTS
    p1 = p1
    p2 = p2
    p3 = p3
    t1 = t1
    t2 = t2
    Nil = Nil
    Careful = {"alone"}
    Ports = {p1, p2, p3}
    Dir <- PortDirs
    Count <- Counts
    Threads = {t1, t2}
    Uses <- PortsOf
    MaxAllocs = 2
SPECIFICATION FairSpec
PROPERTY PortsEnd
CHECK_DEADLOCK FALSE
