CONSTANTS
    MaxArgs = 4
    Words = {"-hf", "-sr", "-e", "-c", "-o", "-ts", "-awbg", "-p", "-fs", "-op", "-?", "-bogus", "1", "7", "1,2,3,4", "name", "name%s", ""}
SPECIFICATION Spec
INVARIANTS
    ProperIsHonoured
    NothingStray
CHECK_DEADLOCK FALSE
