CONSTANTS
    Source = Source
    Sink = Sink
    NoComp = NoComp
    NumEvents = 5
    MaxOps = 2
    MaxFails = 1
    MaxAsync = 1
    SourceFails = FALSE
    Retry = FALSE
SPECIFICATION FairSpec
INVARIANTS
    EventsConserved
    AssertsHold
    NoLostWakeup
    SuccessIsTrue
PROPERTY OperationsEnd
CHECK_DEADLOCK FALSE
