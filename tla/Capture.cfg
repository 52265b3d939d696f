CONSTANTS
    MaxFrames = 4
    MaxClock = 3
    SaveRate = 2
    SideInfo <- MCSideInfo
    MallocMayFail = TRUE
    FilesMayFail = TRUE
SPECIFICATION Spec
INVARIANTS
    SavesEveryNth
    TimesAreOfSavedFrames
    TimesAreComplete
    NoDanglingNode
    NoLeakedNode
    ConverterReleases
    DelaysArePositive
    MetadataIsDecoded
CHECK_DEADLOCK FALSE
