CONSTANTS
    Sensors <- sensors
    Options <- MCOptions
    MaxRuns = 2
SPECIFICATION Spec
INVARIANTS
    EncodingIsTrue
    FieldsHold
    SizesHold
    ExposureFitsFrame
    FoundAgain
    StreamsAsTold
CHECK_DEADLOCK FALSE
