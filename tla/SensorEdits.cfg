CONSTANTS
    Sensors <- Imx219
    Options <- MCEdits
    MaxRuns = 1
SPECIFICATION Spec
INVARIANT EditsArrive
CHECK_DEADLOCK FALSE
