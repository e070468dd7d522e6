SPECIFICATION FairSpec
CONSTANTS
    Environments <- MCEnvironments
    Output <- MCFewOutput
    MaxPipe = 1
    MaxLines = 2
    MaxRuns = 3
    RingSize = 1
    CrashThreshold = 2
PROPERTIES ExitIsNoticed
CHECK_DEADLOCK FALSE
