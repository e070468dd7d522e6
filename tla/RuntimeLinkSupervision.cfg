SPECIFICATION FairSpec
CONSTANTS
    Environments <- MCEnvironments
    Output <- MCOutput
    MaxPipe = 2
    MaxLines = 2
    MaxRuns = 3
    RingSize = 2
    CrashThreshold = 2
INVARIANTS NoOrphan NewestEventIsState StatusIsOfCurrentRun 
PROPERTIES StoppedIsFinal SilentChildIsKilled StopReturns
CHECK_DEADLOCK FALSE
