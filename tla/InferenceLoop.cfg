SPECIFICATION Spec
CONSTANTS
    Window = 12
    Ratio = 75
    Thresholds = {65, 80}
    KeepRecent = 2
    CutSize = 2
    Calls = {c1, c2}
    Sessions = {s1}
    Tools = {"test", "deploy"}
    Unknown = "rm"
    Prereqs <- MCPrereqs
    MaxAttempts = 2
    MaxErrors = 3
    MaxNamed = 1
    Usages = {0, 11}
    Inputs <- MCInputs
    Configs <- MCConfigs
INVARIANTS EssentialKept FailuresCounted
PROPERTIES CutOnlyWhenFull DropsByNeed AttemptsRunOut
CHECK_DEADLOCK FALSE
