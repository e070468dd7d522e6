SPECIFICATION Spec
CONSTANTS
    Window = 12
    Ratio = 75
    Thresholds = {65, 80}
    KeepRecent = 2
    CutSize = 2
    Calls = {c1}
    Sessions = {s1}
    Tools = {"test", "deploy"}
    Unknown = "rm"
    Prereqs <- MCPrereqs
    MaxAttempts = 0
    MaxErrors = 3
    MaxNamed = 2
    Usages = {0, 11}
    Inputs <- MCInputs
    Configs <- MCConfigs
PROPERTIES BlockedIsNotReturned
CHECK_DEADLOCK FALSE
