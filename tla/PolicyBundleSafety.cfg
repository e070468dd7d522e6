SPECIFICATION Spec
CONSTANTS
    p1 = p1
    p2 = p2
    c1 = c1
    c2 = c2
    c3 = c3
    Procs = {p1}
    Calls = {c1, c2, c3}
    Home <- MCHomeOne
    MaxVersion = 3
    MaxTime = 2
    MinInterval = 1
    Published <- MCPublished
    Asked <- MCAsked
    Credentials = {{"ABAC_URL", "runtime_token"}, {"ABAC_URL"}}
SYMMETRY CallSymmetry
INVARIANTS AllowedByBundle PathIsWhole SavedIsActive
PROPERTIES StaysLoaded SetBackIsStale
CHECK_DEADLOCK FALSE
