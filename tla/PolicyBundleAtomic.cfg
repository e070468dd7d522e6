SPECIFICATION Spec
CONSTANTS
    p1 = p1
    p2 = p2
    c1 = c1
    c2 = c2
    c3 = c3
    Procs = {p1, p2}
    Calls = {c1, c2}
    Home <- MCHomeTwo
    MaxVersion = 3
    MaxTime = 2
    MinInterval = 2
    Published <- MCPublished
    Asked <- MCAsked
    Credentials = {{"KEI_RUNTIME_CONTROL_PLANE_URL", "KEI_RUNTIME_TOKEN"}}
INVARIANT PathIsWhole
CHECK_DEADLOCK FALSE
