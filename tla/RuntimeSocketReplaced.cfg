SPECIFICATION SocketSpec
CONSTANTS
    Calls = {c1, c2}
    Identities = {i1}
    Operations = {"decide"}
    MaxSessions = 3
    Threaded = TRUE
SYMMETRY CallSymmetry
PROPERTY ReplacementIsKept
CHECK_DEADLOCK FALSE
