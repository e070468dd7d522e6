SPECIFICATION SocketFairSpec
CONSTANTS
    Calls = {c1, c2}
    Identities = {i1, i2}
    Operations = {"decide", "stream", "close"}
    MaxSessions = 3
    Threaded = TRUE
INVARIANTS OwnSession RetriesAnotherSession CarriedOutOnce ClosedIsNotCached
PROPERTY CallReturns
CHECK_DEADLOCK FALSE
