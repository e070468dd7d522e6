SPECIFICATION PartsSpec
CONSTANTS
    Commands <- MCCommands
    Answers <- MCAnswers
    Threads = 2
    Setups <- MCSetups
    Callers = {1}
    Replies <- MCReplies
    Others <- MCOthers
    MaxSpawns = 2
    MaxKeys = 2
INVARIANTS EvalPassIsEarned EvalDenyIsFedBack EvalReportIsRight
INVARIANTS FileIsRegisteredAsRead ServesOnlyRegistered ProxyIsHeld RunsAreAccounted
PROPERTIES EvalEnds HarnessReturns
CHECK_DEADLOCK FALSE
