SPECIFICATION FairSpec
CONSTANTS
    Records = {r1, r2, r3}
    Flushers = {f1}
    Stoppers = {s1, s2}
    BufferSize = 2
    BatchSize = 2
INVARIANTS EachInOnePlace InOrder AckedFlushDelivers
PROPERTIES RecordIsShipped CallsReturn ImplementsPipe
CHECK_DEADLOCK FALSE
