SPECIFICATION Spec
CONSTANTS
    Records = {r1, r2}
    Flushers = {f1}
    Stoppers = {s1}
    BufferSize = 2
    BatchSize = 2
INVARIANTS LogNeverPanics
CHECK_DEADLOCK FALSE
