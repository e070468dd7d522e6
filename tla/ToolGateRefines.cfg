SPECIFICATION Spec
CONSTANTS
    Calls = {c1, c2}
    Humans = {"ada", "bo"}
    Auditors = {"a1", "a2"}
    Evaluators = {"none", "proxy", "local"}
SYMMETRY CallSymmetry
INVARIANTS OneRecordEach RecordsNameTheHuman
PROPERTY ImplementsFailClosed
CHECK_DEADLOCK FALSE
