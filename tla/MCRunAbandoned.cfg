SPECIFICATION Spec
CONSTANTS
    None = None
    Jobs = {j1}
    Requests = {r1, r2}
    MaxToolCalls = 1
INVARIANTS
    AbandonedRecordsNothing
SYMMETRY Symmetry
CHECK_DEADLOCK FALSE
