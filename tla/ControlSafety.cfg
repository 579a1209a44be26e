SPECIFICATION Spec
CONSTANTS
    Controls = {a, b}
    ClientIds = {i}
    Urls = {u1, u2}
    u1 = u1
    u2 = u2
    Refused = {}
    Requests <- Two
    NoId = NoId
    None = None
    WriteErrors = TRUE
    TornReads = TRUE
SYMMETRY Symmetry
INVARIANTS
    CompletedLeavesNothing
    IndInv
PROPERTIES
    KeepsUrlPromise
CHECK_DEADLOCK FALSE
