SPECIFICATION HandoverOrTunnels
CONSTANTS
    Controls = {a, b}
    ClientIds = {i}
    Urls = {u1, u2}
    u1 = u1
    u2 = u2
    Refused = {u2}
    Requests <- WithRefused
    NoId = NoId
    None = None
    WriteErrors = FALSE
    TornReads = FALSE
CHECK_DEADLOCK FALSE
PROPERTIES  LostControlsAreCleanedUp
