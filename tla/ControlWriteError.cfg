SPECIFICATION FairSpec
CONSTANTS
    Controls = {a}
    ClientIds = {i}
    Urls = {u1}
    u1 = u1
    u2 = u2
    Refused = {}
    Requests <- OneUrl
    NoId = NoId
    None = None
    WriteErrors = TRUE
    TornReads = FALSE
CHECK_DEADLOCK FALSE
PROPERTY LostControlsAreCleanedUp
