SPECIFICATION FairSpec
CONSTANTS
    Urls = {u1, u2}
    Proxies = {p}
    Views = {term, http}
    Term = term
    None = None
    Dotted = {"www.example.com"}
    ReadBack <- Values
    EnvProxy = ""
    Starts <- Starts_
    ListenerBuffer = 1
    MaxShutdowns = 3
CHECK_DEADLOCK FALSE
INVARIANTS
    QuietViewIsUpToDate
    AnnouncedUrlsLeadHome
    
PROPERTIES
    EndsUpServing
    AQuitEndsTheClient
