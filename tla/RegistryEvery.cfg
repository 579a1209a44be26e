SPECIFICATION FairSpec
CONSTANTS
    Tunnels = {t1, t3}
    IpOf <- OneAddress
    IdOf <- Clients
    Names = {n1, n2}
    Ports = {p1, p2}
    Vhosts = {"http"}
    Requests <- EveryRequest
    AllowRemotePorts = TRUE
    MaxAttempts = 3
    Replaceable = {t1, t3}
    NoId = NoId
    None = None
    t1 = t1
    t3 = t3
    i = i
    n1 = n1
    p1 = p1
INVARIANTS
    ListenersAreExact
    ClientsComeBackToTheirUrls
PROPERTIES
    KeepsUrlPromise
    RequestsEnd
    AcceptLoopsEnd
CHECK_DEADLOCK FALSE
