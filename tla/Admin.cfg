SPECIFICATION Spec
CONSTANTS
    d1 = d1
    d2 = d2
    t1 = t1
    alice = alice
    bob = bob
    Requests = {r1, r2}
    MaxRequests = 3
    MaxBuild = 1
    Admins = {alice, bob}
    NoAdmin = NoAdmin
    Tokens = {t1}
    Broken = Broken
    Deployments <- MCDeployments
    Domains = {d1, d2}
    Example = Example
    DefaultTls = DefaultTls
    OtherArg = OtherArg
    NoToken = NoToken
    ChangeMe = ChangeMe
    Absent = Absent
    Empty = Empty
    None = None
    Badly = Badly
SYMMETRY Sym
INVARIANTS
    FilesAreWhole
    DomainsInStep
    
    AdminSurvivesRestart
    
CHECK_DEADLOCK FALSE
