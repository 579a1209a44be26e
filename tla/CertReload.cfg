SPECIFICATION Spec
CONSTANTS
    Domains = {}
    Default = default
    Handshakes = {h1, h2}
    Nobody = Nobody
    MaxRenewals = 3
    MaxTime = 4
    Lifetime = 2
    Before = 1
    Retry = 1
SYMMETRY Sym

    
PROPERTIES
    KeepsCertPromise
