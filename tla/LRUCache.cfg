SPECIFICATION CacheSpec
CONSTANTS
    Keys = {k1, k2, k3}
    Values = {1, 2, 4}
    SizeOf <- OwnSize
    Word = 16
    NoValue = NoValue
    Capacity = 3
    Capacities = {2, 5}
    MaxRestarts = 1
INVARIANTS
    SizeIsExact
PROPERTIES
    EvictsLeastRecentlyUsed
    RestartRestoresTheSave
    KeepsCachePromise
