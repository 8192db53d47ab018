CONSTANTS
    Users = {t1, t2}
    Keys = {k1, k2}
    Refs = {r1, r2, r3}
    Lengths = {1, 3}
    Capacity = 2
    Duration = 1
    EarlyUpdate = TRUE
    EarlyWindow = 1
    MaxTime = 2
    MaxHeld = 1
SPECIFICATION CacheSpec
SYMMETRY Symmetry
INVARIANTS CacheInv RefcountExact
PROPERTY PurgeComplete
