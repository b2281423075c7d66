\* Four requests to one router, three of them at a time, one key. Three processes,
\* two users, one change of each, one load that outlasts its lock.
SPECIFICATION Spec
CONSTANTS
    Requests = {r1, r2, r3, r4}
    Keys = {k1}
    NoKey = none
    Nobody = nobody
    Concurrency = 3
    Processes = {p1, p2, p3}
    Users = {u1, u2}
    Unlocked = unlocked
    MaxChanges = 1
    MaxOverruns = 1
SYMMETRY Symmetry
INVARIANTS
    RowsFollowTheirSession
    SameKeyBound
    LoadersBound
    CacheIsNewest
PROPERTIES
    NeverBack
CHECK_DEADLOCK FALSE
