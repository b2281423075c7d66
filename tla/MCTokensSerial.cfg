CONSTANTS
    Kinds = {"sign_in", "token_refresh", "sign_out", "api"}
    Requests = {r1, r2, r3}
    Concurrency = 1
    Devices = {d1, d2}
    Jti = {1, 2, 3, 4}
    NoJti = 0
    Second = 2
    AccessLife = 2
    RefreshLife = 3
    MaxTime = 5
    Faults = FALSE
SPECIFICATION Spec
SYMMETRY Symmetry
CHECK_DEADLOCK FALSE
INVARIANTS
    LiveRefreshBound
    NewSessionUsable
