CONSTANTS
    Kinds = {"sign_in", "token_refresh", "sign_out"}
    Requests = {r1, r2, r3}
    Concurrency = 2
    Devices = {d1}
    Jti = {1, 2, 3}
    NoJti = 0
    Second = 1
    AccessLife = 2
    RefreshLife = 3
    MaxTime = 3
    Faults = TRUE
SPECIFICATION Spec
SYMMETRY Symmetry
CHECK_DEADLOCK FALSE
INVARIANTS
    TypeOK
    RevokedUntilLastSecond
    NoRevokedAccess
    HeldUntilRevoked
    RevokesAllHeldBefore
PROPERTY
    SessionsSpec
