\* Two requests: one goes on with the service of the other.
SPECIFICATION RouterSpec
CONSTANTS
    Requests = {r1, r2}
    Keys = {k1}
    NoKey = none
    Nobody = nobody
    Concurrency = 2
INVARIANTS
    OwnSession
CHECK_DEADLOCK FALSE
