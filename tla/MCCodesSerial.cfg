\* One request at a time, none exactly on a limit.
SPECIFICATION Spec
CONSTANTS
    Handlers = {h1}
    Ids = {1, 2, 3, 4, 5, 6, 7}
    NoId = 0
    Attempts = 2
    Groups = 2
    SameGroupTimeout = 1
    GroupTimeout = 3
    LimitTimeout = 13
    CodeLifetime = 3
    Step = 2
    MaxTime = 26
    Faults = FALSE
SYMMETRY Symmetry
INVARIANTS
    Spacing
    PeriodBound
PROPERTIES
    CodeLimitSpec
CHECK_DEADLOCK FALSE
