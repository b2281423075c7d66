\* Requests that overlap and fail, within one control period.
SPECIFICATION Spec
CONSTANTS
    Handlers = {h1, h2}
    Ids = {1, 2, 3, 4}
    NoId = 0
    Attempts = 1
    Groups = 2
    SameGroupTimeout = 1
    GroupTimeout = 3
    LimitTimeout = 99
    CodeLifetime = 3
    Step = 2
    MaxTime = 6
    Faults = TRUE
SYMMETRY Symmetry
INVARIANTS
    UsableCodesBound
    UsesBound
    SomeCodeLeft
    GroupSizeBound
PROPERTIES
    ConfirmedForever
CHECK_DEADLOCK FALSE
