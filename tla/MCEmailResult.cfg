\* No fault at all: the result of a mail is not recorded.
SPECIFICATION Spec
CONSTANTS
    Messages = {m1}
    Workers = {w1}
    NoWorker = none
    RetryLimit = 2
    MaxFaults = 0
INVARIANTS
    ResultRecorded
CHECK_DEADLOCK FALSE
