\* Two mails, two worker processes, two faults anywhere.
SPECIFICATION Spec
CONSTANTS
    Messages = {m1, m2}
    Workers = {w1, w2}
    NoWorker = none
    RetryLimit = 2
    MaxFaults = 2
INVARIANTS
    TypeOK
    AnsweredIsCommitted
    AckedIsSettled
    MailsBound
PROPERTIES
    EventuallySettled
CHECK_DEADLOCK FALSE
