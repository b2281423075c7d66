\* One address and an empty input, a code of three digits, all keys, three requests.
SPECIFICATION Spec
CONSTANTS
    Emails = {"me", ""}
    ValidEmails = {"me"}
    NoEmail = ""
    Digits = {"1", "2"}
    OtherKeys = {"backspace", "left", "right"}
    CodeLength = 3
    MaxRequests = 3
    MaxKeys = 5
INVARIANTS
    TypeOK
    CodeAsTyped
CHECK_DEADLOCK FALSE
