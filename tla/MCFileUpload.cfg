\* Three uploads, all at a time, to two fields and two buckets, two faults anywhere.
SPECIFICATION Spec
CONSTANTS
    Requests = {u1, u2, u3}
    NoRow = none
    Fields = {"photo", "gallery"}
    Multiple = {"gallery"}
    Buckets = {"images", "files"}
    MaxInFlight = 3
    MaxFaults = 2
INVARIANTS
    RowsWithoutObjectBound
    OrphansBound
    FieldHoldsItsFiles
CHECK_DEADLOCK FALSE
