SPECIFICATION Spec
CONSTANTS
    Writers = {w1, w2}
    Keys = {k}
    Absent = Absent
    Nobody = Nobody
    MaxInserts = 3
    MaxTime = 1
PROPERTIES
    ImplementsAtomic
    InsertNotStale
CHECK_DEADLOCK FALSE
