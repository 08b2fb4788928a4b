SPECIFICATION Spec
CONSTANTS
    Waiters = {w1, w2}
    Notifiers = {n1, n2}
    NotifyTries = 2
    MaxWaits = 3
    MaxErrors = 1
SYMMETRY ThreadSymmetry
INVARIANTS
    TypeOK
    Conservation
    NothingSaturates
    GuardHoldsMutex
PROPERTIES
    RegisteredReached
CHECK_DEADLOCK FALSE
