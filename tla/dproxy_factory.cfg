SPECIFICATION FairSpec
CONSTANTS
    Callers = {c1, c2, c3}
    Shards = {sa, sb}
    Cancellers = {c3}
    NoShard = NoShard
    MaxStarts = 2
INVARIANTS
    OneRunnerPerShard
    ReservationKept
    SharedRunner
PROPERTIES
    CleanupOwnEntry
    SubscriberWakes
CHECK_DEADLOCK FALSE
