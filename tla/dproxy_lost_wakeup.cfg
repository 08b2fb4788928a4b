SPECIFICATION FairSpec
CONSTANTS
    Callers = {c1, c2}
    Shards = {sa}
    Cancellers = {}
    NoShard = NoShard
    MaxStarts = 3
PROPERTIES
    JoinerReturns
CHECK_DEADLOCK FALSE
