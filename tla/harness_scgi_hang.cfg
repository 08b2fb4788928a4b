SPECIFICATION FairSpec
CONSTANTS
    Cases = {c1}
    Conns = {h1}
    Handlers <- AllHandlers
PROPERTIES
    VerdictGiven
CHECK_DEADLOCK FALSE
