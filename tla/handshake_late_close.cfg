SPECIFICATION Spec
CONSTANTS
    Callers = {g1, g2}
PROPERTIES
    CompletedStaysOpen
CHECK_DEADLOCK FALSE
