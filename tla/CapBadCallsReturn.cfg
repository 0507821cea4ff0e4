SPECIFICATION FairSpec
CONSTANTS
    c1 = c1
    c2 = c2
    Clients = {c1}
    MaxPending = 1
    MaxErrors = 1
    Faults = {}
    Timed = TRUE
PROPERTIES
    CallsReturn
CHECK_DEADLOCK FALSE
