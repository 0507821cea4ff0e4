SPECIFICATION ProtocolSpec
CONSTANTS
    c1 = c1
    c2 = c2
    Clients = {c1, c2}
    MaxPending = 2
    MaxErrors = 2
    Strangers = {}
    MaxCalls <- OneCall
    Faults = {"resources"}
    Timed = TRUE
INVARIANTS
    Served
CHECK_DEADLOCK FALSE
