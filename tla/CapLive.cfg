SPECIFICATION FairProtocolSpec
CONSTANTS
    c1 = c1
    c2 = c2
    Clients = {c1, c2}
    MaxPending = 3
    MaxErrors = 1
    Strangers = {c2}
    MaxCalls <- OneCall
    Faults = {"noise", "io"}
    Timed = FALSE
PROPERTIES
    SubscribeReturns
    StopReturns
    HandlerReturns
CHECK_DEADLOCK FALSE
