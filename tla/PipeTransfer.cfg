SPECIFICATION FairSpec
CONSTANTS
    s1 = s1
    s2 = s2
    r1 = r1
    r2 = r2
    Sends = {s1, s2}
    Receives = {r1, r2}
    Once = {r2}
    Size <- MCSize
    Attempts = 1
    Capacity = 3
    Atomic = 2
    Chunk = 2
    Patience <- MCPatience
    Wrap = 8
INVARIANTS
    TypeOK
    SendAllOrNothing
    ReceivedWhole
    GivesUpAfterTimeOut
PROPERTIES
    ImplementsFrameFifo
    SendReturnsWhenRead
    ReceiveReturns
CHECK_DEADLOCK FALSE
