SPECIFICATION Spec
CONSTANTS
    Base = 8
    Digits = 2
    ByteXor <- MCXor
    Fill = {0, 3, 5}
    First <- MCFirst
    Later <- MCLater
INVARIANTS
    CodecTypeOK
    WholeHeard
    AcceptedWasSent
    AskedHeard
    ObjectHeard
    ParsedAsAsked
CHECK_DEADLOCK FALSE
