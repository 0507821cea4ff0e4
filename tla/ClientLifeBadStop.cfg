SPECIFICATION FairSpec
CONSTANTS
    l1 = l1
    l2 = l2
    NoLoop = NoLoop
    Loops = {l1, l2}
    Owners = {"any"}
PROPERTIES
    LoopStopReturns
CHECK_DEADLOCK FALSE
