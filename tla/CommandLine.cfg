SPECIFICATION ProgramSpec
CONSTANTS
    l1 = l1
    l2 = l2
    NoLoop = NoLoop
    Loops = {l1, l2}
    Owners = {"any", "careful", "sub", "send"}
    Counts <- MCCounts
    MostHeard = 3
INVARIANTS
    ProgramTypeOK
    CarefulUsesNoFreed
    RunningMeansLooping
    ProgramsUseNoFreed
    SuccessLeavesNothing
PROPERTIES
    CarefulLoopStopReturns
    ProgramsEnd
CHECK_DEADLOCK FALSE
