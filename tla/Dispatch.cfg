SPECIFICATION Spec
CONSTANTS
    c1 = c1
    c2 = c2
    group = group
    Clients = {c1, c2}
    Groups = {group}
    Subscriptions <- EveryoneListens
    MaxMessages = 2
    MaxPending = 1
    Faults = {}
SYMMETRY ClientSymmetry
INVARIANTS
    ThreadsHaveWorkers
    HeardOnceInOrder
    HeardWasAddressed
PROPERTIES
    ProcessedMeansWritten
CHECK_DEADLOCK FALSE
