SPECIFICATION FairSpec
CONSTANTS
    c1 = c1
    c2 = c2
    group = group
    Clients = {c1}
    Groups = {group}
    Subscriptions <- EveryoneListens
    MaxMessages = 2
    MaxPending = 2
    Faults = {"noise", "io", "resources"}
INVARIANTS
    DispatchTypeOK
PROPERTIES
    StopWorkerReturns
    
CHECK_DEADLOCK FALSE
