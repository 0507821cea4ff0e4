SPECIFICATION Spec
CONSTANTS
    c1 = c1
    c2 = c2
    Clients = {c1, c2}
    MaxPending = 2
    MaxErrors = 2
    Faults = {"noise", "resources", "refusal", "io", "kill"}
    Timed = FALSE
SYMMETRY ClientSymmetry
INVARIANTS
    TypeOK
    UniqueWorkers
    WorkersHavePipes
    AnnouncedServed
PROPERTIES
    InboxStableWhileHandling
    OnlyOwnerLeaves
    ImplementsRegistry
