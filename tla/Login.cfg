SPECIFICATION Spec
CONSTANTS
    k1 = k1
    k2 = k2
    k3 = k3
    k4 = k4
    a1 = a1
    a2 = a2
    Key = {k1, k2, k3, k4}
    Attempt = {a1, a2}
    MaxFailures = 2
    Window = 2
    PruneAt = 1
    MaxKeys = 1
    MaxTime = 4
    None = None
SYMMETRY Symmetry
INVARIANTS
    GuessesBounded
    TableBounded
PROPERTY EntryWithinBudget
CHECK_DEADLOCK FALSE
