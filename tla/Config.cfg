SPECIFICATION ConfigSpec
CONSTANTS
    b1 = b1
    b2 = b2
    b3 = b3
    l1 = l1
    l2 = l2
    x1 = x1
    x2 = x2
    r1 = r1
    r2 = r2
    Absent = Absent
    Down = Down
    None = None
    Body <- Bodies
    Listener <- Listeners
    Listen <- Listens
    RuleFile <- RuleFiles
    Clash <- Clashes
    Request <- Requests
    Faults <- AllFaults
    KeepRevisions = 1
    MaxTxns = 3
    MaxLate = 1
    MaxBackups = 1
SYMMETRY Interchangeable
CHECK_DEADLOCK FALSE
INVARIANTS
    AnsweredIsServed
    RolledBack
    UndoAvailable
    AppliedAsAsked
    FilesBuild
