SPECIFICATION FairSpec
CONSTANTS
    p1 = p1
    p2 = p2
    t1 = t1
    t2 = t2
    t3 = t3
    Plan = {p1, p2}
    Token = {t1, t2}
    Daemon = Daemon
    NoFile = NoFile
    NoTrial = NoTrial
    MaxBoots = 1
    Faults <- CommandFaults
    Overlap = FALSE
INVARIANT SettledAgree
PROPERTIES
    ImplementsChange
    RollbackTouchesOwnChange
    Settles
CHECK_DEADLOCK FALSE
