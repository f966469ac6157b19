SPECIFICATION Spec
CONSTANTS
    p1 = p1
    p2 = p2
    t1 = t1
    t2 = t2
    t3 = t3
    Plan = {p1, p2}
    Token = {t1, t2}
    Daemon = Daemon
    NoFile = NoFile
    NoTrial = NoTrial
    MaxBoots = 1
    Faults <- NoStop
    Overlap = TRUE
SYMMETRY Symmetry
INVARIANTS
    PendingHasBackup
    ConfirmedIsFinal
CHECK_DEADLOCK FALSE
