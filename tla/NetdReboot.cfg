SPECIFICATION FairSpec
CONSTANTS
    p1 = p1
    p2 = p2
    t1 = t1
    t2 = t2
    t3 = t3
    Plan = {p1, p2}
    Token = {t1}
    Daemon = Daemon
    NoFile = NoFile
    NoTrial = NoTrial
    MaxBoots = 1
    Faults <- RebootOnly
    Overlap = TRUE
PROPERTY Settles
CHECK_DEADLOCK FALSE
