SPECIFICATION ReloadSpec
CONSTANTS
    Request = {q1, q2}
    Sighup = Sighup
    None = None
    MaxBuilds = 3
    b1 = b1
    l1 = l1
    x1 = x1
    r1 = r1
    r2 = r2
    Absent = Absent
    Down = Down
    KeepRevisions = 1
    MaxTxns = 2
    MaxLate = 1
    MaxBackups = 0
INVARIANTS
    RuntimeStaysUsable
    AllClosed
PROPERTIES
    NewestWins
    Stops
    Answered
CHECK_DEADLOCK FALSE
