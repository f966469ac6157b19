SPECIFICATION Spec
CONSTANTS
    d1 = d1
    d2 = d2
    c1 = c1
    c2 = c2
    k1 = k1
    k2 = k2
    l1 = l1
    l2 = l2
    n1 = n1
    n2 = n2
    n3 = n3
    Dir = {d1, d2}
    Managed = {d1}
    Cert = {c1, c2}
    Key = {k1, k2}
    KeyOf <- Keys
    Domain = {n1, n2, n3}
    Covers <- Covered
    DomainOf <- Slugs
    Candidate <- Candidates
    Absent = Absent
    Down = Down
    None = None
    Faults <- FaultKind
    MaxOps = 2
    MaxMishaps = 1
CHECK_DEADLOCK FALSE
INVARIANTS
    PairsMatch
    AnsweredIsServed
    Undone
    RefusedForCause
PROPERTIES
    ReferencedStays
    ReloadIsSafe
