SPECIFICATION Spec
CONSTANTS
    i1 = i1
    i2 = i2
    i3 = i3
    n1 = n1
    n2 = n2
    n3 = n3
    d1 = d1
    d2 = d2
    k1 = k1
    k2 = k2
    r1 = r1
    r2 = r2
    Id = {i1, i2}
    Username = {n1, n2}
    Display = {d1}
    Role <- Roles
    Token = {k1, k2}
    Request = {r1, r2}
    MaxHash = 3
    None = None
    Bad = Bad
    Faults <- SaveAndCrash
SYMMETRY Symmetry
INVARIANTS
    AdminRemains
    SetupOnce
    SessionsRevoked
    DiskKeepsUp
CHECK_DEADLOCK FALSE
