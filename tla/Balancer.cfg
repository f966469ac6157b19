SPECIFICATION BalancerSpec
CONSTANTS
    Recorder = {q1, q2, check}
    Checker = check
    HealthyThreshold = 2
    UnhealthyThreshold = 2
    m1 = m1
    m2 = m2
    m3 = m3
    Member = {m1, m2, m3}
    Backup = {m3}
    Place <- MCPlace
    Weight <- MCWeight
    Priority <- MCPriority
    Algorithm <- MCAlgorithm
    Request = {r1}
    None = None
    RRWidth = 4
INVARIANT WeightsBalanced
PROPERTIES
    Converges
    PrefersHealthy
    GivesUpLate
