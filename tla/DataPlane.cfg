SPECIFICATION DataPlaneSpec
CONSTANTS
    Key = {k1}
    Caller = {c1, c2}
    Rate = 1
    Cost = 3
    Burst = 3
    TTL = 7
    MaxDelay = 1
    MaxTime = 10
    None = None
    Runtimes <- MCRuntimes
    NoRuntime = NoRuntime
    NoRoute = "none"
    Trusted <- MCTrusted
    Unparsable = "unparsable"
    Unknown = "unknown"
    Hosts <- MCHosts
    Peers <- MCPeers
    Lines <- MCLines
    Headers <- MCHeaders
    AccessLists <- MCAccess
    Rules <- MCRules
    Threshold = 5
    Reporter = {w1, w2}
    Capacity = 3
    MaxEvents = 6
INVARIANTS
    GrantsBounded
    NothingLost
    CertificateOfRoute
    NearestStrangerDecides
    ForwardedExactly
    Audited
    RecentIsTail
CHECK_DEADLOCK FALSE
