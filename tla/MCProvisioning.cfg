CONSTANTS
    v = v
    na = na
    nb = nb
    s1 = s1
    s2 = s2
    pa = pa
    pr = pr
    ghost = ghost
    RouterRequest = {o1, o2}
    Segment <- MCSegment
    Mgmt = Mgmt
    NoAnswer = NoAnswer
    MaxRouterRequests = 3
    MaxRouterFaults = 1
    WifiRequest = {o1, o2}
    Name = {guest, staff}
    Tag = {tag}
    Untagged = Untagged
    WriteAttempts = 2
    MaxIds = 5
    MaxWifiRequests = 2
    MaxWifiFaults = 3
    ProvisionRequest = {o1, o2}
    Vlan = {v1, v2}
    Port = {pa, pr, px}
    Router = Router
    AccessPoint = AccessPoint
    Nowhere = Nowhere
    UplinkSettings <- MCSettings
    Cablings <- MCCablings
    Lines = 1
    MaxProvisionRequests = 2
    MaxProvisionFaults = 1
    MaxMoves = 1
SPECIFICATION MCSpec
INVARIANTS ManagementKept ProvisionedServes TeardownComplete DeletedStaysGone ProvisionLeavesOne TrunksReachPeers TeardownUntrunks SessionsGivenBack
SYMMETRY Symmetric
CHECK_DEADLOCK FALSE
