SPECIFICATION MCSpec
CONSTANTS
    s = s
    e = e
    c = c
    m = m
    g1 = g1
    g2 = g2
    n1 = n1
    None = None
    Alert <- FourAlerts
    Analyst <- Analysts
    Engine <- OneEngine
    Tag <- TagNames
    Tags <- FourTags
    Severity <- FourSeverities
    Intel <- FourIntel
    Playbooks <- FourPlaybooks
    Manual <- Requests
    Canonical <- CanonicalTags
    Generic <- GenericTags
    ClaimTTL = 1
    FlowWindow = 1
    KindWindow = 1
    MaxTime = 1
    MaxFaults = 2
    EditRank <- Lowest
    MaxChanges = 1
    j1 = j1
    j2 = j2
    Jobs = {j1, j2}
    Hosts = {"h"}
    Devices = {"d"}
    Methods = {"arp", "snmp", "aruba"}
    ListLimit = 1
    NoTask = NoTask
    MaxRequests = 3
    CallFaults = 1
SYMMETRY JobSymmetry
CHECK_DEADLOCK FALSE
INVARIANTS TypesOK OneActsPerWindow NotBelowOpening SuppressedIsHandled 
