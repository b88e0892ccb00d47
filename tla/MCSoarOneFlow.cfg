SPECIFICATION Spec
CONSTANTS
    s = s
    e = e
    c = c
    m = m
    g1 = g1
    g2 = g2
    n1 = n1
    None = None
    Alert <- TwoAlerts
    Analyst <- NoAnalyst
    Engine <- Engines
    Tag <- TagNames
    Tags <- TwoTags
    Severity <- TwoSeverities
    Intel <- TwoIntel
    Playbooks <- TwoPlaybooks
    Manual <- NoRequests
    Canonical <- CanonicalTags
    Generic <- GenericTags
    ClaimTTL = 2
    FlowWindow = 1
    KindWindow = 3
    MaxTime = 0
    MaxFaults = 0
    EditRank <- Lowest
    MaxChanges = 0
CHECK_DEADLOCK FALSE
INVARIANTS OneFlowOneIncident
