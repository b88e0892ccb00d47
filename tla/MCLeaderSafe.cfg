SPECIFICATION Spec
CONSTANTS
    e1 = e1
    e2 = e2
    Engine <- TwoEngines
    None = None
    TTL = 2
    RenewEvery = 1
    RetryEvery = 1
    MaxLate = 1
    MaxCuts = 1
    MaxStops = 2
SYMMETRY Symmetry
INVARIANTS TypeOK ExclusiveWhileTimely
PROPERTY ImplementsLease
