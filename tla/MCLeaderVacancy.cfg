SPECIFICATION FairSpec
CONSTANTS
    e1 = e1
    e2 = e2
    Engine <- TwoEngines
    None = None
    TTL = 3
    RenewEvery = 1
    RetryEvery = 1
    MaxLate = 0
    MaxCuts = 0
    MaxStops = 1
PROPERTY VacancyEnds
