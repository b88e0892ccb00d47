SPECIFICATION FairSpec
CONSTANTS
    e1 = e1
    e2 = e2
    Engine <- TwoEngines
    None = None
    TTL = 2
    RenewEvery = 1
    RetryEvery = 1
    MaxLate = 2
    MaxCuts = 0
    MaxStops = 1
PROPERTIES StaleLeaderStepsDown EventEndsVacancy
