SPECIFICATION Spec
CONSTANTS
    a = a
    b = b
    g1 = g1
    g2 = g2
    Event <- OneEvent
    Engine <- TwoEngines
    None = None
    ChanCap = 1
    MaxTopic = 2
    MaxRevokes = 1
    MaxRedis = 0
    MaxInsert = 1
CHECK_DEADLOCK FALSE
PROPERTY NeverLosesData
