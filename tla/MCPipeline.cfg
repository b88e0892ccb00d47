SPECIFICATION MCSpec
CONSTANTS
    a = a
    b = b
    g1 = g1
    g2 = g2
    Event <- TwoEvents
    Engine <- TwoEngines
    None = None
    ChanCap = 1
    MaxTopic = 2
    MaxRevokes = 1
    MaxRedis = 1
    MaxInsert = 1
    Names = {"a", "b"}
    Patterns = {"s*"}
    Forms = {"test", "negated"}
    MaxWords = 4
CHECK_DEADLOCK FALSE
INVARIANTS TypesOK StoredOnce 
  
