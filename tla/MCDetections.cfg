SPECIFICATION MCSpec
CONSTANTS
  c1 = c1
  c2 = c2
  c3 = c3
  None = None
  Caller = {c1, c2, c3}
  MaxOld = 1
  MaxLookups = 1
  MaxValkey = 1
  MaxLosses = 1
  f1 = f1
  h1 = h1
  h2 = h2
  sid = sid
  Events <- OneFlow
  Engines = {"g1"}
  Analysts = {"ann"}
  NoEvent = NoEvent
  NoTask = NoTask
  NoRow = NoRow
  NoSig = NoSig
  NoTime = NoTime
  SessionTTL = 0
  Window = 1
  HitTime = 1
  MaxRules = 1
  MaxFailures = 1
  ip1 = ip1
  m1 = m1
  m2 = m2
  j1 = j1
  j2 = j2
  Ips = {ip1}
  Macs = {m1, m2}
  n = n
  Names = {n}
  Jobs = {j1, j2}
  NoMac = NoMac
  NoName = NoName
  NoJob = NoJob
  AssetTime = 2
  MaxRows = 3
  Nobody = Nobody
  FlowEngines = {"g1", "g2"}
  FlowSources = {"s"}
  Targets = {"d"}
  Used = {"port-scan"}
  Short = 1
  Long = 2
  Day = 2
  FlowTime = 2
  MaxHits = 2
  FlowFaults = 1
  Peers = {m1, m2}
  History = 2
  Kept = 2
  BaseDay = 1
  BaseTime = 3
  MaxEvents = 3
  MaxJobs = 2
  BaseFaults = 1
INVARIANTS TypesOK IssuedInOrder RepeatHasFirst OneEngineCorroborates 
PROPERTIES IssuesNumbers KnownIsQuiet SoleContactIsKnown
SYMMETRY Twins
CHECK_DEADLOCK FALSE
