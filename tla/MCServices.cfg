SPECIFICATION MCSpec
CONSTANTS
  p1 = p1
  p2 = p2
  s1 = s1
  s2 = s2
  Processes = {p1, p2}
  Probes = {s1, s2}
  NoJob = NoJob
  NoRow = NoRow
  NoTime = NoTime
  Keys = {"group"}
  GroupPair <- OnePair
  GroupAlerts <- OddOrProtected
  Runs = {"run"}
  Manual = {}
  Analysts = {"analyst"}
  AnalystSensors <- OwnSensor
  Answers = {"suspicious", "none"}
  Limit = 1
  PerRun = 2
  MaxHour = 1
  TriageFaults = 1
  NoRec = NoRec
  NoDoc = NoDoc
  Cids = {"c1", "c2"}
  SessionPair <- OwnPair
  PairHost <- OneHost
  CapTTL = 1
  FireTTL = 1
  PairTTL = 2
  HourTTL = 1
  HostMax = 1
  Permits = 2
  EvidenceTime = 3
  EvidenceFaults = 1
  Flows = {"f1"}
  FlowHolders <- EveryProbe
  NoFlow = NoFlow
  Day = 2
  Misses = 2
  MaxTries = 3
  CaptureTime = 4
  CaptureFaults = 1
  All = All
  Nothing = Nothing
  MaxCommands = 3
  CommandTime = 2
  CommandFaults = 1
  Engines = {"e1"}
  Bundles = {"b1", "b2"}
  Sessions = {"c1"}
  NoBundle = NoBundle
  RawDays = {14, 60}
  FirstTTL = 30
  Life = 0
  MaxDays = 1
  MaxEdits = 2
  Logs = {"l1", "l2"}
  EntityOf <- OneEntity
  MatchesOf <- EveryRule
  Matching = {"r1"}
  Storage = {"st"}
  Nobody = Nobody
  NoAlert = NoAlert
  DedupTTL = 2
  SiemTime = 4
  SiemFaults = 2
  Machines = {"h1", "h2"}
  NoWindow = NoWindow
  BruteForceMin = 2
  BruteForceWindow = 1
  PrivEscWindow = 1
  LateralMin = 2
  LateralWindow = 1
  BeaconMin = 3
  BeaconWindow = 2
  BeaconTolerance = 0
  BeaconMaxMean = 2
  RuleTime = 3
  MaxEvents = 4
  MaxToggles = 1
SYMMETRY Symmetry
INVARIANTS TypesOK   FulfilledStays  AlertsAreApart 
 
CHECK_DEADLOCK FALSE
