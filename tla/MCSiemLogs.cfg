SPECIFICATION Spec
CONSTANTS
  Logs = {"l1", "l2"}
  EntityOf <- OneEntity
  MatchesOf <- OneRule
  Rules = {"r1"}
  Storage = {"st"}
  Correlation = {"c1", "c2"}
  Nobody = Nobody
  NoJob = NoJob
  NoAlert = NoAlert
  DedupTTL = 2
  MaxTime = 3
  MaxFaults = 2
INVARIANT LogsAreStored
CHECK_DEADLOCK FALSE
