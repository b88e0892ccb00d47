SPECIFICATION MCSpec
CONSTANTS
  r1 = r1
  r2 = r2
  Request <- TwoRequests
  MaxAdmin = 3
  MaxFaults = 2
  w1 = w1
  w2 = w2
  w3 = w3
  Workers = {w1, w2, w3}
  MaxAttempts = 5
  LockTime = 2
  MaxCrashes = 1
INVARIANTS TypesOK CleanRevocationHolds 
PROPERTY EntriesExpire
