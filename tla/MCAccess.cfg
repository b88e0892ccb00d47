SPECIFICATION MCSpec
CONSTANTS
  root = root
  u1 = u1
  u2 = u2
  t1 = t1
  t2 = t2
  Ids = {root, u1, u2}
  Root = root
  Clients = {root, u1}
  Tenants = {t1, t2}
  TokenTTL = 2
  UserTTL = 1
  MaxTime = 2
  a1 = a1
  a2 = a2
  k1 = k1
  k2 = k2
  Admins = {a1, a2}
  Features = {"ndr", "ai"}
  NewTenant = "ndr"
  Sockets = {k1, k2}
  NoRow = NoRow
  GateTTL = 2
  RegistryTime = 5
  MaxRows = 3
  j1 = j1
  j2 = j2
  w1 = w1
  w2 = w2
  Jtis = {j1, j2}
  Workers = {w1, w2}
  NoJti = NoJti
  MaxSessions = 1
  SessionTTL = 2
  SessionTime = 4
SYMMETRY Symmetry
INVARIANTS TypesOK    SessionsEnd
CHECK_DEADLOCK FALSE
