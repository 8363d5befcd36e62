SPECIFICATION Spec
CONSTANTS
  c1 = c1
  h1 = h1
  h2 = h2
  Conns = {c2, c3, c4}
  NoConn = NoConn
  Hosts = {h1, h2}
  HostOf <- MCHostOf
  Ids = {i1, i2}
  NoId = NoId
  MaxConnections = 2
  MaxPerHost = 3
  ViolationLimit = 1
SYMMETRY Symmetry
CHECK_DEADLOCK FALSE
INVARIANTS
  PerHostCount
  OnlineCounted
  CreateHasRoom
  DrainedClean
  BlockHolds
