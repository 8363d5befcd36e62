SPECIFICATION FairSpec
CONSTANTS
  c1 = c1
  h1 = h1
  h2 = h2
  Conns = {c2, c3}
  NoConn = NoConn
  Hosts = {h1, h2}
  HostOf <- MCHostOf
  Ids = {i1}
  NoId = NoId
  MaxConnections = 2
  MaxPerHost = 1
  ViolationLimit = 2
CHECK_DEADLOCK FALSE
PROPERTIES
  SlotReleased
  HeartbeatEnforced
  ShutdownCompletes
