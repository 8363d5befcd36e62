SPECIFICATION Spec
CONSTANTS
  Commands <- QueryOnly
  Policies <- NoRetry
  Conns = {c1}
  NoConn = NoConn
  Sweeper = Sweeper
  NoProc = NoProc
  NumSeqs = 3
  MaxQueueDepth = 0
  MaxQueueBytes = 0
  OverflowPolicy = "reject"
  MaxFailures = 0
  FrameModes = {"sequenced"}
  Buffers = {50}
  Kinds = {"status1"}
  MaxCrashes = 0
PROPERTIES
  ForbiddenBlocked
