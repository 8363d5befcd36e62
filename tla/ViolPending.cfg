SPECIFICATION Spec
CONSTANTS
  Commands <- QueryOnly
  Policies <- NoRetry
  Conns = {c1}
  NoConn = NoConn
  Sweeper = Sweeper
  NoProc = NoProc
  NumSeqs = 3
  MaxQueueDepth = 0
  MaxQueueBytes = 0
  OverflowPolicy = "reject"
  MaxFailures = 0
  FrameModes = {"sequenced"}
  Buffers = {5, 50}
  Kinds = {"ack", "status1"}
  MaxCrashes = 0
INVARIANTS
  PendingDurable
