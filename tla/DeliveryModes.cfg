SPECIFICATION Spec
CONSTANTS
  Commands <- ModeCommandSet
  Policies <- NoRetry
  Conns = {c1, c2}
  NoConn = NoConn
  Sweeper = Sweeper
  NoProc = NoProc
  NumSeqs = 3
  MaxQueueDepth = 0
  MaxQueueBytes = 0
  OverflowPolicy = "reject"
  MaxFailures = 1
  FrameModes = {"sequenced"}
  Buffers = {5}
  Kinds = {"status1", "fwdone"}
  MaxCrashes = 0
SYMMETRY ConnSymmetry
INVARIANTS
  SessionOwner
  NothingLost
PROPERTIES
  ModesRespected
