SPECIFICATION Spec
CONSTANTS
  Commands <- LimitCommands
  Policies <- HighRetry
  Conns = {c1}
  NoConn = NoConn
  Sweeper = Sweeper
  NoProc = NoProc
  NumSeqs = 3
  MaxQueueDepth = 1
  MaxQueueBytes = 65700
  OverflowPolicy = "drop_oldest"
  MaxFailures = 0
  FrameModes = {"compact"}
  Buffers = {0}
  Kinds = {"other"}
  MaxCrashes = 0
INVARIANTS
  NothingLost

  
