SPECIFICATION FairSpec
CONSTANTS
  Commands <- WrapCommands
  Policies <- AllRetry
  Conns = {c1}
  NoConn = NoConn
  Sweeper = Sweeper
  NoProc = NoProc
  NumSeqs = 2
  MaxQueueDepth = 0
  MaxQueueBytes = 0
  OverflowPolicy = "reject"
  MaxFailures = 0
  FrameModes = {"sequenced"}
  Buffers = {0}
  Kinds = {"ack"}
  MaxCrashes = 0
PROPERTIES
  ImplementsLife
  EventuallySettled
