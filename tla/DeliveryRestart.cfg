SPECIFICATION Spec
CONSTANTS
  Commands <- CoreCommands
  Policies <- HighRetry
  Conns = {c1}
  NoConn = NoConn
  Sweeper = Sweeper
  NoProc = NoProc
  NumSeqs = 3
  MaxQueueDepth = 0
  MaxQueueBytes = 0
  OverflowPolicy = "reject"
  MaxFailures = 0
  FrameModes = {"sequenced"}
  Buffers = {0}
  Kinds = {"ack"}
  MaxCrashes = 1
INVARIANTS
  NoTwin
  NothingLost
  SettledOnce
  NoOverrun
  AckCorrelation
  TransmissionBound
  InFlightDurable
  PendingDurable
PROPERTIES
  AckFindsCommand
