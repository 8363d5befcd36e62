SPECIFICATION BuilderSpec
CONSTANTS
  ImeiLen = 2
  NoFrame = NoFrame
  Imeis <- MCImeis
  Payloads <- MCPayloads
  Versions = {49}
  TTLs = {1}
  Seqs = {0, 1, 49}
  Checksum <- CRC16Modbus
  Noise = {1, 255}
  MaxFrames = 2
  Block = 4
  MaxCount = 7
  MaxSize = 40
  NoStart = NoStart
  MaxDur = 16384
  Bases = {0, 1, 2, 3, 5, 7, 12, 13, 100, 300, 800, 16383}
  MaxAttempts = 10
  BuildOf <- BuildPayload
  ValidPayload <- ValidateServerCommandPayload
  MaxRequests = 2
  MaxQueued = 2
  Patient = FALSE
CHECK_DEADLOCK FALSE
INVARIANTS
  QueuedAsBuilt
