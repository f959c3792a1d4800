\* A log message cut off by a disconnect.
CONSTANTS
  HdrSize <- RealHdrSize
  Messages <- DbglOnly
  Garbage <- AnyGarbage
  ChunkLens = {1, 3}
  MaxMsgs <- TwoLogs
  WireCap = 1
  MaxUnplugs = 1
  MaxTx = 0
  EarlyTx = FALSE
SPECIFICATION Spec
INVARIANT LogMessageIsFull
