\* The cable is pulled at any moment, and the device may talk before it is opened.
CONSTANTS
  HdrSize <- SmallHdrSize
  Messages <- FewMessages
  Garbage <- AnyGarbage
  ChunkLens = {3}
  MaxMsgs <- TwoLogsOneResponse
  WireCap = 1
  MaxUnplugs = 1
  MaxTx = 1
  EarlyTx = TRUE
SPECIFICATION Spec
INVARIANT TypeOK
INVARIANT ReadArmed
INVARIANT ChunkInSync
INVARIANT RequestInBounds
INVARIANT DeliveredIntact
INVARIANT HangsOnlyOutOfStep
CHECK_DEADLOCK FALSE
