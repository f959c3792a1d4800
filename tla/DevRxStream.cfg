\* What is queued arrives, and a device that comes back is opened again.  The
\* loop stops for good when the response handler hangs.
CONSTANTS
  HdrSize <- SmallHdrSize
  Messages <- FewMessages
  Garbage <- SomeGarbage
  ChunkLens = {0, 1, 3}
  MaxMsgs <- OneLogTwoResponses
  WireCap = 1
  MaxUnplugs = 2
  MaxTx = 0
  EarlyTx = FALSE
SPECIFICATION FairSpec
PROPERTY AllDelivered
PROPERTY Reconnects
CHECK_DEADLOCK FALSE
