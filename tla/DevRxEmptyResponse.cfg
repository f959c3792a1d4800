\* A response without payload.
CONSTANTS
  HdrSize <- RealHdrSize
  Messages <- EmptyResponses
  Garbage <- NoGarbage
  ChunkLens = {1, 6}
  MaxMsgs <- TwoResponses
  WireCap = 1
  MaxUnplugs = 0
  MaxTx = 0
  EarlyTx = FALSE
SPECIFICATION FairSpec
PROPERTY EmptyResponseCompletes
