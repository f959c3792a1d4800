SPECIFICATION Spec
CONSTANTS
  Chunks <- LeftOutChunks
  Responses = {}
  MaxTabs = 0
  MaxBack = 0
  MaxRestarts = 0
  MaxResponses = 0
PROPERTY SetsAsSaid
CHECK_DEADLOCK FALSE
