SPECIFICATION Spec
CONSTANTS
  Chunks <- SomeChunks
  Responses <- SomeResponses
  MaxTabs = 1
  MaxBack = 2
  MaxRestarts = 1
  MaxResponses = 1
INVARIANTS
  TypeOK
  
  IoAccepts
  SuggestsCandidates
  
PROPERTIES
  CompletesName
  IsMenu
CHECK_DEADLOCK FALSE
