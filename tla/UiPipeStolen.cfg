\* The IO process is killed once, while the UI runs on.
CONSTANTS
  NumCmds = 2
  MaxExits = 0
  MaxCrashes = 1
  MaxResponses = 0
  MaxCommands = 0
SPECIFICATION FairSpec
PROPERTY Reconnects
