\* A response is queued while the UI handles a message.
CONSTANTS
  NumCmds = 2
  MaxExits = 0
  MaxCrashes = 0
  MaxResponses = 1
  MaxCommands = 0
SPECIFICATION Spec
PROPERTY EndsOnRequest
