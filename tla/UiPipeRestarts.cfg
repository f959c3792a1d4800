\* Either process is killed and started again, and the device answers, at any
\* moment.
CONSTANTS
  NumCmds = 2
  MaxExits = 2
  MaxCrashes = 2
  MaxResponses = 1
  MaxCommands = 2
SPECIFICATION FairSpec
INVARIANT TypeOK
INVARIANT LockStep
INVARIANT SlotsInOrder
INVARIANT TableCompleteIfQuiet
INVARIANT SessionsAgree
INVARIANT UiNotParked
INVARIANT IoNotParked
INVARIANT ReadsArmed
PROPERTY EndsOnRequestIfQuiet
PROPERTY BecomesReady
