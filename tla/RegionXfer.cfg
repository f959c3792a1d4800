\* File reads and writes, plain writes, disconnections and refused reads.
CONSTANTS
  Base = 4
  Files <- AllFiles
  Memories <- TargetMemory
  Crc <- RegionCrc
  MaxCmds = 2
  MaxPlain = 1
  MaxLosses = 1
  MaxRefusals = 1
SPECIFICATION FairSpec
INVARIANT TypeOK
INVARIANT OneTransfer
INVARIANT WaitsForAnswer
INVARIANT ImageMatches
INVARIANT ValidAtRest
PROPERTY ReportFaithful
PROPERTY TornWriteShows
PROPERTY Completes
CHECK_DEADLOCK FALSE
