\* A block that is not a DWORD.
CONSTANTS
  Base = 4
  Files <- HalfBlock
  Memories <- TargetMemory
  Crc <- RegionCrc
  MaxCmds = 1
  MaxPlain = 0
  MaxLosses = 0
  MaxRefusals = 0
SPECIFICATION Spec
INVARIANT ImageMatches
CHECK_DEADLOCK FALSE
