SPECIFICATION Spec
CONSTANTS
  Chars = {"a", "A", "b"}
  Fold <- FoldCase
  LineLen = 5
  Depth = 4
  Repeats = {1, 2}
  Inserts <- SomeInserts
  Files <- Histories
  MaxKeys = 5
INVARIANTS
  TypeOK
  LineTerminated
  ScreenShowsLine
  ScrollRoundTrip
PROPERTIES
  IsTextLine
CHECK_DEADLOCK FALSE
