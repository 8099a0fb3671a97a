SPECIFICATION Spec
CONSTANTS
  MaxSize = 4
  Chunk = 3
  MaxWrite = 2
  Fids <- MCFids
  Shrinks = FALSE
  HardErrors = TRUE
  MaxStalls = 1
  MaxRuns = 1
INVARIANT
  RemoteIsPrefix
CHECK_DEADLOCK FALSE
