SPECIFICATION FairSpec
CONSTANTS
  MaxSize = 4
  Chunk = 3
  MaxWrite = 2
  Fids <- MCFids
  Shrinks = TRUE
  HardErrors = TRUE
  MaxStalls = 2
  MaxRuns = 2
PROPERTY
  Terminates
CHECK_DEADLOCK FALSE
