SPECIFICATION FairSpec
CONSTANTS
  MaxSize = 4
  BufSize = 3
  MaxRaw = 2
  MaxAndx = 3
  Fids <- MCFids
  Resizes = TRUE
  ReadErrors = FALSE
  MaxStalls = 0
  MaxRuns = 1
PROPERTY
  StopsAtEOF
CHECK_DEADLOCK FALSE
