SPECIFICATION FairSpec
CONSTANTS
  MaxSize = 4
  BufSize = 3
  MaxRaw = 2
  MaxAndx = 3
  Fids <- MCFids
  Resizes = TRUE
  ReadErrors = TRUE
  MaxStalls = 2
  MaxRuns = 2
INVARIANTS
  TypeOK
  LocalIsPrefix
  OffsetsAgree
  HandleClosed
PROPERTIES
  CopiesFile
  Terminates
CHECK_DEADLOCK FALSE
