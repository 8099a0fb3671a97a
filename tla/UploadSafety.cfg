SPECIFICATION Spec
CONSTANTS
  MaxSize = 4
  Chunk = 3
  MaxWrite = 2
  Fids <- MCFids
  Shrinks = FALSE
  HardErrors = FALSE
  MaxStalls = 1
  MaxRuns = 3
INVARIANTS
  TypeOK
  RemoteIsPrefix
  NoGap
  HandleClosed
PROPERTY
  CopiesFile
CHECK_DEADLOCK FALSE
