SPECIFICATION CallerSpec
CONSTANTS
  NBT = 2
  MaxLen = 2
  Packets <- MCPackets
  RawSizes = {0, 1, 2}
  Async = TRUE
  MaxSent = 3
INVARIANTS
  TypeOK
  Framed
  IInv
PROPERTIES
  DeliversInOrder
  Answered
  BlockingLosesNothing
CHECK_DEADLOCK FALSE
