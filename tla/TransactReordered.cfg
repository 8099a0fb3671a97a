SPECIFICATION Spec
CONSTANTS
  MaxSetup = 2
  MaxParam = 1
  MaxData = 2
  MaxFrags = 2
  MaxTxn = 2
  Ordered = FALSE
  SetupInParts = FALSE
INVARIANT
  ReplyWhole
CHECK_DEADLOCK FALSE
