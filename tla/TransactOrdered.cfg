SPECIFICATION FairSpec
CONSTANTS
  MaxSetup = 2
  MaxParam = 2
  MaxData = 2
  MaxFrags = 3
  MaxTxn = 2
  Ordered = TRUE
  SetupInParts = FALSE
INVARIANTS
  TypeOK
  ReplyWhole
  InSync
  Accepted
PROPERTY
  Answered
CHECK_DEADLOCK FALSE
