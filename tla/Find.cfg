SPECIFICATION FairSpec
CONSTANTS
  Dirs = {"root", "sub", "empty"}
  Files = {"f", "g"}
  Dots = {".", ".."}
  Root = "root"
  Content <- MCContent
  Sids = {0, 1, 2}
  MaxFaults = 2
  MaxStats = 1
INVARIANTS TypeOK SearchHeld EntryOnce Complete
PROPERTY Terminates
CHECK_DEADLOCK FALSE
