SPECIFICATION Spec
CONSTANTS
  Dirs = {"root", "sub", "empty"}
  Files = {"f", "g"}
  Dots = {".", ".."}
  Root = "root"
  Content <- MCContent
  Sids = {0, 1, 2}
  MaxFaults = 1
  MaxStats = 0
INVARIANT ClosedOnRequest
CHECK_DEADLOCK FALSE
