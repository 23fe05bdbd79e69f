SPECIFICATION Spec
CONSTANTS
  Repos = {1}
  Host <- OneHost
  Branches = {1, 2, 3, 4}
  Loaded <- FiveRows
  Outside = {}
  UserOps = {"click", "tab", "launch", "poll", "rmwt", "exit"}
  MaxRequests = 3
  MaxLosses = 0
INVARIANT LandsUnlessCrossed
PROPERTY PointersFollow
CHECK_DEADLOCK FALSE
