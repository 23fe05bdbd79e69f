SPECIFICATION Spec
CONSTANTS
  Repos = {1}
  Host <- OneHost
  Branches = {1, 2}
  Loaded <- ThreeRowsNoPr
  Outside = {}
  UserOps = {"click", "tab", "rmwt"}
  MaxRequests = 3
  MaxLosses = 0
INVARIANT LandsWhereAsked
CHECK_DEADLOCK FALSE
