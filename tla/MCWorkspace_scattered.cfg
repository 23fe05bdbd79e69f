SPECIFICATION Spec
CONSTANTS
  Repos = {1}
  Host <- OneHost
  Branches = {1, 2, 3}
  Loaded <- FourRows
  Outside = {}
  UserOps = {"select", "poll", "rmwt"}
  MaxRequests = 2
  MaxLosses = 0
INVARIANT StatusesShift
CHECK_DEADLOCK FALSE
