SPECIFICATION Spec
CONSTANTS
  Repos = {1, 2}
  Host <- TwoHosts
  Branches = {1, 2}
  Loaded <- TwoProjects
  Outside <- OneOutside
  UserOps = {"click", "activate", "switch", "tab", "close", "add", "prompt", "import", "rmwt", "rmproj", "open", "poll", "exit"}
  MaxRequests = 2
  MaxLosses = 1
INVARIANTS TypeOK PointersInRange TabsAreSessions SavedIsShown LandsUnlessCrossed NothingStray NotWedged
PROPERTY PointersFollow
CHECK_DEADLOCK FALSE
