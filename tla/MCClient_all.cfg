SPECIFICATION ClientSpec
CONSTANTS
  LinkSetups <- MCLinkSetups
  MaxDials = 2
  MaxFaults = 2
  MaxAsks = 3
  MaxChecks = 4
  Names = {1, 2}
  NameLength <- MCNameLength
  MaxOpens = 3
  MaxCrashes = 1
  MaxMishaps = 1
  Overlays <- MCOverlays
  MaxShells = 2
  MaxTyped = 3
  MaxEvents = 3
  MaxSupervisor = 3
  Projects = {1, 2, 3}
  LogCap = 5
  ScanWindow = 4
  MaxSequences = 4
INVARIANTS RegistryIsTrue TrustLasts InstallsAsked OneInstall RestartShows NothingReturns WrittenIsKept TypedKeysArrive PopupsMeanWhatTheyShow KeyboardAgrees
PROPERTY DialSettles
CHECK_DEADLOCK FALSE
