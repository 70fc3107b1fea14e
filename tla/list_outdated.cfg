CONSTANTS
  N = 2
  MaxCrashes = 0
  MayLaunch = FALSE
  MaySuspect = FALSE
  Player = {p1, p2}
  MaxBroadcasts = 2
  MayTimeOut = FALSE
SPECIFICATION RegistrySpec
INVARIANT ListsUpToDate
SYMMETRY PlayersAlike
CHECK_DEADLOCK FALSE
