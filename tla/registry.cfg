CONSTANTS
  N = 3
  MaxCrashes = 1
  MayLaunch = FALSE
  MaySuspect = FALSE
  Player = {p1, p2}
  MaxBroadcasts = 2
  MayTimeOut = TRUE
SPECIFICATION RegistrySpec
INVARIANTS
  RegistryTypeOK
  ListsComparable
  LeaderKnowsAll
SYMMETRY PlayersAlike
CHECK_DEADLOCK FALSE
