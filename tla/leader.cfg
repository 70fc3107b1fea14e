CONSTANTS
  N = 3
  MaxCrashes = 1
  MayLaunch = TRUE
  MaySuspect = TRUE
SPECIFICATION FairSpec
INVARIANTS
  LeadershipTypeOK
  OneLeader
PROPERTIES
  LeaderRuns
  LowestLeads
CHECK_DEADLOCK FALSE
