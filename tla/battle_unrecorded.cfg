CONSTANTS
  Byte = {0, 1}
  Player = {p1, p2}
  NoPlayer = NoPlayer
  Signature <- AllFit
  MaxAsked = 2
  MaxConfirmed = 1
  OutsideCalls = FALSE
SPECIFICATION FairSpec
PROPERTY
  BattleRegistered
CHECK_DEADLOCK FALSE
