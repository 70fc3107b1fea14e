CONSTANTS
  Byte = {0, 1}
  Player = {p1, p2}
  NoPlayer = NoPlayer
  Signature <- SomeFit
  MaxAsked = 2
  MaxConfirmed = 1
  OutsideCalls = TRUE
SPECIFICATION FairSpec
INVARIANTS
  SessionsTypeOK
  WinnerAsked
  NoFreeWins
  LockedByLoop
PROPERTY
  MenuReturns
CHECK_DEADLOCK FALSE
