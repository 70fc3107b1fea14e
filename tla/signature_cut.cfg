CONSTANTS
  Byte = {0, 1}
  Player = {p1, p2}
  NoPlayer = NoPlayer
  Signature <- SomeFit
  MaxAsked = 2
  MaxConfirmed = 1
  OutsideCalls = FALSE
SPECIFICATION Spec
INVARIANT SignedAccepted
CHECK_DEADLOCK FALSE
