CONSTANTS
  Server = {s1, s2}
  Player = {p1, p2}
  StockSize = 1
  MaxTx = 2
  MaxRequests = 2
SPECIFICATION FairSpec
INVARIANTS
  PurchasesTypeOK
  BoosterOnce
  CopiesBounded
  CardsBought
PROPERTY
  PurchaseArrives
CHECK_DEADLOCK FALSE
