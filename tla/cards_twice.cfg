CONSTANTS
  Server = {s1, s2}
  Player = {p1, p2}
  StockSize = 1
  MaxTx = 2
  MaxRequests = 2
SPECIFICATION Spec
INVARIANT CardsOnce
SYMMETRY Symmetry
CHECK_DEADLOCK FALSE
