CONSTANTS
  Model = {m1, m2, m3}
  MaxBoosters = 2
SPECIFICATION Spec
INVARIANTS
  StockTypeOK
  DealtByRarity
  PackedOnce
SYMMETRY Symmetry
CHECK_DEADLOCK FALSE
