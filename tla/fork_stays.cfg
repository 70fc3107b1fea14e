CONSTANTS
  Server = {s1, s2}
  MaxTx = 4
  BatchMax = 1
  QueueCap = 1
  BackoffOutlastsValidation = TRUE
  MayLose = FALSE
  Mortal = {}
SPECIFICATION Spec
INVARIANT LongestChainAdopted
SYMMETRY Symmetry
CHECK_DEADLOCK FALSE
