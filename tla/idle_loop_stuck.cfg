CONSTANTS
  Server = {s1, s2}
  MaxTx = 1
  BatchMax = 1
  QueueCap = 1
  BackoffOutlastsValidation = TRUE
  MayLose = FALSE
  Mortal = {}
SPECIFICATION FairSpec
PROPERTY BlockJudged
CHECK_DEADLOCK FALSE
