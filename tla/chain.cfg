CONSTANTS
  Server = {s1, s2}
  MaxTx = 3
  BatchMax = 2
  QueueCap = 1
  BackoffOutlastsValidation = TRUE
  MayLose = TRUE
  Mortal = {s2}
SPECIFICATION FairSpec
INVARIANTS
  TypeOK
  LedgerLinked
  ValidationExclusive
  MinerOnTip
  SharedBlockSharedHistory
  TxMinedOnce
  TxConserved
  AdmissionOrder
  AnswersTruthful
PROPERTIES
  LedgerRefined
  TxEventuallyMined
  PostAnswered
  NextTxReleasesLoop
CHECK_DEADLOCK FALSE
