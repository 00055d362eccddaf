CONSTANTS
  N = 5
  Plans <- FilePlans
  Adapters <- AnyAndHonest
  Answers <- AnyAndHonestAnswers
  MaxOomRetries = 2
  MaxTransientRetries = 2
  MinBatchSize = 1
  BaseDelay = 1
  MaxDelay = 20
  TotalBudget = 4
  CallCap = 7
  MaxFileCount = 5
  MaxEncodedBytes = 6
  MaxDecodedPixels = 8
  MaxPages = 20
  DeviceVram = 8
  RealBatchSize = 5
SPECIFICATION FairSpec
INVARIANTS BatchesPartitionTheWork OnlyOffendersFail CallsFitTheBudget
PROPERTIES RecoveryEnds
CHECK_DEADLOCK FALSE
