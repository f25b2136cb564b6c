SPECIFICATION FairSpec

CONSTANTS
  MaxBlocks = 2
  K = 2
  MinRepair = 0
  MaxRepair = 0
  DecodeSlack = 0
  RetainBlocks = 2
  TopupCap = 0
  RelReqQueue = 9
  RelDataQueue = 9
  MaxSymbols = 1
  MaxSignals = 1
  StrayBlocks = {0}
  QuietPeriods = FALSE

PROPERTY EveryBlockDelivered

\* The tunnel ends.
CHECK_DEADLOCK FALSE
