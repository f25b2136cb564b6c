SPECIFICATION Spec

CONSTANTS
  MaxBlocks = 2
  K = 2
  MinRepair = 0
  MaxRepair = 0
  DecodeSlack = 1
  RetainBlocks = 1
  TopupCap = 1
  RelReqQueue = 9
  RelDataQueue = 9
  MaxSymbols = 2
  MaxSignals = 1
  StrayBlocks = {}
  QuietPeriods = TRUE

INVARIANT TypeOK
INVARIANT NothingForgotten
INVARIANT RecoveryInProgress
PROPERTY StreamContract

\* The tunnel ends.
CHECK_DEADLOCK FALSE
