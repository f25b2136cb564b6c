SPECIFICATION Spec

CONSTANTS
  MaxBlocks = 2
  K = 1
  MinRepair = 0
  MaxRepair = 1
  DecodeSlack = 0
  RetainBlocks = 2
  TopupCap = 1
  RelReqQueue = 9
  RelDataQueue = 9
  MaxSymbols = 2
  MaxSignals = 2
  StrayBlocks = {}
  QuietPeriods = TRUE

PROPERTY CaughtUpTunnelLives

\* The tunnel ends.
CHECK_DEADLOCK FALSE
