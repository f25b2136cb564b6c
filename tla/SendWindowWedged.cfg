SPECIFICATION FairSpec

CONSTANTS
  Tunnel = {t1}
  MaxBlocks = 4
  FloorBlocks = 2
  BlockBytes = 2
  Cwnds = {3}
  Lossy = TRUE
  t1 = t1

PROPERTY GateOpens

\* Every tunnel may have ended.
CHECK_DEADLOCK FALSE
