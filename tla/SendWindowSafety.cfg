SPECIFICATION FairSpec

CONSTANTS
  Tunnel = {t1, t2}
  MaxBlocks = 3
  FloorBlocks = 3
  BlockBytes = 2
  Cwnds = {100}
  Lossy = TRUE
  t1 = t1
  t2 = t2

INVARIANT TypeOK
INVARIANT AggregateMatches
INVARIANT InFlightCounted
INVARIANT OvershootBounded
INVARIANT HeldForBlocks
PROPERTY GateOpensIfIntact

\* Every tunnel may have ended.
CHECK_DEADLOCK FALSE
