SPECIFICATION FairSpec

CONSTANTS
  Blocks <- PairBlocks
  MaxRepeats = 1

INVARIANT TypeOK
INVARIANT NoEarlyLeave
PROPERTY StreamContract
PROPERTY HalfClosePassedOn
PROPERTY BothEnd

\* The tunnel ends.
CHECK_DEADLOCK FALSE
