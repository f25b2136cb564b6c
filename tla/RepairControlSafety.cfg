SPECIFICATION Spec

CONSTANTS
  Samples <- MCSamples
  MinRatio = 20000
  MaxRatio = 500000
  Negotiated = 150
  MaxTicks = 8

INVARIANT TypeOK
INVARIANT NeverOverProvisioned
INVARIANT ShedsExcess

\* The run of the controller is bounded.
CHECK_DEADLOCK FALSE
