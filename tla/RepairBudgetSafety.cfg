SPECIFICATION Spec

CONSTANTS
  Block = {b1, b2, b3}
  K = 2
  Ceilings = {0, 2, 3}
  Desired = 1
  MaxTopups = 2
  Failures = TRUE
  b1 = b1
  b2 = b2
  b3 = b3

SYMMETRY BlockSymmetry

INVARIANT TypeOK
INVARIANT WithinPeak
INVARIANT ReservationsCovered
INVARIANT ReservedWhileNacked
PROPERTY DriftOnlyByBypass
