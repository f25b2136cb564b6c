SPECIFICATION Spec

CONSTANTS
  Stream = {s1, s2}
  MaxArrivals = 5
  MaxPendingStreams = 1
  MaxPending = 2
  RouteCapacity = 3
  s1 = s1
  s2 = s2

SYMMETRY StreamSymmetry

INVARIANT TypeOK
INVARIANT NoneStranded
INVARIANT ArrivalOrder

\* Every stream may be over.
CHECK_DEADLOCK FALSE
