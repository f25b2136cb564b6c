SPECIFICATION Spec

CONSTANTS
  Base = 16
  W64 = 2
  W32 = 1
  W24 = 1
  W16 = 1
  MaxField = 15
  MaxReliableData = 15
  MaxControlMsg = 15
  App <- AppBytes
  Requests <- TwoRequests
  Tokens <- TwoTokens
  Psk <- Secret
  ServerSize = 4
  SafeMaxSize = 3
  MaxBlockSize = 2
  MaxPpm = 5
  DefaultK = 2
  StreamId = 9
  OtherSignals <- OneOther
  Chunks = {1, 4}
  MaxBlocks = 2
  MaxRepair = 2
  MaxSignals = 1

INVARIANT TypeOK
INVARIANT HandshakeAgrees
INVARIANT SignalsIntact
INVARIANT BytesInOrder
INVARIANT EsisFresh
INVARIANT SourceSymbolsSuffice

PROPERTY ByteContract

\* The transfer ends.
CHECK_DEADLOCK FALSE
