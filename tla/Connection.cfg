SPECIFICATION FairSpec
CONSTANTS
  Conn = {c1, c2}
  App = {a1}
  ClientFec <- MCClientFec
  ClientPsk = "secret"
  ServerConfigs <- MCServerConfigs
  DatagramCaps = {1120, 1452}
  InitialBackoff = 200
  MaxBackoff = 500
  StallTicks = 2
INVARIANTS TypeOK GeometryAgreed TripsExactly
PROPERTIES HalfOpenEnds Reconnects WedgeBounded
