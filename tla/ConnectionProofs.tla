-------------------------- MODULE ConnectionProofs --------------------------
(***************************************************************************)
(* For any number of connections and applications, whatever the client asks  *)
(* for and whatever configurations the server is restarted with: both ends   *)
(* of a tunnel agree on its geometry, and the watchdog trips exactly on a    *)
(* run of bad measurements.                                                  *)
(***************************************************************************)
EXTENDS Connection, SequenceTheorems, TLAPS

-----------------------------------------------------------------------------
(* The inductive invariant.                                                  *)

\* The client has a connection while it shakes hands and while it serves, and
\* tunnels only while it serves.
Phases ==
  /\ conn \in Conn <=> client \in {"handshake", "serving"}
  /\ client # "serving" => local = NoTunnels

\* What a client uses, or is about to read, is what the handler at the other
\* end of its connection answered.
Answers ==
  /\ client = "handshake" =>
       /\ server[conn] = "accepted" => ack[conn] = {}
       /\ server[conn] = "serving" => ack[conn] \subseteq {serverFec[conn]}
  /\ client = "serving" =>
       /\ server[conn] # "accepted"
       /\ server[conn] = "serving" => fec = serverFec[conn]

\* Whatever was answered fits in a datagram.
Fit(params) == params.symbol <= SafeMaxSymbolSize
AnswersFit ==
  /\ Fit(fec)
  /\ \A c \in Conn : Fit(serverFec[c]) /\ \A params \in ack[c] : Fit(params)

\* A tunnel that runs has the geometry of its end's parameters, and the
\* server's tunnels need their handler.
Geometry(params) ==
  [st |-> "running", symbol |-> Larger(1, params.symbol), k |-> ResolveK(params)]
Geometries ==
  /\ \A a \in App : local[a].st = "running" => local[a] = Geometry(fec)
  /\ \A c \in Conn, a \in App :
       /\ remote[c][a].st # "none" => server[c] = "serving"
       /\ remote[c][a].st = "running" => remote[c][a] = Geometry(serverFec[c])

\* The streak is the run of bad readings the kept ones end with.
StreakCounts ==
  /\ watchdog.streak <= Len(readings)
  /\ \A i \in 1 .. Len(readings) :
       i > Len(readings) - watchdog.streak => readings[i] = "bad"
  /\ watchdog.streak < Len(readings) =>
       readings[Len(readings) - watchdog.streak] = "good"
  /\ watchdog.fired <=> watchdog.streak = StallTicks

IInv == TypeOK /\ Phases /\ Answers /\ AnswersFit /\ Geometries /\ StreakCounts

-----------------------------------------------------------------------------
(* The operators.                                                            *)

LEMMA ClampType ==
  ASSUME TypeOK
  PROVE  Clamp(ClientFec) \in Fec /\ Fit(Clamp(ClientFec))
  BY ConnectionAssumption
  DEF TypeOK, Clamp, Fec, Fit, Smaller, SafeMaxSymbolSize, MaxBlockSize

\* The datagram limit of an end makes no difference to what it uses.
LEMMA RunningIsGeometry ==
  ASSUME NEW params \in Fec, Fit(params), NEW cap \in DatagramCaps
  PROVE  /\ Running(params, cap) = Geometry(params)
         /\ Running(params, cap) \in Tunnel
<1>1. cap \in Nat /\ cap - SymbolHeaderLen >= SafeMaxSymbolSize
  BY ConnectionAssumption DEF SymbolHeaderLen, SafeMaxSymbolSize
<1>2. params.symbol \in Nat /\ params.block \in Nat
  BY DEF Fec
<1>3. EffectiveSymbol(params.symbol, cap) = Larger(1, params.symbol)
  BY <1>1, <1>2
  DEF EffectiveSymbol, Fit, Smaller, Larger, SymbolHeaderLen, SafeMaxSymbolSize
<1>4. Larger(1, params.symbol) \in Nat /\ ResolveK(params) \in Nat
  BY <1>2 DEF Larger, ResolveK
<1> QED
  BY <1>3, <1>4 DEF Running, Geometry, Tunnel

LEMMA TunnelMoves ==
  ASSUME NEW t \in Tunnel, NEW st \in {"opening", "connecting"}
  PROVE  [t EXCEPT !.st = st] \in Tunnel
  BY DEF Tunnel

\* The window of readings moves by one once it is full.
Shift(s) == IF Len(s) < StallTicks THEN 0 ELSE 1

LEMMA NewestMoves ==
  ASSUME NEW s \in Seq(Readings), Len(s) <= StallTicks, NEW r \in Readings
  PROVE  /\ Newest(Append(s, r)) \in Seq(Readings)
         /\ Len(Newest(Append(s, r))) = Len(s) + 1 - Shift(s)
         /\ Newest(Append(s, r))[Len(s) + 1 - Shift(s)] = r
         /\ \A i \in 1 .. Len(s) - Shift(s) :
              Newest(Append(s, r))[i] = s[i + Shift(s)]
<1> DEFINE q == Append(s, r)
           d == Shift(s)
<1>1. /\ q \in Seq(Readings) /\ Len(q) = Len(s) + 1 /\ q[Len(s) + 1] = r
      /\ \A i \in 1 .. Len(s) : q[i] = s[i]
  OBVIOUS
<1>2. StallTicks \in Nat \ {0} /\ Len(s) \in Nat
  BY ConnectionAssumption
<1>3. Larger(1, Len(q) - StallTicks + 1) = 1 + d
  BY <1>1, <1>2 DEF Larger, Shift
<1>4. Newest(q) = SubSeq(q, 1 + d, Len(q))
  BY <1>3 DEF Newest
<1>5. d \in {0, 1} /\ d <= Len(s)
  BY <1>2 DEF Shift
<1> HIDE DEF q, d
<1>6. \A i \in 1 + d .. Len(q) : q[i] \in Readings
  BY <1>1, <1>2, <1>5
<1>7. /\ Newest(q) \in Seq(Readings)
      /\ Len(Newest(q)) = IF 1 + d <= Len(q) THEN Len(q) - (1 + d) + 1 ELSE 0
      /\ \A i \in 1 .. Len(q) - (1 + d) + 1 : Newest(q)[i] = q[(1 + d) + i - 1]
  <2>1. 1 + d \in Int /\ Len(q) \in Int
    BY <1>1, <1>2, <1>5
  <2> QED
    BY <1>4, <1>6, <2>1, SubSeqProperties
<1>8. Len(Newest(q)) = Len(s) + 1 - d
  BY <1>1, <1>2, <1>5, <1>7
<1>9. \A i \in 1 .. Len(s) + 1 - d : Newest(q)[i] = q[i + d]
  <2>1. Len(q) - (1 + d) + 1 = Len(s) + 1 - d
    BY <1>1, <1>2, <1>5
  <2>2. \A i \in 1 .. Len(s) + 1 - d : (1 + d) + i - 1 = i + d
    BY <1>2, <1>5
  <2> QED
    BY <1>7, <2>1, <2>2
<1>10. Newest(q)[Len(s) + 1 - d] = r
  BY <1>1, <1>2, <1>5, <1>9
<1>11. \A i \in 1 .. Len(s) - d : Newest(q)[i] = s[i + d]
  BY <1>1, <1>2, <1>5, <1>9
<1> QED
  BY <1>7, <1>8, <1>10, <1>11 DEF q, d

-----------------------------------------------------------------------------
(* Steps.                                                                    *)

\* What a sample does to the watchdog.
LEMMA TickStep ==
  ASSUME TypeOK, StreakCounts, NEW reading \in Readings, WatchdogTick(reading)
  PROVE  /\ readings' \in Seq({"good", "bad"}) /\ Len(readings') <= StallTicks
         /\ watchdog' \in [baseline : BOOLEAN, streak : 0 .. StallTicks,
                           fired : BOOLEAN]
         /\ StreakCounts'
<1>1. /\ readings \in Seq(Readings) /\ Len(readings) <= StallTicks
      /\ Len(readings) \in Nat
      /\ watchdog \in [baseline : BOOLEAN, streak : 0 .. StallTicks,
                       fired : BOOLEAN]
  BY DEF TypeOK, Readings
<1>2. /\ ~watchdog.fired
      /\ watchdog' = Observe(watchdog, reading)
      /\ readings' = IF watchdog.baseline
                     THEN Newest(Append(readings, reading)) ELSE readings
  BY DEF WatchdogTick
<1>3. watchdog.streak < StallTicks /\ StallTicks \in Nat \ {0}
  BY <1>1, <1>2, ConnectionAssumption DEF StreakCounts
<1>4. CASE ~watchdog.baseline
  <2>1. watchdog' = [watchdog EXCEPT !.baseline = TRUE] /\ readings' = readings
    BY <1>2, <1>4 DEF Observe
  <2>2. /\ watchdog'.streak = watchdog.streak /\ ~watchdog'.fired
        /\ watchdog' \in [baseline : BOOLEAN, streak : 0 .. StallTicks,
                          fired : BOOLEAN]
    BY <1>1, <1>2, <2>1
  <2>3. StreakCounts'
    BY <1>2, <1>3, <2>1, <2>2 DEF StreakCounts
  <2> QED
    BY <1>1, <2>1, <2>2, <2>3 DEF Readings
<1>5. CASE watchdog.baseline
  <2> DEFINE d == Shift(readings)
             n == Len(readings) + 1 - d
             streak == IF reading = "bad" THEN watchdog.streak + 1 ELSE 0
  <2>1. /\ readings' \in Seq(Readings)
        /\ Len(readings') = n
        /\ readings'[n] = reading
        /\ \A i \in 1 .. Len(readings) - d : readings'[i] = readings[i + d]
    BY <1>1, <1>2, <1>5, NewestMoves
  <2>2. d \in {0, 1} /\ n \in 1 .. StallTicks
    BY <1>1, <1>3 DEF Shift
  <2>3. /\ streak \in 0 .. StallTicks
        /\ watchdog' = [watchdog EXCEPT !.streak = streak,
                                        !.fired = streak >= StallTicks]
    BY <1>1, <1>2, <1>3, <1>5 DEF Observe
  <2> DEFINE fired == streak >= StallTicks
  <2>4. /\ fired \in BOOLEAN
        /\ fired <=> streak = StallTicks
    BY <1>3, <2>3
  <2> HIDE DEF fired, streak
  <2>5. watchdog' = [watchdog EXCEPT !.streak = streak, !.fired = fired]
    BY <2>3 DEF fired
  <2>6. /\ watchdog'.streak = streak /\ watchdog'.fired = fired
        /\ watchdog' \in [baseline : BOOLEAN, streak : 0 .. StallTicks,
                          fired : BOOLEAN]
    BY <1>1, <2>3, <2>4, <2>5
  <2> USE DEF streak
  <2>7. streak <= n
    BY <1>1, <1>3, <2>2 DEF StreakCounts, Shift
  <2>8. ASSUME NEW i \in 1 .. n, i > n - streak
        PROVE  readings'[i] = "bad"
    <3>1. reading = "bad" /\ streak = watchdog.streak + 1
      BY <2>2, <2>8
    <3>2. CASE i = n
      BY <2>1, <3>1, <3>2
    <3>3. CASE i < n
      <4> HIDE DEF d
      <4>1. /\ i \in 1 .. Len(readings) - d
            /\ i + d \in 1 .. Len(readings)
            /\ i + d > Len(readings) - watchdog.streak
        BY <1>1, <2>2, <2>8, <3>1, <3>3
      <4> QED
        BY <2>1, <4>1 DEF StreakCounts
    <3> QED
      BY <2>2, <3>2, <3>3
  <2>9. ASSUME streak < n
        PROVE  readings'[n - streak] = "good"
    <3>1. CASE reading = "good"
      BY <2>1, <2>2, <3>1
    <3>2. CASE reading = "bad"
      <4> HIDE DEF d
      <4>1. /\ n - streak \in 1 .. Len(readings) - d
            /\ (n - streak) + d = Len(readings) - watchdog.streak
            /\ watchdog.streak < Len(readings)
        BY <1>1, <2>2, <2>9, <3>2
      <4>2. readings'[n - streak] = readings[(n - streak) + d]
        BY <2>1, <4>1
      <4> QED
        BY <4>1, <4>2 DEF StreakCounts
    <3> QED
      BY <3>1, <3>2 DEF Readings
  <2> HIDE DEF streak, n
  <2>10. StreakCounts'
    BY <2>1, <2>4, <2>6, <2>7, <2>8, <2>9 DEF StreakCounts
  <2> QED
    BY <2>1, <2>2, <2>6, <2>10 DEF Readings
<1> QED
  BY <1>1, <1>4, <1>5

LEMMA TypeStep == IInv /\ [Next]_vars => TypeOK'
<1> SUFFICES ASSUME IInv, [Next]_vars PROVE TypeOK'
  OBVIOUS
<1> USE ConnectionAssumption DEF IInv
<1>1. ASSUME NEW c \in Conn, Dial(c)
      PROVE  TypeOK'
  BY <1>1
  DEF Dial, TypeOK, Phases, NoStreams, clientVars, transportVars, serverVars
<1>2. CASE DialFails
  BY <1>2
  DEF DialFails, TypeOK, clientVars, transportVars, serverVars
<1>3. CASE HandshakeFails
  BY <1>3
  DEF HandshakeFails, TypeOK, clientVars, transportVars, serverVars
<1>4. CASE Retry
  BY <1>4
  DEF Retry, TypeOK, Smaller, clientVars, transportVars, serverVars
<1>5. CASE HandshakeDone
  BY <1>5
  DEF HandshakeDone, TypeOK, Phases, FreshWatchdog, clientVars, transportVars,
      serverVars
<1>6. CASE ServeReturns
  BY <1>6
  DEF ServeReturns, TypeOK, Phases, NoTunnels, NoTunnel, Tunnel, clientVars,
      transportVars, serverVars
<1>7. CASE ListenerFails
  BY <1>7
  DEF ListenerFails, TypeOK, Phases, NoTunnels, NoTunnel, Tunnel, clientVars,
      transportVars, serverVars
<1>8. ASSUME NEW reading \in Readings, WatchdogTick(reading)
      PROVE  TypeOK'
  <2>1. /\ readings' \in Seq({"good", "bad"}) /\ Len(readings') <= StallTicks
        /\ watchdog' \in [baseline : BOOLEAN, streak : 0 .. StallTicks,
                          fired : BOOLEAN]
    BY <1>8, TickStep
  <2>2. open' \in [Conn -> SUBSET {"client", "server"}]
    BY <1>8 DEF WatchdogTick, TypeOK
  <2> QED
    BY <1>8, <2>1, <2>2
    DEF WatchdogTick, TypeOK, clientVars, transportVars, serverVars
<1>9. ASSUME NEW c \in Conn, NEW end \in {"client", "server"}, EndLost(c, end)
      PROVE  TypeOK'
  BY <1>9
  DEF EndLost, TypeOK, clientVars, transportVars, serverVars
<1>10. ASSUME NEW c \in Conn, Notice(c)
      PROVE  TypeOK'
  BY <1>10
  DEF Notice, TypeOK, clientVars, transportVars, serverVars
<1>11. ASSUME NEW c \in Conn, ServerHandshake(c)
      PROVE  TypeOK'
  <2>1. /\ server' \in [Conn -> {"none", "accepted", "serving"}]
        /\ hello' \in [Conn -> BOOLEAN]
    <3>1. /\ hello' = [hello EXCEPT ![c] = FALSE]
          /\ \E s \in {"none", "serving"} : server' = [server EXCEPT ![c] = s]
      BY <1>11 DEF ServerHandshake
    <3> QED
      BY <3>1 DEF TypeOK
  <2>2. /\ serverFec' \in [Conn -> Fec]
        /\ ack' \in [Conn -> SUBSET Fec]
        /\ open' \in [Conn -> SUBSET {"client", "server"}]
    <3>1. CASE config.psk = ClientPsk
      <4>1. Clamp(ClientFec) \in Fec /\ {Clamp(ClientFec)} \in SUBSET Fec
        BY ClampType
      <4>2. /\ serverFec' = [serverFec EXCEPT ![c] = Clamp(ClientFec)]
            /\ ack' = [ack EXCEPT ![c] = {Clamp(ClientFec)}]
            /\ open' = open
        BY <1>11, <3>1 DEF ServerHandshake
      <4> QED
        BY <4>1, <4>2 DEF TypeOK
    <3>2. CASE config.psk # ClientPsk
      <4>1. /\ open' = [open EXCEPT ![c] = @ \ {"server"}]
            /\ serverFec' = serverFec /\ ack' = ack
        BY <1>11, <3>2 DEF ServerHandshake
      <4> QED
        BY <4>1 DEF TypeOK
    <3> QED
      BY <3>1, <3>2
  <2> QED
    BY <1>11, <2>1, <2>2 DEF ServerHandshake, TypeOK, clientVars
<1>12. ASSUME NEW c \in Conn, ServerEnds(c)
      PROVE  TypeOK'
  BY <1>12
  DEF ServerEnds, TypeOK, NoTunnels, NoTunnel, Tunnel, NoParams, Fec,
      clientVars, transportVars, serverVars
<1>13. CASE ServerRestart
  BY <1>13
  DEF ServerRestart, TypeOK, NoTunnels, NoTunnel, Tunnel, NoParams, Fec,
      clientVars, transportVars, serverVars
<1>14. ASSUME NEW a \in App, AppConnects(a)
      PROVE  TypeOK'
  BY <1>14
  DEF AppConnects, TypeOK, clientVars, transportVars, serverVars
<1>15. ASSUME NEW a \in App, Accept(a)
      PROVE  TypeOK'
  <2>1. local' \in [App -> Tunnel]
    <3>1. local[a] \in Tunnel
      BY DEF TypeOK
    <3>2. [local[a] EXCEPT !.st = "opening"] \in Tunnel
      BY <3>1, TunnelMoves
    <3> QED
      BY <1>15, <3>2 DEF Accept, TypeOK
  <2> QED
    BY <1>15, <2>1 DEF Accept, TypeOK, transportVars, serverVars
<1>16. ASSUME NEW a \in App, OpenBi(a)
      PROVE  TypeOK'
  <2>1. fec \in Fec /\ Fit(fec) /\ NoTunnel \in Tunnel
    BY DEF TypeOK, AnswersFit, NoTunnel, Tunnel
  <2>2. \A cap \in DatagramCaps : Running(fec, cap) \in Tunnel
    BY <2>1, RunningIsGeometry
  <2>3. CASE "client" \in open[conn]
    <3>1. PICK cap \in DatagramCaps :
            local' = [local EXCEPT ![a] = Running(fec, cap)]
      BY <1>16, <2>3 DEF OpenBi
    <3>2. local' \in [App -> Tunnel]
      BY <2>2, <3>1 DEF TypeOK
    <3>3. stream' \in [Conn -> [App -> {"none", "offered", "reset"}]]
      <4>1. stream' = [stream EXCEPT ![conn][a] = "offered"]
        BY <1>16, <2>3 DEF OpenBi
      <4> QED
        BY <4>1 DEF TypeOK
    <3> QED
      BY <1>16, <3>2, <3>3 DEF OpenBi, TypeOK, serverVars
  <2>4. CASE "client" \notin open[conn]
    <3>1. /\ local' = [local EXCEPT ![a] = NoTunnel]
          /\ UNCHANGED stream
      BY <1>16, <2>4 DEF OpenBi
    <3>2. local' \in [App -> Tunnel]
      BY <2>1, <3>1 DEF TypeOK
    <3> QED
      BY <1>16, <3>1, <3>2 DEF OpenBi, TypeOK, serverVars
  <2> QED
    BY <2>3, <2>4
<1>17. ASSUME NEW c \in Conn, NEW a \in App, ServerAccept(c, a)
      PROVE  TypeOK'
  <2>1. remote' \in [Conn -> [App -> Tunnel]]
    <3>1. remote[c][a] \in Tunnel
      BY DEF TypeOK
    <3>2. [remote[c][a] EXCEPT !.st = "connecting"] \in Tunnel
      BY <3>1, TunnelMoves
    <3> QED
      BY <1>17, <3>2 DEF ServerAccept, TypeOK
  <2> QED
    BY <1>17, <2>1 DEF ServerAccept, TypeOK, clientVars
<1>18. ASSUME NEW c \in Conn, NEW a \in App, TargetConnected(c, a)
      PROVE  TypeOK'
  <2>1. serverFec[c] \in Fec /\ Fit(serverFec[c])
    BY DEF TypeOK, AnswersFit
  <2>2. \A cap \in DatagramCaps : Running(serverFec[c], cap) \in Tunnel
    BY <2>1, RunningIsGeometry
  <2>3. remote' \in [Conn -> [App -> Tunnel]]
    BY <1>18, <2>2 DEF TargetConnected, TypeOK
  <2> QED
    BY <1>18, <2>3 DEF TargetConnected, TypeOK, clientVars, transportVars
<1>19. ASSUME NEW c \in Conn, NEW a \in App, TargetFails(c, a)
      PROVE  TypeOK'
  BY <1>19
  DEF TargetFails, TypeOK, NoTunnel, Tunnel, clientVars,
      transportVars, serverVars
<1>20. ASSUME NEW c \in Conn, NEW a \in App, RemoteEnds(c, a)
      PROVE  TypeOK'
  BY <1>20
  DEF RemoteEnds, TypeOK, NoTunnel, Tunnel, clientVars,
      transportVars, serverVars
<1>21. ASSUME NEW a \in App, LocalEnds(a)
      PROVE  TypeOK'
  BY <1>21
  DEF LocalEnds, TypeOK, NoTunnel, Tunnel, clientVars, transportVars, serverVars
<1>22. CASE UNCHANGED vars
  BY <1>22 DEF TypeOK, vars, clientVars, transportVars, serverVars
<1> QED
  BY <1>1, <1>2, <1>3, <1>4, <1>5, <1>6, <1>7, <1>8, <1>9, <1>10, <1>11, <1>12,
     <1>13, <1>14, <1>15, <1>16, <1>17, <1>18, <1>19, <1>20, <1>21, <1>22
  DEF Next

LEMMA PhasesStep == IInv /\ [Next]_vars => Phases'
<1> SUFFICES ASSUME IInv, [Next]_vars PROVE Phases'
  OBVIOUS
<1> USE ConnectionAssumption DEF IInv
<1>1. ASSUME NEW c \in Conn, Dial(c)
      PROVE  Phases'
  BY <1>1
  DEF Dial, TypeOK, Phases, clientVars, transportVars, serverVars
<1>2. CASE DialFails
  BY <1>2
  DEF DialFails, TypeOK, Phases, clientVars, transportVars, serverVars
<1>3. CASE HandshakeFails
  BY <1>3
  DEF HandshakeFails, TypeOK, Phases, clientVars, transportVars, serverVars
<1>4. CASE Retry
  BY <1>4
  DEF Retry, TypeOK, Phases, clientVars, transportVars, serverVars
<1>5. CASE HandshakeDone
  BY <1>5
  DEF HandshakeDone, TypeOK, Phases, clientVars, transportVars, serverVars
<1>6. CASE ServeReturns
  BY <1>6
  DEF ServeReturns, TypeOK, Phases, clientVars, transportVars, serverVars
<1>7. CASE ListenerFails
  BY <1>7
  DEF ListenerFails, TypeOK, Phases, clientVars, transportVars, serverVars
<1>8. ASSUME NEW reading \in Readings, WatchdogTick(reading)
      PROVE  Phases'
  BY <1>8
  DEF WatchdogTick, TypeOK, Phases, clientVars, transportVars, serverVars
<1>9. ASSUME NEW c \in Conn, NEW end \in {"client", "server"}, EndLost(c, end)
      PROVE  Phases'
  BY <1>9
  DEF EndLost, TypeOK, Phases, clientVars, transportVars, serverVars
<1>10. ASSUME NEW c \in Conn, Notice(c)
      PROVE  Phases'
  BY <1>10
  DEF Notice, TypeOK, Phases, clientVars, transportVars, serverVars
<1>11. ASSUME NEW c \in Conn, ServerHandshake(c)
      PROVE  Phases'
  BY <1>11
  DEF ServerHandshake, TypeOK, Phases, clientVars, transportVars, serverVars
<1>12. ASSUME NEW c \in Conn, ServerEnds(c)
      PROVE  Phases'
  BY <1>12
  DEF ServerEnds, TypeOK, Phases, clientVars, transportVars, serverVars
<1>13. CASE ServerRestart
  BY <1>13
  DEF ServerRestart, TypeOK, Phases, clientVars, transportVars, serverVars
<1>14. ASSUME NEW a \in App, AppConnects(a)
      PROVE  Phases'
  BY <1>14
  DEF AppConnects, TypeOK, Phases, clientVars, transportVars, serverVars
<1>15. ASSUME NEW a \in App, Accept(a)
      PROVE  Phases'
  BY <1>15
  DEF Accept, TypeOK, Phases, clientVars, transportVars, serverVars
<1>16. ASSUME NEW a \in App, OpenBi(a)
      PROVE  Phases'
  BY <1>16
  DEF OpenBi, TypeOK, Phases, clientVars, transportVars, serverVars
<1>17. ASSUME NEW c \in Conn, NEW a \in App, ServerAccept(c, a)
      PROVE  Phases'
  BY <1>17
  DEF ServerAccept, TypeOK, Phases, clientVars, transportVars, serverVars
<1>18. ASSUME NEW c \in Conn, NEW a \in App, TargetConnected(c, a)
      PROVE  Phases'
  BY <1>18
  DEF TargetConnected, TypeOK, Phases, clientVars, transportVars, serverVars
<1>19. ASSUME NEW c \in Conn, NEW a \in App, TargetFails(c, a)
      PROVE  Phases'
  BY <1>19
  DEF TargetFails, TypeOK, Phases, clientVars, transportVars, serverVars
<1>20. ASSUME NEW c \in Conn, NEW a \in App, RemoteEnds(c, a)
      PROVE  Phases'
  BY <1>20
  DEF RemoteEnds, TypeOK, Phases, clientVars, transportVars, serverVars
<1>21. ASSUME NEW a \in App, LocalEnds(a)
      PROVE  Phases'
  BY <1>21
  DEF LocalEnds, TypeOK, Phases, NoTunnels, NoTunnel, clientVars,
      transportVars, serverVars
<1>22. CASE UNCHANGED vars
  BY <1>22 DEF TypeOK, Phases, vars, clientVars, transportVars, serverVars
<1> QED
  BY <1>1, <1>2, <1>3, <1>4, <1>5, <1>6, <1>7, <1>8, <1>9, <1>10, <1>11, <1>12,
     <1>13, <1>14, <1>15, <1>16, <1>17, <1>18, <1>19, <1>20, <1>21, <1>22
  DEF Next

LEMMA AnswersStep == IInv /\ [Next]_vars => Answers'
<1> SUFFICES ASSUME IInv, [Next]_vars PROVE Answers'
  OBVIOUS
<1> USE ConnectionAssumption DEF IInv
<1>1. ASSUME NEW c \in Conn, Dial(c)
      PROVE  Answers'
  BY <1>1
  DEF Dial, TypeOK, Phases, Answers, clientVars, transportVars, serverVars
<1>2. CASE DialFails
  BY <1>2
  DEF DialFails, TypeOK, Phases, Answers, clientVars, transportVars, serverVars
<1>3. CASE HandshakeFails
  BY <1>3
  DEF HandshakeFails, TypeOK, Phases, Answers, clientVars, transportVars,
      serverVars
<1>4. CASE Retry
  BY <1>4
  DEF Retry, TypeOK, Phases, Answers, clientVars, transportVars, serverVars
<1>5. CASE HandshakeDone
  BY <1>5
  DEF HandshakeDone, TypeOK, Phases, Answers, clientVars, transportVars,
      serverVars
<1>6. CASE ServeReturns
  BY <1>6
  DEF ServeReturns, TypeOK, Phases, Answers, clientVars, transportVars,
      serverVars
<1>7. CASE ListenerFails
  BY <1>7
  DEF ListenerFails, TypeOK, Phases, Answers, clientVars, transportVars,
      serverVars
<1>8. ASSUME NEW reading \in Readings, WatchdogTick(reading)
      PROVE  Answers'
  BY <1>8
  DEF WatchdogTick, TypeOK, Phases, Answers, clientVars, transportVars,
      serverVars
<1>9. ASSUME NEW c \in Conn, NEW end \in {"client", "server"}, EndLost(c, end)
      PROVE  Answers'
  BY <1>9
  DEF EndLost, TypeOK, Phases, Answers, clientVars, transportVars, serverVars
<1>10. ASSUME NEW c \in Conn, Notice(c)
      PROVE  Answers'
  BY <1>10
  DEF Notice, TypeOK, Phases, Answers, clientVars, transportVars, serverVars
<1>11. ASSUME NEW c \in Conn, ServerHandshake(c)
      PROVE  Answers'
  <2>1. CASE config.psk = ClientPsk
    BY <1>11, <2>1, ClampType
    DEF ServerHandshake, TypeOK, Phases, Answers, clientVars
  <2>2. CASE config.psk # ClientPsk
    BY <1>11, <2>2
    DEF ServerHandshake, TypeOK, Phases, Answers, clientVars
  <2> QED
    BY <2>1, <2>2
<1>12. ASSUME NEW c \in Conn, ServerEnds(c)
      PROVE  Answers'
  BY <1>12
  DEF ServerEnds, TypeOK, Phases, Answers, clientVars, transportVars, serverVars
<1>13. CASE ServerRestart
  BY <1>13
  DEF ServerRestart, TypeOK, Phases, Answers, clientVars, transportVars,
      serverVars
<1>14. ASSUME NEW a \in App, AppConnects(a)
      PROVE  Answers'
  BY <1>14
  DEF AppConnects, TypeOK, Phases, Answers, clientVars, transportVars,
      serverVars
<1>15. ASSUME NEW a \in App, Accept(a)
      PROVE  Answers'
  BY <1>15
  DEF Accept, TypeOK, Phases, Answers, clientVars, transportVars, serverVars
<1>16. ASSUME NEW a \in App, OpenBi(a)
      PROVE  Answers'
  BY <1>16
  DEF OpenBi, TypeOK, Phases, Answers, clientVars, transportVars, serverVars
<1>17. ASSUME NEW c \in Conn, NEW a \in App, ServerAccept(c, a)
      PROVE  Answers'
  BY <1>17
  DEF ServerAccept, TypeOK, Phases, Answers, clientVars, transportVars,
      serverVars
<1>18. ASSUME NEW c \in Conn, NEW a \in App, TargetConnected(c, a)
      PROVE  Answers'
  BY <1>18
  DEF TargetConnected, TypeOK, Phases, Answers, clientVars, transportVars,
      serverVars
<1>19. ASSUME NEW c \in Conn, NEW a \in App, TargetFails(c, a)
      PROVE  Answers'
  BY <1>19
  DEF TargetFails, TypeOK, Phases, Answers, clientVars, transportVars,
      serverVars
<1>20. ASSUME NEW c \in Conn, NEW a \in App, RemoteEnds(c, a)
      PROVE  Answers'
  BY <1>20
  DEF RemoteEnds, TypeOK, Phases, Answers, clientVars, transportVars, serverVars
<1>21. ASSUME NEW a \in App, LocalEnds(a)
      PROVE  Answers'
  BY <1>21
  DEF LocalEnds, TypeOK, Phases, Answers, clientVars, transportVars, serverVars
<1>22. CASE UNCHANGED vars
  BY <1>22
  DEF TypeOK, Phases, Answers, vars, clientVars, transportVars, serverVars
<1> QED
  BY <1>1, <1>2, <1>3, <1>4, <1>5, <1>6, <1>7, <1>8, <1>9, <1>10, <1>11, <1>12,
     <1>13, <1>14, <1>15, <1>16, <1>17, <1>18, <1>19, <1>20, <1>21, <1>22
  DEF Next

LEMMA AnswersFitStep == IInv /\ [Next]_vars => AnswersFit'
<1> SUFFICES ASSUME IInv, [Next]_vars PROVE AnswersFit'
  OBVIOUS
<1> USE ConnectionAssumption DEF IInv
<1>1. ASSUME NEW c \in Conn, Dial(c)
      PROVE  AnswersFit'
  BY <1>1
  DEF Dial, TypeOK, Phases, AnswersFit, clientVars, transportVars, serverVars
<1>2. CASE DialFails
  BY <1>2
  DEF DialFails, TypeOK, Phases, AnswersFit, clientVars, transportVars,
      serverVars
<1>3. CASE HandshakeFails
  BY <1>3
  DEF HandshakeFails, TypeOK, Phases, AnswersFit, clientVars, transportVars,
      serverVars
<1>4. CASE Retry
  BY <1>4
  DEF Retry, TypeOK, Phases, AnswersFit, clientVars, transportVars, serverVars
<1>5. CASE HandshakeDone
  BY <1>5
  DEF HandshakeDone, TypeOK, Phases, AnswersFit, clientVars, transportVars,
      serverVars
<1>6. CASE ServeReturns
  BY <1>6
  DEF ServeReturns, TypeOK, Phases, AnswersFit, clientVars, transportVars,
      serverVars
<1>7. CASE ListenerFails
  BY <1>7
  DEF ListenerFails, TypeOK, Phases, AnswersFit, clientVars, transportVars,
      serverVars
<1>8. ASSUME NEW reading \in Readings, WatchdogTick(reading)
      PROVE  AnswersFit'
  BY <1>8
  DEF WatchdogTick, TypeOK, Phases, AnswersFit, clientVars, transportVars,
      serverVars
<1>9. ASSUME NEW c \in Conn, NEW end \in {"client", "server"}, EndLost(c, end)
      PROVE  AnswersFit'
  BY <1>9
  DEF EndLost, TypeOK, Phases, AnswersFit, clientVars, transportVars, serverVars
<1>10. ASSUME NEW c \in Conn, Notice(c)
      PROVE  AnswersFit'
  BY <1>10
  DEF Notice, TypeOK, Phases, AnswersFit, clientVars, transportVars, serverVars
<1>11. ASSUME NEW c \in Conn, ServerHandshake(c)
      PROVE  AnswersFit'
  <2>1. CASE config.psk = ClientPsk
    <3>1. Fit(Clamp(ClientFec))
      BY ClampType
    <3>2. /\ serverFec' = [serverFec EXCEPT ![c] = Clamp(ClientFec)]
          /\ ack' = [ack EXCEPT ![c] = {Clamp(ClientFec)}]
          /\ fec' = fec
      BY <1>11, <2>1 DEF ServerHandshake, clientVars
    <3> QED
      BY <3>1, <3>2 DEF TypeOK, AnswersFit
  <2>2. CASE config.psk # ClientPsk
    BY <1>11, <2>2 DEF ServerHandshake, AnswersFit, clientVars
  <2> QED
    BY <2>1, <2>2
<1>12. ASSUME NEW c \in Conn, ServerEnds(c)
      PROVE  AnswersFit'
  BY <1>12
  DEF ServerEnds, TypeOK, Phases, AnswersFit, NoParams, Fit, SafeMaxSymbolSize,
      clientVars, transportVars, serverVars
<1>13. CASE ServerRestart
  BY <1>13
  DEF ServerRestart, TypeOK, Phases, AnswersFit, NoParams, Fit,
      SafeMaxSymbolSize, clientVars, transportVars, serverVars
<1>14. ASSUME NEW a \in App, AppConnects(a)
      PROVE  AnswersFit'
  BY <1>14
  DEF AppConnects, TypeOK, Phases, AnswersFit, clientVars, transportVars,
      serverVars
<1>15. ASSUME NEW a \in App, Accept(a)
      PROVE  AnswersFit'
  BY <1>15
  DEF Accept, TypeOK, Phases, AnswersFit, clientVars, transportVars, serverVars
<1>16. ASSUME NEW a \in App, OpenBi(a)
      PROVE  AnswersFit'
  BY <1>16
  DEF OpenBi, TypeOK, Phases, AnswersFit, clientVars, transportVars, serverVars
<1>17. ASSUME NEW c \in Conn, NEW a \in App, ServerAccept(c, a)
      PROVE  AnswersFit'
  BY <1>17
  DEF ServerAccept, TypeOK, Phases, AnswersFit, clientVars, transportVars,
      serverVars
<1>18. ASSUME NEW c \in Conn, NEW a \in App, TargetConnected(c, a)
      PROVE  AnswersFit'
  BY <1>18
  DEF TargetConnected, TypeOK, Phases, AnswersFit, clientVars, transportVars,
      serverVars
<1>19. ASSUME NEW c \in Conn, NEW a \in App, TargetFails(c, a)
      PROVE  AnswersFit'
  BY <1>19
  DEF TargetFails, TypeOK, Phases, AnswersFit, clientVars, transportVars,
      serverVars
<1>20. ASSUME NEW c \in Conn, NEW a \in App, RemoteEnds(c, a)
      PROVE  AnswersFit'
  BY <1>20
  DEF RemoteEnds, TypeOK, Phases, AnswersFit, clientVars, transportVars,
      serverVars
<1>21. ASSUME NEW a \in App, LocalEnds(a)
      PROVE  AnswersFit'
  BY <1>21
  DEF LocalEnds, TypeOK, Phases, AnswersFit, clientVars, transportVars,
      serverVars
<1>22. CASE UNCHANGED vars
  BY <1>22
  DEF TypeOK, Phases, AnswersFit, vars, clientVars, transportVars, serverVars
<1> QED
  BY <1>1, <1>2, <1>3, <1>4, <1>5, <1>6, <1>7, <1>8, <1>9, <1>10, <1>11, <1>12,
     <1>13, <1>14, <1>15, <1>16, <1>17, <1>18, <1>19, <1>20, <1>21, <1>22
  DEF Next

LEMMA GeometriesStep == IInv /\ [Next]_vars => Geometries'
<1> SUFFICES ASSUME IInv, [Next]_vars PROVE Geometries'
  OBVIOUS
<1> USE ConnectionAssumption DEF IInv
<1>1. ASSUME NEW c \in Conn, Dial(c)
      PROVE  Geometries'
  BY <1>1
  DEF Dial, TypeOK, Phases, Geometries, clientVars, transportVars, serverVars
<1>2. CASE DialFails
  BY <1>2
  DEF DialFails, TypeOK, Phases, Geometries, clientVars, transportVars,
      serverVars
<1>3. CASE HandshakeFails
  BY <1>3
  DEF HandshakeFails, TypeOK, Phases, Geometries, clientVars, transportVars,
      serverVars
<1>4. CASE Retry
  BY <1>4
  DEF Retry, TypeOK, Phases, Geometries, clientVars, transportVars, serverVars
<1>5. CASE HandshakeDone
  BY <1>5
  DEF HandshakeDone, TypeOK, Phases, Geometries, NoTunnels, NoTunnel,
      clientVars, transportVars, serverVars
<1>6. CASE ServeReturns
  BY <1>6
  DEF ServeReturns, TypeOK, Phases, Geometries, NoTunnels, NoTunnel,
      clientVars, transportVars, serverVars
<1>7. CASE ListenerFails
  BY <1>7
  DEF ListenerFails, TypeOK, Phases, Geometries, NoTunnels, NoTunnel,
      clientVars, transportVars, serverVars
<1>8. ASSUME NEW reading \in Readings, WatchdogTick(reading)
      PROVE  Geometries'
  BY <1>8
  DEF WatchdogTick, TypeOK, Phases, Geometries, clientVars, transportVars,
      serverVars
<1>9. ASSUME NEW c \in Conn, NEW end \in {"client", "server"}, EndLost(c, end)
      PROVE  Geometries'
  BY <1>9
  DEF EndLost, TypeOK, Phases, Geometries, clientVars, transportVars, serverVars
<1>10. ASSUME NEW c \in Conn, Notice(c)
      PROVE  Geometries'
  BY <1>10
  DEF Notice, TypeOK, Phases, Geometries, clientVars, transportVars, serverVars
<1>11. ASSUME NEW c \in Conn, ServerHandshake(c)
      PROVE  Geometries'
  BY <1>11
  DEF ServerHandshake, TypeOK, Phases, Geometries, clientVars, transportVars,
      serverVars
<1>12. ASSUME NEW c \in Conn, ServerEnds(c)
      PROVE  Geometries'
  BY <1>12
  DEF ServerEnds, TypeOK, Phases, Geometries, NoTunnels, NoTunnel, clientVars,
      transportVars, serverVars
<1>13. CASE ServerRestart
  BY <1>13
  DEF ServerRestart, TypeOK, Phases, Geometries, NoTunnels, NoTunnel,
      clientVars, transportVars, serverVars
<1>14. ASSUME NEW a \in App, AppConnects(a)
      PROVE  Geometries'
  BY <1>14
  DEF AppConnects, TypeOK, Phases, Geometries, clientVars, transportVars,
      serverVars
<1>15. ASSUME NEW a \in App, Accept(a)
      PROVE  Geometries'
  BY <1>15
  DEF Accept, TypeOK, Phases, Geometries, clientVars, transportVars, serverVars
<1>16. ASSUME NEW a \in App, OpenBi(a)
      PROVE  Geometries'
  <2>1. \A cap \in DatagramCaps : Running(fec, cap) = Geometry(fec)
    BY RunningIsGeometry DEF TypeOK, AnswersFit
  <2>2. CASE "client" \in open[conn]
    <3>1. PICK cap \in DatagramCaps :
            local' = [local EXCEPT ![a] = Running(fec, cap)]
      BY <1>16, <2>2 DEF OpenBi
    <3>2. local' = [local EXCEPT ![a] = Geometry(fec)]
      BY <2>1, <3>1
    <3>3. UNCHANGED <<fec, remote, server, serverFec>>
      BY <1>16 DEF OpenBi, serverVars
    <3> QED
      BY <3>2, <3>3 DEF TypeOK, Geometries
  <2>3. CASE "client" \notin open[conn]
    <3>1. local' = [local EXCEPT ![a] = NoTunnel]
      BY <1>16, <2>3 DEF OpenBi
    <3>2. UNCHANGED <<fec, remote, server, serverFec>>
      BY <1>16 DEF OpenBi, serverVars
    <3> QED
      BY <3>1, <3>2 DEF TypeOK, Geometries, NoTunnel
  <2> QED
    BY <2>2, <2>3
<1>17. ASSUME NEW c \in Conn, NEW a \in App, ServerAccept(c, a)
      PROVE  Geometries'
  BY <1>17
  DEF ServerAccept, TypeOK, Phases, Geometries, clientVars, transportVars,
      serverVars
<1>18. ASSUME NEW c \in Conn, NEW a \in App, TargetConnected(c, a)
      PROVE  Geometries'
  <2>1. \A cap \in DatagramCaps :
          Running(serverFec[c], cap) = Geometry(serverFec[c])
    BY RunningIsGeometry DEF TypeOK, AnswersFit
  <2> QED
    BY <1>18, <2>1
    DEF TargetConnected, TypeOK, Geometries, clientVars, transportVars
<1>19. ASSUME NEW c \in Conn, NEW a \in App, TargetFails(c, a)
      PROVE  Geometries'
  BY <1>19
  DEF TargetFails, TypeOK, Phases, Geometries, NoTunnels, NoTunnel, clientVars,
      transportVars, serverVars
<1>20. ASSUME NEW c \in Conn, NEW a \in App, RemoteEnds(c, a)
      PROVE  Geometries'
  BY <1>20
  DEF RemoteEnds, TypeOK, Phases, Geometries, NoTunnels, NoTunnel, clientVars,
      transportVars, serverVars
<1>21. ASSUME NEW a \in App, LocalEnds(a)
      PROVE  Geometries'
  BY <1>21
  DEF LocalEnds, TypeOK, Phases, Geometries, NoTunnels, NoTunnel, clientVars,
      transportVars, serverVars
<1>22. CASE UNCHANGED vars
  BY <1>22
  DEF TypeOK, Phases, Geometries, vars, clientVars, transportVars, serverVars
<1> QED
  BY <1>1, <1>2, <1>3, <1>4, <1>5, <1>6, <1>7, <1>8, <1>9, <1>10, <1>11, <1>12,
     <1>13, <1>14, <1>15, <1>16, <1>17, <1>18, <1>19, <1>20, <1>21, <1>22
  DEF Next

LEMMA StreakStep == IInv /\ [Next]_vars => StreakCounts'
<1> SUFFICES ASSUME IInv, [Next]_vars PROVE StreakCounts'
  OBVIOUS
<1> USE ConnectionAssumption DEF IInv
<1>1. ASSUME NEW c \in Conn, Dial(c)
      PROVE  StreakCounts'
  BY <1>1
  DEF Dial, StreakCounts, clientVars, transportVars, serverVars
<1>2. CASE DialFails
  BY <1>2
  DEF DialFails, StreakCounts, clientVars, transportVars, serverVars
<1>3. CASE HandshakeFails
  BY <1>3
  DEF HandshakeFails, StreakCounts, clientVars, transportVars, serverVars
<1>4. CASE Retry
  BY <1>4
  DEF Retry, StreakCounts, clientVars, transportVars, serverVars
<1>5. CASE HandshakeDone
  BY <1>5
  DEF HandshakeDone, StreakCounts, FreshWatchdog, clientVars, transportVars,
      serverVars
<1>6. CASE ServeReturns
  BY <1>6
  DEF ServeReturns, StreakCounts, clientVars, transportVars, serverVars
<1>7. CASE ListenerFails
  BY <1>7
  DEF ListenerFails, StreakCounts, clientVars, transportVars, serverVars
<1>8. ASSUME NEW reading \in Readings, WatchdogTick(reading)
      PROVE  StreakCounts'
  BY <1>8, TickStep
<1>9. ASSUME NEW c \in Conn, NEW end \in {"client", "server"}, EndLost(c, end)
      PROVE  StreakCounts'
  BY <1>9
  DEF EndLost, StreakCounts, clientVars, transportVars, serverVars
<1>10. ASSUME NEW c \in Conn, Notice(c)
      PROVE  StreakCounts'
  BY <1>10
  DEF Notice, StreakCounts, clientVars, transportVars, serverVars
<1>11. ASSUME NEW c \in Conn, ServerHandshake(c)
      PROVE  StreakCounts'
  BY <1>11
  DEF ServerHandshake, StreakCounts, clientVars, transportVars, serverVars
<1>12. ASSUME NEW c \in Conn, ServerEnds(c)
      PROVE  StreakCounts'
  BY <1>12
  DEF ServerEnds, StreakCounts, clientVars, transportVars, serverVars
<1>13. CASE ServerRestart
  BY <1>13
  DEF ServerRestart, StreakCounts, clientVars, transportVars, serverVars
<1>14. ASSUME NEW a \in App, AppConnects(a)
      PROVE  StreakCounts'
  BY <1>14
  DEF AppConnects, StreakCounts, clientVars, transportVars, serverVars
<1>15. ASSUME NEW a \in App, Accept(a)
      PROVE  StreakCounts'
  BY <1>15
  DEF Accept, StreakCounts, clientVars, transportVars, serverVars
<1>16. ASSUME NEW a \in App, OpenBi(a)
      PROVE  StreakCounts'
  BY <1>16
  DEF OpenBi, StreakCounts, clientVars, transportVars, serverVars
<1>17. ASSUME NEW c \in Conn, NEW a \in App, ServerAccept(c, a)
      PROVE  StreakCounts'
  BY <1>17
  DEF ServerAccept, StreakCounts, clientVars, transportVars, serverVars
<1>18. ASSUME NEW c \in Conn, NEW a \in App, TargetConnected(c, a)
      PROVE  StreakCounts'
  BY <1>18
  DEF TargetConnected, StreakCounts, clientVars, transportVars, serverVars
<1>19. ASSUME NEW c \in Conn, NEW a \in App, TargetFails(c, a)
      PROVE  StreakCounts'
  BY <1>19
  DEF TargetFails, StreakCounts, clientVars, transportVars, serverVars
<1>20. ASSUME NEW c \in Conn, NEW a \in App, RemoteEnds(c, a)
      PROVE  StreakCounts'
  BY <1>20
  DEF RemoteEnds, StreakCounts, clientVars, transportVars, serverVars
<1>21. ASSUME NEW a \in App, LocalEnds(a)
      PROVE  StreakCounts'
  BY <1>21
  DEF LocalEnds, StreakCounts, clientVars, transportVars, serverVars
<1>22. CASE UNCHANGED vars
  BY <1>22 DEF StreakCounts, vars, clientVars, transportVars, serverVars
<1> QED
  BY <1>1, <1>2, <1>3, <1>4, <1>5, <1>6, <1>7, <1>8, <1>9, <1>10, <1>11, <1>12,
     <1>13, <1>14, <1>15, <1>16, <1>17, <1>18, <1>19, <1>20, <1>21, <1>22
  DEF Next

-----------------------------------------------------------------------------
(* Theorems.                                                                 *)

LEMMA Initially == Init => IInv
<1> SUFFICES ASSUME Init PROVE IInv
  OBVIOUS
<1> USE ConnectionAssumption DEF Init
<1>1. TypeOK
  BY DEF TypeOK, NoParams, Fec, NoTunnels, NoTunnel, Tunnel, NoStreams,
         FreshWatchdog
<1>2. Phases /\ Answers
  BY DEF Phases, Answers
<1>3. AnswersFit
  BY DEF AnswersFit, Fit, NoParams, SafeMaxSymbolSize
<1>4. Geometries
  BY DEF Geometries, NoTunnels, NoTunnel
<1>5. StreakCounts
  BY DEF StreakCounts, FreshWatchdog
<1> QED
  BY <1>1, <1>2, <1>3, <1>4, <1>5 DEF IInv

LEMMA Invariance == Spec => []IInv
<1>1. IInv /\ [Next]_vars => IInv'
  BY TypeStep, PhasesStep, AnswersStep, AnswersFitStep, GeometriesStep,
     StreakStep
  DEF IInv
<1> QED
  BY <1>1, Initially, PTL DEF Spec

\* Every variable keeps its type (run_client, serve_connection, run_server,
\* handle_server_conn).
THEOREM TypeCorrect == Spec => []TypeOK
<1>1. IInv => TypeOK
  BY DEF IInv
<1> QED
  BY <1>1, Invariance, PTL

\* The two ends of a tunnel frame alike: a handler's parameters never change,
\* the client has a copy of them, and either end's own datagram limit leaves a
\* clamped symbol size as it is.
THEOREM GeometryAgreement == Spec => []GeometryAgreed
<1>1. IInv => GeometryAgreed
  <2> SUFFICES ASSUME IInv, client = "serving", NEW a \in App,
                      local[a].st = "running", remote[conn][a].st = "running"
               PROVE  local[a] = remote[conn][a]
    BY DEF GeometryAgreed
  <2>1. conn \in Conn
    BY DEF IInv, Phases
  <2>2. server[conn] = "serving" /\ remote[conn][a] = Geometry(serverFec[conn])
    BY <2>1 DEF IInv, Geometries
  <2>3. fec = serverFec[conn] /\ local[a] = Geometry(fec)
    BY <2>2 DEF IInv, Answers, Geometries
  <2> QED
    BY <2>2, <2>3
<1> QED
  BY <1>1, Invariance, PTL

\* StallWatchdog trips on a full run of bad measurements of the connection being
\* served and on nothing else.
THEOREM TripsOnRuns == Spec => []TripsExactly
<1>1. IInv => TripsExactly
  <2> SUFFICES ASSUME IInv
               PROVE  watchdog.fired <=>
                        /\ Len(readings) = StallTicks
                        /\ \A i \in 1 .. StallTicks : readings[i] = "bad"
    BY DEF TripsExactly
  <2>1. /\ Len(readings) \in Nat /\ Len(readings) <= StallTicks
        /\ watchdog.streak \in 0 .. StallTicks
        /\ StallTicks \in Nat \ {0}
    BY ConnectionAssumption DEF IInv, TypeOK
  <2>2. ASSUME watchdog.fired
        PROVE  /\ Len(readings) = StallTicks
               /\ \A i \in 1 .. StallTicks : readings[i] = "bad"
    <3>1. watchdog.streak = StallTicks /\ Len(readings) = StallTicks
      BY <2>1, <2>2 DEF IInv, StreakCounts
    <3> QED
      BY <2>1, <3>1 DEF IInv, StreakCounts
  <2>3. ASSUME Len(readings) = StallTicks, ~watchdog.fired
        PROVE  \E i \in 1 .. StallTicks : readings[i] # "bad"
    <3>1. watchdog.streak < Len(readings)
      BY <2>1, <2>3 DEF IInv, StreakCounts
    <3>2. readings[Len(readings) - watchdog.streak] = "good"
      BY <3>1 DEF IInv, StreakCounts
    <3>3. Len(readings) - watchdog.streak \in 1 .. StallTicks
      BY <2>1, <2>3, <3>1
    <3> QED
      BY <3>2, <3>3
  <2> QED
    BY <2>2, <2>3
<1> QED
  BY <1>1, Invariance, PTL
=============================================================================
