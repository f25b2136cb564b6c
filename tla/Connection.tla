----------------------------- MODULE Connection -----------------------------
(***************************************************************************)
(* The client's supervision loop (run_client), the server's connection       *)
(* handlers (run_server, handle_server_conn), the handshake between them,    *)
(* the stall watchdog, and the life of the tunnels on a connection, from     *)
(* the local TCP connection to both ends running with the same geometry.     *)
(*                                                                           *)
(* What a tunnel does while both ends run is FecTunnel's; here it ends when  *)
(* it likes.  Both sides are configured for the FEC data path.  A QUIC       *)
(* connection that one end has closed or timed out lives on at the other     *)
(* until that end notices.  The names of connections both ends are done with *)
(* are used again.                                                           *)
(***************************************************************************)
EXTENDS Integers, Sequences

CONSTANTS
  Conn,         \* names for QUIC connections
  App,          \* local TCP connections
  ClientFec,    \* the parameters the client asks for
  ClientPsk,
  ServerConfigs,\* configurations the server may be restarted with
  DatagramCaps, \* values max_datagram_size may have, at either end
  InitialBackoff,
  MaxBackoff,   \* ms
  StallTicks    \* bad readings that trip the watchdog

None == "none"
SafeMaxSymbolSize == 1098
MaxBlockSize == 256
SymbolHeaderLen == 22

Fec == [symbol : Nat, block : Nat]

ASSUME ConnectionAssumption ==
  /\ None \notin Conn
  /\ ClientFec \in Fec
  /\ ServerConfigs \subseteq [symbol : Nat, psk : STRING]
  /\ ServerConfigs # {}
  \* quinn keeps the path MTU at 1200 at least, which leaves room for more
  \* than a symbol of the safe size and its header.
  /\ \A cap \in DatagramCaps :
       cap \in Nat /\ cap >= SafeMaxSymbolSize + SymbolHeaderLen
  /\ StallTicks \in Nat \ {0}
  /\ InitialBackoff \in Nat /\ MaxBackoff \in Nat
  /\ InitialBackoff <= MaxBackoff

VARIABLES
  \* client
  client,       \* "dialling", "handshake", "serving", "waiting", "exited"
  conn,         \* the connection it works with
  backoff,      \* nominal delay before the next attempt, ms
  fec,          \* the parameters it got in HelloAck
  queue,        \* local connections the listener has not accepted
  local,        \* the client's tunnels
  readings,     \* the watchdog's last measurements, at most StallTicks
  watchdog,     \* its baseline, streak and fired flags
  \* transport
  open,         \* ends of each connection that hold it open
  hello,        \* Hello not yet read
  ack,          \* the parameters in a HelloAck not yet read
  stream,       \* each tunnel's stream as it is on the way
  \* server
  config,       \* the configuration it runs with
  server,       \* its handlers: "none", "accepted", "serving"
  serverFec,    \* the parameters each handler answered
  remote        \* the server's tunnels

clientVars == <<client, conn, backoff, fec, queue, local, readings, watchdog>>
transportVars == <<open, hello, ack, stream>>
serverVars == <<config, server, serverFec, remote>>
vars == <<clientVars, transportVars, serverVars>>

NoTunnel == [st |-> "none", symbol |-> 0, k |-> 0]
Tunnel == [st : {"none", "opening", "connecting", "running"},
           symbol : Nat, k : Nat]
NoParams == [symbol |-> 0, block |-> 0]
FreshWatchdog == [baseline |-> FALSE, streak |-> 0, fired |-> FALSE]

TypeOK ==
  /\ client \in {"dialling", "handshake", "serving", "waiting", "exited"}
  /\ conn \in Conn \cup {None}
  /\ backoff \in InitialBackoff .. MaxBackoff
  /\ fec \in Fec
  /\ queue \subseteq App
  /\ local \in [App -> Tunnel]
  /\ readings \in Seq({"good", "bad"}) /\ Len(readings) <= StallTicks
  /\ watchdog \in [baseline : BOOLEAN, streak : 0 .. StallTicks,
                  fired : BOOLEAN]
  /\ open \in [Conn -> SUBSET {"client", "server"}]
  /\ hello \in [Conn -> BOOLEAN]
  /\ ack \in [Conn -> SUBSET Fec]
  /\ stream \in [Conn -> [App -> {"none", "offered", "reset"}]]
  /\ config \in ServerConfigs
  /\ server \in [Conn -> {"none", "accepted", "serving"}]
  /\ serverFec \in [Conn -> Fec]
  /\ remote \in [Conn -> [App -> Tunnel]]

NoTunnels == [a \in App |-> NoTunnel]
NoStreams == [a \in App |-> "none"]

Init ==
  /\ client = "dialling" /\ conn = None
  /\ backoff = InitialBackoff /\ fec = NoParams
  /\ queue = {} /\ local = NoTunnels
  /\ readings = <<>> /\ watchdog = FreshWatchdog
  /\ open = [c \in Conn |-> {}]
  /\ hello = [c \in Conn |-> FALSE] /\ ack = [c \in Conn |-> {}]
  /\ stream = [c \in Conn |-> NoStreams]
  /\ config \in ServerConfigs
  /\ server = [c \in Conn |-> "none"]
  /\ serverFec = [c \in Conn |-> NoParams]
  /\ remote = [c \in Conn |-> NoTunnels]

Smaller(m, n) == IF m < n THEN m ELSE n
Larger(m, n) == IF m > n THEN m ELSE n

-----------------------------------------------------------------------------
(* Geometry.                                                                 *)

\* clamp_fec: the server's symbol size, no more than the safe one, and the
\* client's block size, no more than the ceiling.  (The repair ratio is
\* RepairControl's.)
ClampUnsafe(requested) == \* slip: the server's symbol size is trusted
  [symbol |-> config.symbol, block |-> Smaller(requested.block, MaxBlockSize)]
Clamp(requested) ==
  [symbol |-> Smaller(config.symbol, SafeMaxSymbolSize),
   block |-> Smaller(requested.block, MaxBlockSize)]

\* effective_symbol_size: at use, also what fits in a datagram of this end now.
EffectiveSymbol(symbol, cap) ==
  Larger(1, Smaller(symbol, cap - SymbolHeaderLen))

\* resolve_k.
ResolveK(params) == IF params.block = 0 THEN 16 ELSE params.block

Running(params, cap) ==
  [st |-> "running", symbol |-> EffectiveSymbol(params.symbol, cap),
   k |-> ResolveK(params)]

-----------------------------------------------------------------------------
(* The client's supervision loop.                                            *)

\* connect succeeded, and handshake_client has opened the control stream and
\* sent Hello.
Dial(c) ==
  /\ client = "dialling"
  /\ open[c] = {} /\ server[c] = "none"
  /\ client' = "handshake"
  /\ conn' = c
  /\ open' = [open EXCEPT ![c] = {"client", "server"}]
  /\ server' = [server EXCEPT ![c] = "accepted"]
  /\ hello' = [hello EXCEPT ![c] = TRUE]
  /\ ack' = [ack EXCEPT ![c] = {}]
  /\ stream' = [stream EXCEPT ![c] = NoStreams]
  /\ UNCHANGED <<backoff, fec, queue, local, readings, watchdog, config,
                 serverFec, remote>>

DialFails ==
  /\ client = "dialling"
  /\ client' = "waiting"
  /\ UNCHANGED <<conn, backoff, fec, queue, local, readings, watchdog,
                 transportVars, serverVars>>

\* The handshake fails when its connection does, or when the server turned
\* the client away, which ends the connection too.
HandshakeFails ==
  /\ client = "handshake"
  /\ "client" \notin open[conn]
  /\ client' = "waiting"
  /\ conn' = None
  /\ UNCHANGED <<backoff, fec, queue, local, readings, watchdog, transportVars,
                 serverVars>>

\* Slip: the delay grows without its cap.
RetryUncapped ==
  /\ client = "waiting"
  /\ client' = "dialling"
  /\ backoff' = 2 * backoff
  /\ UNCHANGED <<conn, fec, queue, local, readings, watchdog, transportVars,
                 serverVars>>

\* The delay is over; the next one is twice as long, up to the cap.
Retry ==
  /\ client = "waiting"
  /\ client' = "dialling"
  /\ backoff' = Smaller(2 * backoff, MaxBackoff)
  /\ UNCHANGED <<conn, fec, queue, local, readings, watchdog, transportVars,
                 serverVars>>

\* HelloAck: the parameters in it are the tunnels', and serve_connection starts
\* with a watchdog of its own.  What arrived before the connection was lost can
\* still be read.
HandshakeDone ==
  /\ client = "handshake"
  /\ ack[conn] # {}
  /\ client' = "serving"
  /\ backoff' = InitialBackoff
  /\ fec' \in ack[conn]
  /\ ack' = [ack EXCEPT ![conn] = {}]
  /\ readings' = <<>> /\ watchdog' = FreshWatchdog
  /\ UNCHANGED <<conn, queue, local, open, hello, stream, serverVars>>

\* Slip: a lost connection is noticed only when a tunnel is wanted.
ServeReturnsOnUse ==
  /\ client = "serving"
  /\ "client" \notin open[conn]
  /\ queue # {}
  /\ client' = "dialling"
  /\ conn' = None
  /\ local' = NoTunnels
  /\ UNCHANGED <<backoff, fec, queue, readings, watchdog, transportVars,
                 serverVars>>

\* serve_connection returns: its JoinSet aborts the tunnels, and the loop dials
\* again at once.
ServeReturns ==
  /\ client = "serving"
  /\ "client" \notin open[conn]
  /\ client' = "dialling"
  /\ conn' = None
  /\ local' = NoTunnels
  /\ UNCHANGED <<backoff, fec, queue, readings, watchdog, transportVars,
                 serverVars>>

\* An error of accept() leaves serve_connection, run_client and the program.
ListenerFails ==
  /\ client = "serving"
  /\ client' = "exited"
  /\ conn' = None
  /\ queue' = {}
  /\ local' = NoTunnels
  /\ open' = [open EXCEPT ![conn] = @ \ {"client"}]
  /\ UNCHANGED <<backoff, fec, readings, watchdog, hello, ack, stream,
                 serverVars>>

-----------------------------------------------------------------------------
(* The stall watchdog.                                                       *)

\* Slip: a good sample does not clear the streak.
ObserveKeepsStreak(w, reading) ==
  LET streak == w.streak + (IF reading = "bad" THEN 1 ELSE 0)
  IN  IF w.baseline
      THEN [w EXCEPT !.streak = streak, !.fired = streak >= StallTicks]
      ELSE [w EXCEPT !.baseline = TRUE]

\* One sample.  The first sets the baseline of window_loss and is no reading;
\* an interval in which nothing was sent reads as no loss, which is "good".
Observe(w, reading) ==
  LET streak == IF reading = "bad" THEN w.streak + 1 ELSE 0
  IN  IF w.baseline
      THEN [w EXCEPT !.streak = streak, !.fired = streak >= StallTicks]
      ELSE [w EXCEPT !.baseline = TRUE]

Newest(s) == SubSeq(s, Larger(1, Len(s) - StallTicks + 1), Len(s))

\* Slip: tripping is logged and nothing is closed.
WatchdogTickNoClose(reading) ==
  /\ client = "serving"
  /\ ~watchdog.fired
  /\ watchdog' = Observe(watchdog, reading)
  /\ readings' = IF watchdog.baseline THEN Newest(Append(readings, reading))
                 ELSE readings
  /\ UNCHANGED <<client, conn, backoff, fec, queue, local, open, hello, ack,
                 stream, serverVars>>

\* Tripping closes the connection; the server learns of it later.
WatchdogTick(reading) ==
  /\ client = "serving"
  /\ ~watchdog.fired
  /\ watchdog' = Observe(watchdog, reading)
  /\ readings' = IF watchdog.baseline THEN Newest(Append(readings, reading))
                 ELSE readings
  /\ open' = IF watchdog'.fired THEN [open EXCEPT ![conn] = @ \ {"client"}]
             ELSE open
  /\ UNCHANGED <<client, conn, backoff, fec, queue, local, hello, ack, stream,
                 serverVars>>

-----------------------------------------------------------------------------
(* QUIC.                                                                     *)

\* One end times out while the other still holds the connection.
EndLost(c, end) ==
  /\ open[c] = {"client", "server"}
  /\ open' = [open EXCEPT ![c] = @ \ {end}]
  /\ UNCHANGED <<clientVars, hello, ack, stream, serverVars>>

\* The end that is left learns of the close, or times out as well.
Notice(c) ==
  /\ open[c] # {}
  /\ open[c] # {"client", "server"}
  /\ open' = [open EXCEPT ![c] = {}]
  /\ UNCHANGED <<clientVars, hello, ack, stream, serverVars>>

-----------------------------------------------------------------------------
(* The server.                                                               *)

\* The handler read Hello.  A wrong key is answered with an error, and the
\* handler returns, which closes the connection.
ServerHandshake(c) ==
  /\ server[c] = "accepted"
  /\ hello[c]
  /\ hello' = [hello EXCEPT ![c] = FALSE]
  /\ IF config.psk = ClientPsk
     THEN /\ server' = [server EXCEPT ![c] = "serving"]
          /\ serverFec' = [serverFec EXCEPT ![c] = Clamp(ClientFec)]
          /\ ack' = [ack EXCEPT ![c] = {Clamp(ClientFec)}]
          /\ UNCHANGED open
     ELSE /\ server' = [server EXCEPT ![c] = "none"]
          /\ open' = [open EXCEPT ![c] = @ \ {"server"}]
          /\ UNCHANGED <<serverFec, ack>>
  /\ UNCHANGED <<clientVars, stream, config, remote>>

\* accept_bi, or the handshake, fails with the connection: the handler returns
\* and its JoinSet aborts the tunnels.
ServerEnds(c) ==
  /\ server[c] # "none"
  /\ "server" \notin open[c]
  /\ server' = [server EXCEPT ![c] = "none"]
  /\ serverFec' = [serverFec EXCEPT ![c] = NoParams]
  /\ remote' = [remote EXCEPT ![c] = NoTunnels]
  /\ hello' = [hello EXCEPT ![c] = FALSE]
  /\ UNCHANGED <<clientVars, open, ack, stream, config>>

\* The server goes away and comes back, perhaps configured otherwise.
ServerRestart ==
  /\ config' \in ServerConfigs
  /\ server' = [c \in Conn |-> "none"]
  /\ serverFec' = [c \in Conn |-> NoParams]
  /\ remote' = [c \in Conn |-> NoTunnels]
  /\ open' = [c \in Conn |-> open[c] \ {"server"}]
  /\ hello' = [c \in Conn |-> FALSE]
  /\ UNCHANGED <<clientVars, ack, stream>>

-----------------------------------------------------------------------------
(* Tunnels.                                                                  *)

AppConnects(a) ==
  /\ client # "exited"
  /\ a \notin queue /\ local[a] = NoTunnel
  /\ queue' = queue \cup {a}
  /\ UNCHANGED <<client, conn, backoff, fec, local, readings, watchdog,
                 transportVars, serverVars>>

\* accept() may win against closed(): the connection may be lost already.
\* (An application's name is used again once both ends are done with it.)
Accept(a) ==
  /\ client = "serving"
  /\ a \in queue
  /\ stream[conn][a] = "none" /\ remote[conn][a] = NoTunnel
  /\ queue' = queue \ {a}
  /\ local' = [local EXCEPT ![a].st = "opening"]
  /\ UNCHANGED <<client, conn, backoff, fec, readings, watchdog, transportVars,
                 serverVars>>

\* handle_client_conn_fec: open_bi, announce the stream id, run the tunnel; on
\* a lost connection open_bi fails and the application is hung up on.
OpenBi(a) ==
  /\ client = "serving"
  /\ local[a].st = "opening"
  /\ IF "client" \in open[conn]
     THEN /\ \E cap \in DatagramCaps :
               local' = [local EXCEPT ![a] = Running(fec, cap)]
          /\ stream' = [stream EXCEPT ![conn][a] = "offered"]
     ELSE /\ local' = [local EXCEPT ![a] = NoTunnel]
          /\ UNCHANGED stream
  /\ UNCHANGED <<client, conn, backoff, fec, queue, readings, watchdog, open,
                 hello, ack, serverVars>>

\* accept_bi, and a task that connects to the target.
ServerAccept(c, a) ==
  /\ server[c] = "serving"
  /\ stream[c][a] = "offered"
  /\ stream' = [stream EXCEPT ![c][a] = "none"]
  /\ remote' = [remote EXCEPT ![c][a].st = "connecting"]
  /\ UNCHANGED <<clientVars, open, hello, ack, config, server, serverFec>>

\* The stream id was announced before anything else: server_tunnel_fec reads
\* it and runs the tunnel.
TargetConnected(c, a) ==
  /\ remote[c][a].st = "connecting"
  /\ \E cap \in DatagramCaps :
       remote' = [remote EXCEPT ![c][a] = Running(serverFec[c], cap)]
  /\ UNCHANGED <<clientVars, transportVars, config, server, serverFec>>

\* Slip: a target that cannot be reached is logged, and the stream is left.
TargetFailsSilently(c, a) ==
  /\ remote[c][a].st = "connecting"
  /\ remote' = [remote EXCEPT ![c][a] = NoTunnel]
  /\ UNCHANGED <<clientVars, transportVars, config, server, serverFec>>

\* connect() failed or timed out: the stream is reset, which the client's end
\* can see if it is still there.
TargetFails(c, a) ==
  /\ remote[c][a].st = "connecting"
  /\ remote' = [remote EXCEPT ![c][a] = NoTunnel]
  /\ stream' = [stream EXCEPT ![c][a] =
                  IF conn = c /\ local[a] # NoTunnel THEN "reset" ELSE "none"]
  /\ UNCHANGED <<clientVars, open, hello, ack, config, server, serverFec>>

\* run_fec_tunnel returns on the server.  Its dropped send half is finished,
\* which ends nothing at the client: the reader's clean finish is ignored.
RemoteEnds(c, a) ==
  /\ remote[c][a].st = "running"
  /\ remote' = [remote EXCEPT ![c][a] = NoTunnel]
  /\ UNCHANGED <<clientVars, transportVars, config, server, serverFec>>

\* run_fec_tunnel returns on the client: the transfer is over, an error, or
\* nothing moved for TUNNEL_MAX_STALL.  Nothing says that it ever does, also
\* after the server's end is gone: that depends on the application and on what
\* was delivered.
LocalEnds(a) ==
  /\ local[a].st = "running"
  /\ local' = [local EXCEPT ![a] = NoTunnel]
  /\ stream' = [stream EXCEPT ![conn][a] = IF @ = "offered" THEN @ ELSE "none"]
  /\ UNCHANGED <<client, conn, backoff, fec, queue, readings, watchdog, open,
                 hello, ack, serverVars>>

\* The reader saw the reset, and the tunnel is abandoned.
ResetArrives(a) ==
  /\ client = "serving" /\ stream[conn][a] = "reset"
  /\ LocalEnds(a)

-----------------------------------------------------------------------------
Readings == {"good", "bad"}

Next ==
  \/ \E c \in Conn : Dial(c)
  \/ DialFails
  \/ HandshakeFails
  \/ Retry
  \/ HandshakeDone
  \/ ServeReturns
  \/ ListenerFails
  \/ \E reading \in Readings : WatchdogTick(reading)
  \/ \E c \in Conn, end \in {"client", "server"} : EndLost(c, end)
  \/ \E c \in Conn : Notice(c)
  \/ \E c \in Conn : ServerHandshake(c)
  \/ \E c \in Conn : ServerEnds(c)
  \/ ServerRestart
  \/ \E a \in App : AppConnects(a)
  \/ \E a \in App : Accept(a)
  \/ \E a \in App : OpenBi(a)
  \/ \E c \in Conn, a \in App : ServerAccept(c, a)
  \/ \E c \in Conn, a \in App : TargetConnected(c, a)
  \/ \E c \in Conn, a \in App : TargetFails(c, a)
  \/ \E c \in Conn, a \in App : RemoteEnds(c, a)
  \/ \E a \in App : LocalEnds(a)

\* Tasks run, timers fire, and an end hears of the other's close or times out.
\* Nothing makes a target answer, a running tunnel end or an application come.
Fairness ==
  /\ WF_vars(\E c \in Conn : Dial(c))
  /\ WF_vars(HandshakeFails)
  /\ WF_vars(Retry)
  /\ WF_vars(HandshakeDone)
  /\ WF_vars(ServeReturns)
  /\ WF_vars(\E reading \in Readings : WatchdogTick(reading))
  /\ \A c \in Conn : /\ WF_vars(Notice(c))
                     /\ WF_vars(ServerHandshake(c))
                     /\ WF_vars(ServerEnds(c))
  /\ \A a \in App : /\ WF_vars(OpenBi(a))
                    /\ WF_vars(ResetArrives(a))
  /\ \A c \in Conn, a \in App : /\ WF_vars(ServerAccept(c, a))
                                /\ WF_vars(TargetFails(c, a))

Spec == Init /\ [][Next]_vars
FairSpec == Spec /\ Fairness

-----------------------------------------------------------------------------
(* Properties.                                                               *)

\* Both ends of a tunnel cut and rebuild blocks with the same symbol size and
\* the same number of symbols, whatever the client asked for, whichever
\* configuration the server had when it answered and whatever the datagram
\* limit of either end is now (clamp_fec, effective_symbol_size, resolve_k).
GeometryAgreed ==
  client = "serving" =>
    \A a \in App :
      (local[a].st = "running" /\ remote[conn][a].st = "running")
        => local[a] = remote[conn][a]

\* The watchdog trips on StallTicks bad measurements in a row of the connection
\* being served, and on nothing else: not on the sample that sets the baseline,
\* not on bad ones with a good one between, not on an earlier connection's
\* (StallWatchdog, spawn_stall_watchdog).
TripsExactly ==
  client = "serving" =>
    (watchdog.fired <=> /\ Len(readings) = StallTicks
                        /\ \A i \in 1 .. StallTicks : readings[i] = "bad")

\* A tunnel the client opens gets a running peer or ends: a connection lost at
\* either end, a server that restarts and an unreachable target all reach it
\* (serve_connection's JoinSet, the reset in handle_server_conn and the reader of
\* run_fec_tunnel).  Once it had a running peer nothing is claimed: the peer's end
\* need not end it.
HalfOpenEnds ==
  \A a \in App :
    local[a].st = "opening" ~>
      (local[a].st = "none" \/ remote[conn][a].st = "running")

\* From some time on the path loses nothing, the server runs with the client's
\* key and the watchdog has no cause.
Quiet ==
  [][/\ ~DialFails
     /\ ~\E c \in Conn, end \in {"client", "server"} : EndLost(c, end)
     /\ ~ServerRestart
     /\ ~WatchdogTick("bad")]_vars

\* Then the client ends up with a connection both ends hold, and keeps it,
\* unless accept() made it exit: no loss, at whatever moment of a handshake or
\* a teardown, leaves it waiting for good (run_client's supervision loop).
Reconnects ==
  (<>Quiet /\ <>[](config.psk = ClientPsk))
    => <>[](\/ client = "exited"
            \/ client = "serving" /\ open[conn] = {"client", "server"})

\* A connection on which every measurement is bad is always left, for another
\* or for an attempt at one (the watchdog's close, and the loop that sees it).
WedgeBounded ==
  <>[](readings # <<>> => readings[Len(readings)] = "bad")
    => []<>(client # "serving")
=============================================================================
