------------------------------- MODULE Transfer -------------------------------
(***************************************************************************)
(* The bytes of one direction of a tunnel, from one socket to the other:   *)
(* the parameters are negotiated on the control stream, the client's bytes *)
(* are cut into blocks, a block travels as symbol datagrams, as a reliable *)
(* copy on the signal stream, or both, and the server puts them together   *)
(* again.  The signal stream is read in pieces that end anywhere.          *)
(*                                                                         *)
(* When repair and copies are asked for is FecTunnel's subject: here they  *)
(* may be sent at any time.  The other direction's signals share the       *)
(* stream.  Datagrams arrive in any order, once, or not at all; the hub    *)
(* keeps those that come before the route (DatagramHub).                   *)
(***************************************************************************)
EXTENDS BlockCodec

CONSTANTS
  App,            \* what the client's application writes
  Requests,       \* FEC parameters the client may be configured with
  Tokens, Psk,    \* the client's possible tokens; the server's secret, or <<>>
  ServerSize, SafeMaxSize, MaxBlockSize, MaxPpm, \* server's limits
  DefaultK,       \* resolve_k's 16
  StreamId,       \* what NEXT_STREAM_ID gave
  OtherSignals,   \* signals of the other direction
  Chunks,         \* bytes the reader may take at once (1 .. 512)
  MaxBlocks,      \* bound: blocks
  MaxRepair,      \* bound: repair symbols of a block
  MaxSignals      \* bound: signals beyond high-water marks and the count

Peer == {"client", "server"}
Version == 1

VARIABLES
  token,     \* the client's
  toServer, toClient, \* control stream
  params,    \* the negotiated parameters, once known
  refused,   \* the peers that gave the handshake up
  tunnel,    \* "none", "announced" or "open"
  route,     \* the stream id the server registered
  read,      \* bytes taken from the client's socket
  eof,
  blocks,    \* FecSender: payload, actual_k and repair_sent of each block
  air,       \* datagrams sent
  seen,      \* history: <<block, index>> that arrived
  signals,   \* history: signals sent
  wire, buf, \* the signal stream and the reader's buffer
  got,       \* history: signals decoded
  skipped,   \* history: the reader has dropped bytes
  relData,   \* reliable copies on their way to the downstream task
  pool,      \* managers: symbols of each undecoded block
  ready,     \* payload of each block that waits for its turn
  next,      \* next_deliver
  written    \* bytes written to the server's socket

controlVars == <<token, toServer, toClient, params, refused>>
routeVars   == <<tunnel, route>>
upVars      == <<read, eof, blocks>>
streamVars  == <<signals, wire>>
readerVars  == <<buf, got, skipped>>
receiveVars == <<relData, pool, ready, next, written>>
vars == <<controlVars, routeVars, upVars, streamVars, readerVars, receiveVars, air, seen>>

Ids == 0 .. MaxBlocks - 1
NoManager == [k |-> 0, symbols |-> {}, degraded |-> FALSE]

TypeOK ==
  /\ token \in Tokens
  /\ toServer \in Seq(Byte) /\ toClient \in Seq(Byte)
  /\ \A p \in Peer : params[p] # <<>> =>
       /\ params[p][1].size <= SafeMaxSize /\ params[p][1].k <= MaxBlockSize
       /\ params[p][1].ppm <= MaxPpm
  /\ refused \subseteq Peer
  /\ tunnel \in {"none", "announced", "open"}
  /\ read \in 0 .. Len(App) /\ eof \in BOOLEAN
  /\ Len(blocks) <= MaxBlocks
  /\ wire \in Seq(Byte) /\ buf \in Seq(Byte)
  /\ next \in 0 .. MaxBlocks
  /\ written \in Seq(Byte) /\ \A b \in Ids : ready[b] \in Seq(Byte)

\* FecParams, from the field where they start.
Fec(fields, i) == [size |-> fields[i], k |-> fields[i + 1], ppm |-> fields[i + 2]]

\* clamp_fec
ClampNothing(fec) == fec \* slip: the request is taken as it is
Clamp(fec) == [size |-> AtMost(ServerSize, SafeMaxSize),
               k    |-> AtMost(fec.k, MaxBlockSize),
               ppm  |-> AtMost(fec.ppm, MaxPpm)]

\* The messages of the handshake.
Hello(t, fec) == Signal("hello", <<Version, t, fec.size, fec.k, fec.ppm>>)
HelloAck(fec) == Signal("helloAck", <<Version, fec.size, fec.k, fec.ppm>>)
AuthError == Signal("openTargetErr", <<0, <<Version>> >>)

\* The integers of a message are u64, u32 and u16; send refuses a message above
\* MAX_CONTROL_MSG; blocks of the largest geometry are below MAX_RELIABLE_DATA; the
\* other direction's signals carry no payload; MaxBlocks and MaxRepair are the
\* model's bounds.
LargestK == AtLeast(DefaultK, MaxBlockSize)
ASSUME TransferAssumption ==
  /\ App \in Seq(Byte) /\ Chunks \subseteq Nat
  /\ Requests \subseteq [size : Word(W16), k : Word(W16), ppm : Word(W16)]
  /\ {ServerSize, SafeMaxSize, MaxPpm, Version} \subseteq Word(W16)
  /\ MaxBlockSize \in Nat /\ DefaultK \in Nat \ {0}
  /\ 0 .. LargestK \subseteq Word(W16)
  /\ \A t \in Tokens : t \in Seq(Byte) /\ Len(t) <= MaxField
  /\ \A t \in Tokens, fec \in Requests :
       \A m \in {Hello(t, fec), HelloAck(Clamp(fec)), AuthError} :
         Len(EncodeMessage(m)) <= MaxControlMsg
  /\ MaxPayload(AtLeast(SafeMaxSize, 1), LargestK) <= MaxReliableData
  /\ StreamId \in Word(W64)
  /\ \A s \in OtherSignals :
       /\ s = Signal(s.kind, s.fields) /\ s.kind \in {"nack", "request", "credit", "ack"}
       /\ s.fields \in [DOMAIN SignalLayout(s.kind) -> Nat]
       /\ \A i \in DOMAIN s.fields : s.fields[i] \in Word(Width(SignalLayout(s.kind)[i]))
  /\ MaxBlocks \in Nat /\ 0 .. MaxBlocks \subseteq Word(W64)
  /\ MaxRepair \in Nat /\ 0 .. LargestK + MaxRepair \subseteq Word(W24)

Init ==
  /\ token \in Tokens
  /\ \E fec \in Requests : toServer = Frame(Hello(token, fec))
  /\ toClient = <<>> /\ params = [p \in Peer |-> <<>>] /\ refused = {}
  /\ tunnel = "none" /\ route = <<>>
  /\ read = 0 /\ eof = FALSE /\ blocks = <<>>
  /\ air = {} /\ seen = {}
  /\ signals = <<>> /\ wire = <<>>
  /\ buf = <<>> /\ got = <<>> /\ skipped = FALSE
  /\ relData = <<>> /\ next = 0 /\ written = <<>>
  /\ pool = [b \in Ids |-> NoManager] /\ ready = [b \in Ids |-> <<>>]

-----------------------------------------------------------------------------
(* The handshake and the tunnel's announcement.                            *)

IsMessage(m, kind) == "kind" \in DOMAIN m /\ m.kind = kind

\* psk_matches: without a secret only the empty token matches.
PskMatches(t) == t = Psk

EchoRequest(asked) == asked \* slip: the ack repeats the request
Echo(asked) == Clamp(asked)

\* handshake_server: any other message, or version, ends it without an answer.
ServerAnswers ==
  LET m == FirstMessage(toServer) IN
  /\ params["server"] = <<>> /\ "server" \notin refused
  /\ Arrived(toServer)
  /\ IsMessage(m, "hello") /\ m.fields[1] = Version
  /\ toServer' = AfterFirst(toServer)
  /\ LET asked == Fec(m.fields, 3) IN
     \/ /\ PskMatches(m.fields[2])
        /\ params' = [params EXCEPT !["server"] = <<Clamp(asked)>>]
        /\ toClient' = Frame(HelloAck(Echo(asked)))
        /\ UNCHANGED refused
     \/ /\ ~PskMatches(m.fields[2])
        /\ toClient' = Frame(AuthError)
        /\ refused' = refused \cup {"server"}
        /\ UNCHANGED params
  /\ UNCHANGED <<token, routeVars, upVars, streamVars, readerVars, receiveVars, air, seen>>

\* handshake_client
ClientHears ==
  LET m == FirstMessage(toClient) IN
  /\ params["client"] = <<>> /\ "client" \notin refused
  /\ Arrived(toClient)
  /\ toClient' = AfterFirst(toClient)
  /\ IF IsMessage(m, "helloAck") /\ m.fields[1] = Version
     THEN /\ params' = [params EXCEPT !["client"] = <<Fec(m.fields, 2)>>]
          /\ UNCHANGED refused
     ELSE /\ refused' = refused \cup {"client"}
          /\ UNCHANGED params
  /\ UNCHANGED <<token, toServer, routeVars, upVars, streamVars, readerVars, receiveVars,
                 air, seen>>

\* client_tunnel_fec and server_tunnel_fec
Announce ==
  /\ params["client"] # <<>> /\ tunnel = "none"
  /\ tunnel' = "announced"
  /\ wire' = Put(StreamId, W64)
  /\ UNCHANGED <<controlVars, route, upVars, signals, readerVars, receiveVars, air, seen>>

Register ==
  /\ tunnel = "announced" /\ params["server"] # <<>>
  /\ Len(wire) >= W64
  /\ tunnel' = "open"
  /\ route' = <<Get(SubSeq(wire, 1, W64))>>
  /\ wire' = From(wire, W64 + 1)
  /\ UNCHANGED <<controlVars, upVars, signals, readerVars, receiveVars, air, seen>>

-----------------------------------------------------------------------------
(* The client's upstream task and signal writer.                           *)

ResolveK(fec) == IF fec.k = 0 THEN DefaultK ELSE fec.k
SymbolSize(p) == AtLeast(params[p][1].size, 1)
K(p) == ResolveK(params[p][1])
Running == tunnel # "none"

Send(s) ==
  /\ signals' = Append(signals, s)
  /\ wire' = wire \o EncodeSignal(s)

\* A read of n bytes, which fill at most a block, and what the live ratio adds.
EmitBlock(n, repair) ==
  LET size    == SymbolSize("client")
      payload == SubSeq(App, read + 1, read + n)
      k       == ActualK(n, size, K("client"))
      b       == Len(blocks)
  IN
  /\ Running /\ ~eof
  /\ b < MaxBlocks /\ read + n <= Len(App) /\ n <= MaxPayload(size, K("client"))
  /\ read' = read + n
  /\ blocks' = Append(blocks, [payload |-> payload, k |-> k, repair |-> repair])
  /\ air' = air \cup Symbols(StreamId, b, payload, size, k, 0, k + repair - 1)
  /\ Send(Signal("highWater", <<b + 1>>))
  /\ UNCHANGED <<controlVars, routeVars, eof, readerVars, receiveVars, seen>>

\* total_blocks
BlockTotalShort == AtLeast(Len(blocks), 1) - 1 \* slip: the last block's number
BlockTotal == Len(blocks)

ReadEof ==
  /\ Running /\ ~eof
  /\ eof' = TRUE
  /\ Send(Signal("count", <<BlockTotal>>))
  /\ UNCHANGED <<controlVars, routeVars, read, blocks, readerVars, receiveVars, air, seen>>

\* additional_repair, for a NACK or a top-up.
RepairFromStart(block) == block.k \* slip: the indices start over
RepairFrom(block) == block.k + block.repair
AdditionalRepair(b) ==
  LET block == blocks[b + 1] IN
  /\ block.repair < MaxRepair
  /\ blocks' = [blocks EXCEPT ![b + 1].repair = @ + 1]
  /\ air' = air \cup Symbols(StreamId, b, block.payload, SymbolSize("client"), block.k,
                             RepairFrom(block), RepairFrom(block))
  /\ UNCHANGED <<controlVars, routeVars, read, eof, streamVars, readerVars, receiveVars, seen>>

\* How many of the signals that the model bounds have been sent.
Extra == Len(SelectSeq(signals, LAMBDA s : s.kind \notin {"highWater", "count"}))

SendCopy(b) ==
  /\ Extra < MaxSignals
  /\ Send(Signal("data", <<b, blocks[b + 1].payload>>))
  /\ UNCHANGED <<controlVars, routeVars, upVars, readerVars, receiveVars, air, seen>>

SendOther(s) ==
  /\ Running /\ Extra < MaxSignals
  /\ Send(s)
  /\ UNCHANGED <<controlVars, routeVars, upVars, readerVars, receiveVars, air, seen>>

-----------------------------------------------------------------------------
(* The server's signal reader.                                             *)

\* One pass of the loop over the buffer: a signal is taken off and handed to its
\* channel (a copy to the downstream task's), or a byte is dropped.
Pass(s) ==
  LET d == DecodeSignal(s.rest) IN
  CASE d.what = "more" -> s
    [] d.what = "skip" -> [s EXCEPT !.rest = d.rest, !.skipped = TRUE]
    [] d.what = "signal" ->
         [s EXCEPT !.rest = d.rest, !.got = Append(@, d.signal),
                   !.copies = IF d.signal.kind = "data" THEN Append(@, d.signal) ELSE @]

\* Every signal the buffer holds: no pass leaves as many bytes as it found.
Drained(bytes) ==
  LET drain[i \in 0 .. Len(bytes)] ==
        IF i = 0 THEN [rest |-> bytes, got |-> <<>>, copies |-> <<>>, skipped |-> FALSE]
        ELSE Pass(drain[i - 1])
  IN  drain[Len(bytes)]

\* One read of the stream, and all complete signals handed to their channels.
ReadWire(n) ==
  /\ tunnel = "open"
  /\ n <= Len(wire)
  /\ wire' = From(wire, n + 1)
  /\ \E d \in {Drained(buf \o SubSeq(wire, 1, n))} :
       /\ buf' = d.rest
       /\ got' = got \o d.got
       /\ skipped' = (skipped \/ d.skipped)
       /\ relData' = relData \o d.copies
  /\ UNCHANGED <<controlVars, routeVars, upVars, signals, pool, ready, next, written, air, seen>>

-----------------------------------------------------------------------------
(* The server's downstream task and FecReceiver.                           *)

\* ready.insert and drain_ready
Deliver(b, payload) ==
  LET held == [ready EXCEPT ![b] = payload] IN
  \E floor \in next .. MaxBlocks :
    /\ \A c \in next .. floor - 1 : held[c] # <<>>
    /\ floor < MaxBlocks => held[floor] = <<>>
    /\ next' = floor
    /\ written' = written \o FlattenSeq([i \in 1 .. floor - next |-> held[next + i - 1]])
    /\ ready' = [c \in Ids |-> IF c < floor THEN <<>> ELSE held[c]]
    /\ pool' = [pool EXCEPT ![b] = NoManager]

\* The geometry of a block's decoder.
BlockKConfigured(h) == K("server") \* slip: every block is taken for a full one
BlockK(h) == AtMost(AtLeast(h.k, 1), K("server"))

\* FecReceiver::on_symbol: a degraded block waits for its copy.
OnSymbol(h, data) ==
  LET b       == h.block
      symbols == pool[b].symbols \cup {[esi |-> h.esi, data |-> data]}
      k       == IF pool[b] # NoManager THEN pool[b].k ELSE BlockK(h)
  IN
  \/ pool[b].degraded /\ UNCHANGED <<pool, ready, next, written>>
  \/ /\ ~pool[b].degraded
     /\ \E payload \in Payloads(symbols, SymbolSize("server"), k) :
          \/ payload # <<>> /\ Deliver(b, payload[1])
          \/ /\ payload = <<>>
             /\ pool' = [pool EXCEPT ![b].k = k, ![b].symbols = symbols]
             /\ UNCHANGED <<ready, next, written>>

\* BlockManager::tick gives a block up that is short of symbols.
Degrade(b) ==
  /\ pool[b] # NoManager /\ ~pool[b].degraded
  /\ Cardinality(pool[b].symbols) < pool[b].k
  /\ pool' = [pool EXCEPT ![b].degraded = TRUE]
  /\ UNCHANGED <<controlVars, routeVars, upVars, streamVars, readerVars, relData, ready, next,
                 written, air, seen>>

SymbolArrives(d) ==
  /\ tunnel = "open"
  /\ \E h \in {ParseHeader(d.header)} :
       /\ route = <<h.stream>>
       /\ air' = air \ {d}
       /\ seen' = seen \cup {<<h.block, h.esi>>}
       /\ \/ h.block >= next /\ OnSymbol(h, d.data)
          \/ h.block < next /\ UNCHANGED <<pool, ready, next, written>>
  /\ UNCHANGED <<controlVars, routeVars, upVars, streamVars, readerVars, relData>>

\* FecReceiver::on_reliable_block
CopyArrives ==
  /\ relData # <<>>
  /\ relData' = Tail(relData)
  /\ LET b == Head(relData).fields[1] IN
     \/ b >= next /\ Deliver(b, Head(relData).fields[2])
     \/ b < next /\ UNCHANGED <<pool, ready, next, written>>
  /\ UNCHANGED <<controlVars, routeVars, upVars, streamVars, readerVars, air, seen>>

\* The downstream task's loop may end: the total is known and delivered.
Ended == \E i \in DOMAIN got : got[i].kind = "count" /\ next >= got[i].fields[1]

-----------------------------------------------------------------------------
Handshake == ServerAnswers \/ ClientHears \/ Announce \/ Register
Upstream ==
  \/ \E n \in 1 .. Len(App), repair \in 0 .. MaxRepair : EmitBlock(n, repair)
  \/ ReadEof
  \/ \E b \in 0 .. Len(blocks) - 1 : AdditionalRepair(b) \/ SendCopy(b)
  \/ \E s \in OtherSignals : SendOther(s)
Reader == \E n \in Chunks : ReadWire(n)
Downstream == (\E d \in air : SymbolArrives(d)) \/ CopyArrives \/ (\E b \in Ids : Degrade(b))

Next == Handshake \/ Upstream \/ Reader \/ Downstream

Spec == Init /\ [][Next]_vars

-----------------------------------------------------------------------------
\* Both ends work with the parameters the server settled on, and only with the
\* right token (handshake_client and handshake_server over ControlChannel).
HandshakeAgrees ==
  /\ params["client"] # <<>> => params["client"] = params["server"] /\ PskMatches(token)
  /\ refused # {} => ~PskMatches(token) /\ params["client"] = <<>>

Encoded(ss) == FlattenSeq([i \in DOMAIN ss |-> EncodeSignal(ss[i])])

\* Wherever the reads cut the stream, and whatever bytes the payloads hold: the
\* signals decoded are those sent, in order; what is missing is in the buffer or
\* under way; no whole signal is left in the buffer when the stream is empty; and
\* the resynchronisation never drops a byte of a peer of the same version
\* (TunnelSignal::decode and the reader's drain loop).
SignalsIntact ==
  tunnel = "open" =>
    /\ ~skipped
    /\ IsPrefix(got, signals)
    /\ Encoded(From(signals, Len(got) + 1)) = buf \o wire
    /\ wire = <<>> => got = signals

\* What is written to the server's socket is what was read from the client's, by
\* whichever symbols and copies it came, of whichever sizes the blocks are, and
\* the route is the one the datagrams name (pad_block, actual_k_for, the symbol
\* header, unpad_block, drain_ready).
BytesInOrder ==
  /\ IsPrefix(written, App)
  /\ Len(written) <= read
  /\ next = Len(blocks) => Len(written) = read
  /\ tunnel = "open" => route = <<StreamId>>

\* A block whose k source symbols have all arrived, in whatever order and company,
\* is written or waits for its turn, unless it was given up for its copy: the k the
\* sender computed has room for the payload and its prefix, and the receiver
\* decodes with the same geometry (actual_k_for, pad_block, SymbolHeader.actual_k).
SourceSymbolsSuffice ==
  \A b \in 0 .. Len(blocks) - 1 :
    (\A i \in 0 .. blocks[b + 1].k - 1 : <<b, i>> \in seen) =>
      b < next \/ ready[b] # <<>> \/ pool[b].degraded

\* The symbols each block's source and repair make: k, and one more for each repair
\* that was asked for.
Minted ==
  UNION {{b} \X (0 .. blocks[b + 1].k + blocks[b + 1].repair - 1) : b \in 0 .. Len(blocks) - 1}

\* No symbol is ever minted twice, so that every datagram of a block is worth
\* something to the decoder (additional_repair and repair_sent).
EsisFresh == Cardinality(air) + Cardinality(seen) = Cardinality(Minted)

\* One direction of a tunnel is a byte stream, whatever is lost, repaired, copied or
\* reordered: the server's socket is given a beginning of what was read from the
\* client's, it only grows, and the downstream task's loop ends only when the client's
\* side is at its end and every byte is written (the up and down tasks of run_fec_tunnel).
Bytes == INSTANCE ByteStream
           WITH sent <- SubSeq(App, 1, read), received <- written, closed <- Ended
ByteContract == Bytes!StreamSpec
=============================================================================
