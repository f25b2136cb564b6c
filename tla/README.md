# raptun: a TLA+ verification project

raptun carries TCP connections through one QUIC connection. Each TCP
connection becomes a *tunnel*: its bytes are cut into blocks, each block is
encoded with RaptorQ and sent as unreliable QUIC datagrams, and one reliable
QUIC stream per tunnel carries the signals that repair, acknowledge, throttle
and end it. The modules here model that core (the FEC tunnel, the repair
budget, the send window, the datagram hub), a whole tunnel with all its tasks on
both peers, the bytes on the wire from the handshake to the far socket, the
controller that decides how much repair is sent, and the connection with its
supervision on both sides.

## 1. Inventory

| Component | Code | State it keeps | What it does | What makes it correct |
|---|---|---|---|---|
| FEC tunnel, one direction | `raptun-core/src/run.rs` (`run_fec_tunnel`), `fec.rs` (`FecSender`, `FecReceiver`), `raptun-fec/src/decoder.rs` | sender: block counter, retained encoders and payloads, top-up counts, ack count; receiver: a manager per block, decoded blocks, delivery floor, known bounds, set of reliable requests | emit a block, serve NACKs and reliable requests, top up, retire; receive symbols, decode, deliver in order, tick (NACK, degrade, request), end | ordered gapless delivery; no early end of stream; a lost block is always repaired in the end; the tunnel winds down |
| Repair budget and block managers | `raptun-fec/src/budget.rs`, `decoder.rs` | a connection-wide counter and ceiling; per block its state, received and reserved symbols, timers | refresh, try_reserve, release; on_symbol, tick | bounded by the published ceilings; never wraps; nothing leaks |
| Send window and gate | `raptun-fec/src/budget.rs` (`SendWindow`, `TunnelSlot`), `run.rs` (gate and spin loops) | ceiling, smallest window seen, aggregate and per-tunnel counts | observe, refresh, register, has_room, add_sent, settle, abandon, drop | exact accounting; bounded overshoot; a held block is let through |
| Datagram hub | `raptun-core/src/fec.rs` (`DatagramHub`, `HubGuard`), `run.rs` (`spawn_datagram_reader`) | routes, pending buffers | dispatch_route, dispatch, register, unregister | no symbol is stranded or overtaken at the hand-over |
| Whole tunnel | `run.rs` (`run_fec_tunnel`, the stream's start and reset in `handle_server_conn`) | the four futures up, down, writer, reader; `down_done`; the ack count | join, reset, mutual wind-down, errors of the sockets | both peers end, and neither too early; a half-close is passed on |
| Tunnel signals | `fec.rs` (`TunnelSignal`), `run.rs` (the reader) | read buffer | encode, decode, resynchronise | decode inverts encode whatever the chunks are |
| Adaptive repair control | `telemetry.rs` (`LossTracker`, `RegimeClassifier`), `raptun-fec/src/link.rs`, `strategy.rs`, `run.rs` (`spawn_fec_controller`) | previous counters and window, smoothed loss, ratio, published ratio | window_loss, classify, update | never more repair than the loss calls for; the excess is shed under congestion and silence |
| Connection, handshake, watchdog | `run.rs` (`run_client`, `serve_connection`, `spawn_stall_watchdog`, `run_server`, `handle_server_conn`), `session.rs`, `telemetry.rs` (`StallWatchdog`), `raptun-proto/src/control.rs` | client: phase, back-off, parameters, tunnels, streak; server: handlers, their parameters, tunnels | dial, authenticate, negotiate, serve, accept, open, connect to the target, reset, watch, reconnect, restart | both ends agree on the geometry; the client always comes back; no tunnel waits for good for a peer that never runs; the watchdog trips exactly on sustained loss |
| Codec and formats | `raptun-fec/src/codec.rs`, `encoder.rs`, `raptun-proto`, `session.rs` (`ControlChannel`) | the count of symbols minted for a block | padding, cutting into symbols, headers, control messages and their frames | what is written is what was read; both ends use one geometry; no symbol twice; RaptorQ itself is a library |
| Set-up, monitor, command lines | `tls.rs`, `endpoint.rs`, `config.rs`, `monitor.rs`, `raptun-client`, `raptun-server` | counters for display | I/O | outside this project |

How they interact. The *upstream* task of a tunnel reads TCP, passes each block
through the gate of the connection's `SendWindow`, encodes it and sends its
symbols; the peer's single datagram reader hands them, through the
`DatagramHub`, to the *downstream* task of the tunnel. That task decodes,
writes to TCP, and every 20 ms arbitrates the blocks that are still short:
each asks the connection's `RepairBudget` for room and then sends a NACK, or is
degraded and asks for a reliable copy. NACKs, requests, copies, acks, credits,
high-water marks and the final count travel over the tunnel's signal stream;
a reader task sorts them into one channel per kind, and the tasks `select!`
over the channels. So everything about one tunnel is asynchronous, and the
budget, the window and the hub are shared by all tunnels over several threads.

What is hard: datagrams are lost, delayed and reordered; signals of different
kinds overtake each other after they were read; bounded channels drop; the
guards of the two directions use different clocks and different notions of
progress; checks and updates of the shared counters are separate steps; an
upstream task held at the gate serves nothing else; the ends of a connection
die one at a time, at any moment of a handshake, an accept or a teardown. `PROJECT.json` lists each
hazard at its line.

## 2. Modules

**OrderedStream** is the abstract specification: blocks written on one side
are delivered on the other in order, without gap or repeat, and end of stream is
shown only after the writer closed and everything was delivered. **ByteStream** is
the same contract in bytes, and does not mention blocks: `Write` lengthens what the near
application has sent, `CloseWrite` ends it, `Deliver` lengthens what the far one
received, always a beginning of what was sent, and may show the end when nothing is missing.

**FecTunnel** is one direction of one tunnel. Its upper actions are arms of
`up`: `EmitBlock` (a TCP read: encode, evict, send, announce), `ReadEof`,
`UpStallAbort`, `ServeNack`, `ServeReliable`, `ProactiveTopup`, `TakeAck` and
`UpFinish` (the end of the post-EOF loop). Its lower actions are arms of `down`:
`SymbolArrives`, `CountArrives`, `HighWaterArrives`, `ReliableDataArrives`,
`Tick`, `StrayUnmark` and `DownStall`. Three abstractions keep it finite:

- A symbol is one of a number: every symbol of a block has a fresh ESI and
  QUIC does not duplicate datagrams, so `net[b]` counts the symbols that may
  still arrive. How many of a burst survive is chosen when it is sent. A block
  decodes with k symbols at the earliest and with k + `DecodeSlack` at the
  latest, as RaptorQ does.
- A channel is the number of signals of its kind in flight for each block. The
  code keeps no order between kinds, and signals about different blocks of one
  kind commute at their consumer. The high-water marks, which do not, are
  consumed lowest (that is, oldest) first.
- A timer is a choice: a block that is short of symbols may be found stalled at
  any tick, whether the budget grants its NACK is a choice, and `QuietPeriods`
  says whether anything ever takes longer than `TUNNEL_MAX_STALL`. When it is
  TRUE the two stall guards and the post-EOF bound may fire at any time their
  conditions allow.

`StrayUnmark` is there because the reader and the upstream task unmark the
block of a request they could not serve in the *local* receiver, which counts
the blocks of the opposite direction; only the ids in `StrayBlocks` are tried.
When the upstream task ends, its channels go with it, and later signals to it
are read and dropped.

**TunnelPair** is `run_fec_tunnel` on both peers at once. `up` and `down` are the
places of the two data tasks of each peer, `writer` says whether the signal writer
still runs, and `run` is the whole call: the server first dials its target
(`ConnectTarget`, or `RefuseTarget`, which resets the stream), `Join` is the `join!` of
the three tasks, and `Abandon` the reader's `true`, which drops them
(`HearReset`, `LoseConnection`, `HearLoss`). `WriterEnds` needs both handles on its queue
to be dropped, or a peer that no longer reads. `DownDone`, `FastBreak` and `DrainStall` are the three
ways out of the post-EOF loop. Of a block it keeps only whether it is on its way,
asked for or held; `Complete` is the arrival with its in-order delivery, the
acknowledgement and a write that may fail. `AckAgain` is the second decoding of a
block held out of order. A channel of acks is a number, because the loop
counts them and asks no more of them.

**WireFormat** has the bytes: a layout is a sequence of fields, and one pair of
operators writes and reads any layout, as `Buf` and `BufMut` do. `Word` is the numbers
that have room in so many bytes; `Put` cuts what has none. On it stand
the seven signals with `DecodeSignal`'s three answers, the ten control messages
with their length-prefixed frames, and the symbol header. **BlockCodec** has
`ActualK`, padding, symbols, and what RaptorQ may make of a set of them. **Transfer** is
one direction of a tunnel end to end: `ServerAnswers` and `ClientHears` are the
handshake, `Announce` and `Register` the stream id on the tunnel's stream,
`EmitBlock`, `AdditionalRepair` and `SendCopy` the sender, `ReadWire` one read of the
signal stream with its drain loop (`Drained`, one `Pass` of which takes one signal off or drops a
byte), `SymbolArrives`, `CopyArrives` and `Degrade` the
receiver. Whether and when repair and copies are sent is left open, since it is what
FecTunnel decides; here they may come at any time. `seen`, `signals` and `got` are
history variables. Transfer implements ByteStream (`ByteContract`): sent is what `up` has
read of the socket, received is what `down` has written, and the end may be shown from the
moment `Ended` holds, when a total was decoded and the next block to deliver has reached it. The
code's loop breaks at that moment or at a later turn, so the claim covers every moment at which
the far socket can be shut in the regular way.

**RepairBudget** is the connection-wide budget with the managers of several
blocks and the top-ups. `try_reserve` loads the ceiling and commits with a
compare-and-swap in a later step, so `TickStalled` and `Reserve` (`TopupLoad`
and `TopupReserve`) are two steps each. A block's clocks are the phases that the
stall test tells apart: fresh, past the grace period, past the hard deadline;
a later block seen; one RTT after the NACK.

**SendWindow** is the connection-wide window with the part of `up` that uses
it, at the granularity of the code's awaits and atomics: `TcpRead`, the gate loop
(`GatePass`, `GateCredit`, `GateProbe`), the spin loop (`SpinPass`, `SpinBlocked`,
`YieldCredit`, `YieldAgain`, `YieldAbandon`), `AddSent`, and in `select!`
`ServeCredit` and `Recover` (a NACK or reliable request is served). `Open` and
`Close` are register_tunnel and the slot's Drop. The far side is reduced to
`Deliver` and `SendCredit`, and `ControlTick` is observe_cwnd and
refresh_ceiling with any window of `Cwnds`. A block is `lost` when its burst does
not decode.

**DatagramHub** is the hub with its single reader: `Lookup` is the routes' first
reading, `SendToRoute`, `DispatchSkips` and `DispatchBuffers` what follows without the
lock of the first; `Register`, `DropReceiver` and `DropGuard` are a tunnel's
life, and `Take` its receiving.

**RepairControl** is the controller of one connection. Its only action, `Tick`,
is one pass of the 50 ms loop: `LossRate`, `Smoothed`, `Classify`, `Target`,
`Step` and `WorthAnnouncing` are the functions it calls, in their order. Ratios
are millionths as in `RepairRatio`; the `f64` arithmetic between them is rounded
down to millionths. `peakLoss` and `allowance` are history variables that the
properties compare with. The refresh of the budget's ceiling in the same tick is
RepairBudget's `Refresh`.

**Connection** is a client with its supervision loop, a server, and the QUIC
connections between them. A connection is *open* at each of its ends separately:
`EndLost` is an idle timeout at one end, `Notice` what the other end sees of it.
`Dial`, `DialFails`, `HandshakeFails`, `Retry`, `HandshakeDone`, `ServeReturns` and
`ListenerFails` are the exits and turns of `run_client` and `serve_connection`;
`ServerHandshake` and `ServerEnds` those of `handle_server_conn`; `ServerRestart` is
a new server process, perhaps with other parameters or another key.
`WatchdogTick` is one sample of the watchdog. A tunnel goes through `AppConnects`,
`Accept`, `OpenBi` on the client, `ServerAccept`, and `TargetConnected` or
`TargetFails` on the server; what it does while both ends run is FecTunnel's, so
here it ends when it likes (`RemoteEnds`, `LocalEnds`, of which `ResetArrives` is the
case with a cause). The end of the server's side alone ends nothing at the client: its
reader ignores a clean finish. An HelloAck is the parameters in it, and
what has arrived can be read after the connection is lost. An interval in which
nothing was sent is a good reading, as `window_loss` makes it one.

`MCRepairBudget`, `MCSendWindow`, `MCDatagramHub`, `MCRepairControl`, `MCConnection`,
`MCTunnelPair` and `MCTransfer` give TLC the values a `.cfg` cannot write;
`MCRepairBudget` and `MCDatagramHub` add the symmetry sets (blocks and streams are
interchangeable; the runs with liveness use none).
`Tally` is the sum that RepairBudget and SendWindow compare their counters with.
`*Proofs` hold the theorems. Operators marked `slip` are plausible mistakes in
the definition below them; no specification uses them, and they show that each
property can fail.

## 3. What is checked

| Run | Shows | Bounds |
|---|---|---|
| `fec_tunnel_safety` | `StreamContract`: FecTunnel implements OrderedStream; `NothingForgotten`: an emitted block inside the retention window is retained or held by the receiver; `RecoveryInProgress`: a block given up on or asked for has its answer under way | 2 blocks of up to 2 symbols, window of 1, no repair in advance, one top-up per block, decoding may need one more, 2 symbols and 1 signal of a kind in flight per block, guards on |
| `fec_tunnel_delivery` | `EveryBlockDelivered`, under fairness: every block is delivered while the upstream task serves, also when a whole burst is lost | 2 blocks of up to 2 symbols, no repair in advance, block 0 may be unmarked by mistake |
| `tunnel_pair` | `NoEarlyLeave`: an upstream task that left on its ack count left nothing undelivered behind; `StreamContract`: each direction implements OrderedStream; under fairness `HalfClosePassedOn` and `BothEnd` | a request of 1 block, a response of 2, one block of each direction acknowledged twice, guards on, every order of resets, losses and errors |
| `transfer` | `HandshakeAgrees`, `SignalsIntact`: the signals decoded are those sent, whatever the reads; `BytesInOrder`; `SourceSymbolsSuffice`: the sender's geometry is one the receiver can decode; `EsisFresh`; `ByteContract`: Transfer implements ByteStream, so the far socket is given a growing beginning of what the near one sent, and its end only after all of it | 4 bytes that look like tags, in at most 2 blocks; blocks of two symbols of 3 bytes, or of one; 2 repair symbols; reads of 1 or 4 bytes; 1 copy or foreign signal; a right and a missing token |
| `repair_budget_safety` | `WithinPeak`, `ReservationsCovered`, `ReservedWhileNacked`, and `DriftOnlyByBypass`: counter and reservations drift apart only in a top-up, or when a block leaves NackSent by a reliable copy or its tunnel's end | 3 blocks of 2 symbols, 2 top-ups, ceilings 0, 2, 3, decoding may fail |
| `send_window_safety` | `AggregateMatches`, `InFlightCounted`, `OvershootBounded`, `HeldForBlocks`: a block is held only while a live tunnel has blocks out; under fairness `GateOpensIfIntact`: a held block is let through or the tunnel ends, as long as bursts decode | 2 tunnels of 3 blocks, floor of 3, a window worth 50 blocks, losses |
| `datagram_hub_safety` | `NoneStranded`, `ArrivalOrder` | 2 streams of 5 datagrams, a pending map of one stream with 2 symbols, channel of 3 |
| `repair_control_safety` | `NeverOverProvisioned`, `ShedsExcess` | every sequence of 8 of five kinds of interval: clean, 5 % and 20 % loss, more losses than sends, losses without sends; the window cut, flat and growing; the default policy |
| `connection` | `GeometryAgreed`, `TripsExactly`; under fairness `HalfOpenEnds`: a tunnel that the client opens gets a running peer or ends, `Reconnects`, `WedgeBounded` | 2 connections, 1 application, 3 server configurations (one with another symbol size, one with another key), 2 datagram limits, streak of 2, back-off from 200 to 500 ms |
| `fec_tunnel_double_ack` | expected violation of `FinishedMeansDecoded` with 2 blocks | 2 blocks of 1 symbol |
| `fec_tunnel_idle` | expected violation of `CaughtUpTunnelLives` | 2 blocks of 1 symbol, guards on |
| `send_window_wedged` | expected violation of `GateOpens` when bursts may fall short | 1 tunnel, 4 blocks, floor of 2 |

Each passing run also checks its module's type invariant where it is listed in
`PROJECT.json`.

**Why these bounds are enough.** The interesting cases of a tunnel need two
blocks (one decoded ahead of the other, one evicted by the other, one
acknowledged twice) and blocks of two symbols (one arrived, one missing: the only
state with a NACK). A window of one block makes eviction happen. The budget needs
a block that waits for its reservation while the ceiling moves and another that
holds one; the window needs two tunnels that check before either accounts, a
fair share smaller than the window, and one that closes or abandons while the
other sends; the hub needs two streams to fill a map of one. The queue bounds 9
are larger than anything that can be in flight, so nothing is dropped for a full
channel in these runs. The controller needs enough ticks for the smoothed loss to
change the verdict both ways and for the excess to shrink over several of them.
The supervision loop needs a second connection, so that the first may still be held
by the server's end while the client dials again; tunnels of a connection do
not affect each other here, so one application is enough. A streak of 2 tells a
run of bad samples from two bad ones with a good one between, and a cap of 500 ms is
reached by doubling but not hit by it.

A whole tunnel needs two blocks in one direction (one acknowledged twice while the
other is missing) and a direction of its own on the way back, so that one side is
still receiving while the other has finished; the smaller request keeps
the number of orders of ends within reach. The integers of Transfer are narrower
than the code's (a byte has 16 values, a u64 two bytes, the rest one): what can go
wrong with a layout, a cut, a length prefix or a tag in a payload does not depend on the
widths, and every value a run uses fits. The pieces the reader takes are of 1
and 4 bytes, where the code's are of up to 512: a signal has 3 to 8 bytes in the run, so that
pieces end inside each field, between signals, and after several of them. Two blocks of two geometries (full, and the
short last one) make an `actual_k` that differs from the negotiated one.

**Fairness.** `RuntimeFairness` of FecTunnel says that channels are drained,
surviving datagrams arrive, the tick runs and finds a short block stalled while it
stays short: tokio schedules tasks that are ready, and the timers are
intervals. `NetworkFairness` says that a block's repair bursts are not all lost
for ever. It takes for granted that `up` gets back to its `select!`, which is what
`GateOpens` is about. Fairness of SendWindow (`TunnelFairness`) says that tasks are
polled, credits taken and a lasting spin is ended by its 10 s bound (strong
fairness of `YieldAbandon`: the spin passes through its body again and again), and
that a request for a lost block is served if the task keeps coming back to
`select!` (strong fairness of `Recover`; tokio's `select!` polls its ready arms in
random order). Nothing is assumed of the 5 s probe: it is created anew after each 20 ms
re-check and wins only if the task was not polled for 5 s. It is an action all the
same, so the safety properties hold when it fires.

Fairness of TunnelPair (`PeerFairness`) says that tasks run, signals arrive, a lost
connection or a reset is noticed, a dial ends one way or the other, blocks in doubt are asked
for and requests served, and, strongly, that a burst which is sent again and
again arrives in the end (the network is lossy, not dead). Nothing is assumed of the
applications: they may never write, never close. They are taken to read, since
`down` awaits its TCP write. That the 120 s guards fire when they may
(`GuardsFire`) is a premise of `BothEnd` only. `up` is taken to come back to its `select!`, which is
SendWindow's question. Transfer states no liveness.

Fairness of Connection says that tasks and timers run: the client dials and retries,
handlers answer, an end hears of the other's close or times out, a task opens its
stream, `connect_timeout` ends a wait for the target, and a reset ends the tunnel it
reaches. It does not say that a dial succeeds, that a target
answers, that a connection lasts, or that a tunnel ends because its peer has: the
downstream guard is off once the total is known, the upstream one is set anew
while the tunnel is caught up, and a clean finish is ignored. `HalfOpenEnds` is therefore about
tunnels that have not had a running peer yet; how the two ends of a running one
end is `BothEnd`'s question, which starts once both upstream tasks have stopped reading. `Reconnects` therefore assumes, as a condition,
that from some time on no end is lost, no dial fails, the server stays up with the
client's key, and no sample is bad.

### Known deviations

Three runs are expected to fail, each on a statement of the code's own
documentation, quoted in `PROJECT.json`:

1. *double ack.* A symbol that arrives for a block decoded but not yet
   delivered starts a new manager; that block may decode and be acknowledged
   again. `acked_blocks` counts both, and the upstream task may end with another
   block missing.
2. *idle tunnel.* The downstream guard takes a tunnel that has delivered
   everything and is idle for 120 s for a stalled one.
3. *wedged gate.* If the blocks in flight need repair, the gate that holds the next
   one keeps the upstream task from serving the request, and no credit comes. The
   probe that should end this never fires. `docs/issues-2026-08-04-multi-tunnel-test.md:127` reports
   the test of the probe as flaky.

Others were seen while modelling and have no run of their own. They can be
reproduced by changing one constant, or read off a property that passes:

- A reliable copy that finds its channel full is dropped, and `tick` does not ask
  again: with `RelDataQueue = 1` in the safety run `RecoveryInProgress` fails
  (`run.rs:1323`; compare `run.rs:1207-1208`).
- A block completed reliably, or dropped with its tunnel, while a NACK is
  outstanding keeps its reservation in the connection's counter, which
  `DriftOnlyByBypass` has to allow for (`fec.rs:1019`; compare `decoder.rs:105`).
- With `DecodeSlack = 1` in the delivery run, a block whose decoding fails with k
  symbols is never stalled, never degraded and never delivered
  (`decoder.rs:215`; compare `docs/DESIGN.md:698`).
- Without `NetworkFairness`, a block one symbol of which arrived is asked for by
  NACKs for ever and never reliably (`decoder.rs:274`; compare `fec.rs:1012-1013`).
- A *stranded* peer never ends. Once the total is known the downstream guard is off
  (`run.rs:1979`; compare `run.rs:1790-1799` and `run.rs:1975-1977`), so if the other upstream
  task has left with a block missing (its own guard, or a block acknowledged twice),
  the receiver waits until the connection goes. `BothEnd` names this as its one
  exception, `Stranded`, and `NoEarlyLeave` excludes the blocks acknowledged twice.
- When a tunnel is torn down by a reset, a lost connection or an error of the local
  socket, the TCP halves are dropped, which closes them with an ordinary FIN: the
  application cannot tell its truncated stream from a finished one. The model has the ends
  `dropped` and `failed` apart from `shut`, and `StreamContract` speaks of `shut`.
- A finish of the signal stream has no effect at the peer, although
  `run.rs:1230-1232` has its loop unwind on it: the reader returns `false`, which `select!`
  ignores, and the tasks end by the count, the acks and the guards. `BothEnd` shows that
  they do without it once both applications have stopped writing. Before that they do not: with an
  application that is idle and keeps its socket open, the client's end stays after
  the server's has ended, until the connection goes. `up` has no `down_done` arm before its own
  end of file, and its guard is set anew while the tunnel is caught up (`run.rs:1600-1604`).
- `symbol_size * block_size` is not checked against the four bytes of the length
  prefix (`codec.rs:95-97`), although `config.rs:4-5` speaks of validated settings. A payload
  capacity of zero makes every read return 0, which `up` takes for the end of the stream;
  below zero it underflows. The constants of Transfer keep away from both.
- `run.rs:1174-1177` says that both ends clamp the symbol size identically; each clamps it
  with its own connection's live datagram limit. They agree while the limits stay above the negotiated size, which
  is `ConnectionAssumption`.
- `control.rs:8-11` says that control messages need no length prefix; `ControlChannel`
  (`session.rs:71-113`) frames each with one, as `Frame` does.
- A byte that is no tag is skipped and the next one tried, so that bytes of a payload
  could be taken for a signal. `SignalsIntact` shows that it never happens between
  peers of one version; another version is turned away by the handshake.
- `run.rs:896-897` calls the real ceiling of the send window cwnd-derived and usually far
  larger than the floor. It never is: the smallest window is initialised to
  the floor and only ever lowered by samples above it. `CeilingNeverMoves` proves that of the
  code, for every window; it is not a property that the code is asked to have.
- `OvershootBounded` is the bound that holds; the stricter "may not exceed it" of
  `budget.rs:137-138` does not, because check and `add_sent` are separate steps.
- `WithinPeak` is the bound that holds; `budget.rs:11-13` speaks of the present
  ceiling. Top-ups reserve budget nobody gives back (`fec.rs:731`), which is why
  `DriftOnlyByBypass` names them.
- A late credit for abandoned blocks is settled against newer ones
  (`budget.rs:220-222`), hence the `abandoned` in `InFlightCounted`.
- A symbol whose stream is registered between the reader's two looks at the
  routes is thrown away (`fec.rs:421`), and pending entries made after a
  tunnel's end stay for ever (`fec.rs:434`).
- The controller compares a step with the previous tick's ratio and not with the
  published one (`strategy.rs:151`). A ratio that creeps up by less than a percent per
  tick is never published, and a congested tick whose step down is a large one
  then publishes a ratio above the live one; `DESIGN.md:388` says "绝不加码" (never
  adds). For the same reason the published ratio need not reach the minimum, and a
  negotiated ratio below the minimum stays published until the first large step.
- One lost packet of twenty already makes the smoothed loss 1.5 % and the regime
  random, although the comment says that it does not flip it (`telemetry.rs:186`).
- `window_loss` answers 0.0 for an interval without sends, where its comment says
  `None` (`telemetry.rs:59-77`); such an interval clears the watchdog's streak, and
  the losses declared in it are not counted in any interval.
- After a lost connection the client dials at once; the back-off applies only after a
  failed attempt (`run.rs:124-130`; compare `run.rs:230-233`, `telemetry.rs:213`).
- An error of `accept()` ends the whole client (`run.rs:257`): `ListenerFails`.
- Whether FEC is used is each end's own configuration and not negotiated, although
  `run.rs:772` calls it so; the model takes both ends to agree.
- A server whose `--fec-max` is below the default minimum of 2 % makes the clamp of
  the ratio panic and ends the controller's task (`strategy.rs:159`);
  `ControlAssumption` excludes it.
- That both ends use the negotiated symbol size although their datagram limits differ
  (`run.rs:1175-1176`) holds because the path MTU never goes below 1200:
  `ConnectionAssumption` says so.

## 4. What is proved

All theorems hold for every value of the constants that satisfies the module's
assumption (`TunnelAssumption`, `BudgetAssumption`, `WindowAssumption`,
`HubAssumption`, `ControlAssumption`, `ConnectionAssumption`, `PairAssumption`,
`WireAssumption`, `TransferAssumption`: the bounds are natural numbers, sizes are positive, sets are finite
where they are counted; TLC evaluates them in the runs). Those of Transfer say more, and the
code justifies each part:

- `WireAssumption`: a byte has more values than there are tags, and what either end accepts
  as a length (`MAX_FIELD`, `MAX_RELIABLE_DATA`, `MAX_CONTROL_MSG`: at most 1 MiB) has room in the
  four bytes that carry it.
- `TransferAssumption`: the parameters that are asked for are `u16`s, since they come out of a
  `FecParams`; a handshake message is within `MAX_CONTROL_MSG`, or `ControlChannel::send` would have
  refused it (`session.rs:74`); the largest block, of 256 symbols (`MAX_BLOCK_SIZE`) of 1098 bytes
  (`SAFE_MAX_SYMBOL_SIZE`), is below the 1 MiB of `MAX_RELIABLE_DATA` (`fec.rs:105`), which is what lets a
  copy of any block be decoded; a stream id and a block id are `u64`s, and the index of a symbol
  has room in 24 bits as long as a block's repair symbols do.

| Theorem | Statement | Argument |
|---|---|---|
| `FecTunnelProofs!TypeCorrect` | `Spec => []TypeOK` | inductive as it stands; the work is in `CompleteType` (a completed block's run ends inside the stream) and in `UpperBound` |
| `FecTunnelProofs!NeverForgotten` | `Spec => []NothingForgotten` | with `ForgetInv`: an ack in flight names a block the receiver holds, and what it holds it never loses; so retiring a block is harmless, and evicting one takes it out of the window |
| `FecTunnelProofs!ImplementsStream` | `Spec => StreamContract` | `StreamInv`: only emitted blocks are in flight, ready or retained, and a total, announced or known, is the number of blocks and will not change; then each step is a step of OrderedStream or leaves it alone |
| `FecTunnelProofs!RecoveryUnderWay` | `Spec /\ []NeverFull => []RecoveryInProgress` | `OnlyKnown`: marks, symbols and totals name emitted blocks only, so a block is emitted before it can be asked for; then each step that asks puts a request under way, and each that takes one puts the copy under way or the block is gone from the retention window. The premise is needed: a reader drops what finds its channel full, and `tick` never asks twice |
| `TunnelPairProofs!TypeCorrect` | `Spec => []TypeOK` | inductive; the bound on `delivered` comes from the run of held blocks that a delivery ends |
| `TunnelPairProofs!NoEarlyLeaving` | `Spec => []NoEarlyLeave` | the acks that a peer took or will take are no more than the blocks the other holds and the repeats (`AcksCovered`), and only sent blocks are held (`OnlySent`); so `acked >= sent` without repeats means as many held as sent, and a subset of the same finite size is the whole |
| `TunnelPairProofs!ImplementsStreams` | `Spec => StreamContract` | `StreamPart` of each direction: what was delivered is held and was sent, an announced total does not change any more, and a socket shut in the regular way has it all; a step of one peer is a step of OrderedStream or a stutter in each of the two |
| `RepairBudgetProofs!BudgetWithinPeak` | `Spec => []WithinPeak` | strengthened by: every ceiling loaded by a `try_reserve` under way is at most the peak |
| `RepairBudgetProofs!ReservationTracksNack` | `Spec => []ReservedWhileNacked` | strengthened by: a block that is reserving is short of symbols, so what it asks for is positive |
| `RepairBudgetProofs!TypeCorrect` | `Spec => []TypeOK` | from the next: what is released is part of the sum, and so of the counter |
| `RepairBudgetProofs!CounterCovers` | `Spec => []ReservationsCovered` | the counter and the sum move together, but for a top-up, which only raises the counter, and the exits that forget a reservation, which only lower the sum |
| `RepairBudgetProofs!DriftConfined` | `Spec => DriftOnlyByBypass` | the same steps, one by one |
| `SendWindowProofs!CeilingNeverMoves` | `Spec => []CeilingPinned`: a deviation (see above), which the next proofs build on | the smallest window stays at the floor's worth of bytes, which caps the ceiling from above and the floor from below |
| `SendWindowProofs!WaitsAreJustified` | `Spec => []HeldForBlocks` | from `AggInv` and `InFlightCounted`: where there is no room, the aggregate is not zero or a slot is at its share, so a live tunnel has blocks counted, and the count is that of blocks sent and not acknowledged up to those abandoned. No count left behind by a closed tunnel can keep the others waiting |
| `SendWindowProofs!SlotsCountUnacknowledged` | `Spec => []InFlightCounted` | strengthened by causality (`Causal`): nothing is acknowledged before it is delivered, nor delivered before it is sent |
| `SendWindowProofs!TypeCorrect` | `Spec => []TypeOK` | with `AggInv`: a slot is part of the aggregate, and credits come in the order of what they acknowledge |
| `SendWindowProofs!AggregateExact` | `Spec => []AggregateMatches` | `AggInv`: the aggregate is the sum of all slots, and a tunnel that is not live has none |
| `SendWindowProofs!OvershootLimited` | `Spec => []OvershootBounded` | `OverInv`: for *every* nonempty set of tunnels, what they hold and the blocks past the checks are together at most the floor plus the size of the set less one. All tunnels together would not be inductive: a tunnel that abandons while it holds nothing adds a block without giving one up, and then the others, without it, are one block further below the bound |
| `DatagramHubProofs!NothingStranded` | `Spec => []NoneStranded` | strengthened by: the routes are exactly the streams of the tunnels open or not yet unregistered; a symbol is buffered only while its stream is none of them, and registering empties the buffer |
| `DatagramHubProofs!TypeCorrect` | `Spec => []TypeOK` | with the routes above, and a buffer that is only filled below its capacity |
| `DatagramHubProofs!InArrivalOrder` | `Spec => []ArrivalOrder` | `OrderInv`: channel and pending buffer each rise from above what was taken up to the newest arrival that is not in the reader's hands; a stream never has symbols in both, by `NothingStranded`, so appending that newest one keeps the order wherever the reader puts it |
| `RepairControlProofs!TypeCorrect` | `Spec => []TypeOK` | inductive; a loss rate, a mean of loss rates and a step between two ratios of the policy stay in their ranges |
| `RepairControlProofs!ProvisionBounded` | `Spec => []NeverOverProvisioned` | the bound only grows with the worst loss, and a step ends between the ratio and a target below the bound |
| `RepairControlProofs!ExcessShed` | `Spec => []ShedsExcess` | a step to the minimum leaves three quarters of the excess, rounded down, and so does the allowance |
| `ConnectionProofs!TypeCorrect` | `Spec => []TypeOK` | with the invariant below: the streak reaches its bound only when the watchdog has fired |
| `ConnectionProofs!GeometryAgreement` | `Spec => []GeometryAgreed` | strengthened by `Answers` (the client's parameters, read or not, are those its handler answered), `AnswersFit` (they fit any datagram, so `EffectiveSymbol` changes nothing) and `Geometries` (each end's tunnels were made from its parameters) |
| `ConnectionProofs!TripsOnRuns` | `Spec => []TripsExactly` | `StreakCounts`: the streak is the length of the run of bad readings that the kept ones end with; `NewestMoves` says how the window of readings moves |
| `TransferProofs!HandshakeSafe` | `Spec => []HandshakeAgrees` | `Negotiation`: the handshake is asked, accepted or turned away, and in each stage the frames under way are those of that stage; `FrameWhole` reads them back |
| `TransferProofs!SignalsSafe` | `Spec => []SignalsIntact` | `Streaming`: what is in the buffer and under way is the encoding, one after the other, of the signals not decoded yet; `SignalCut` and the drain loop keep that, whatever is read at once |
| `TransferProofs!EsisSafe` | `Spec => []EsisFresh` | `Minting`: the datagrams under way are those of the indices given out that have not arrived; two indices are two datagrams, so the cardinalities add up |
| `TransferProofs!BytesSafe` | `Spec => []BytesInOrder` | `Copying` and `Receiving`: a manager has the geometry of its block and holds symbols of it, so what decodes is the padded payload; ready blocks and copies are blocks that were sent; what is written is the blocks below `next` |
| `TransferProofs!SymbolsSuffice` | `Spec => []SourceSymbolsSuffice` | `Deciding`: a block neither delivered nor given up keeps each of its symbols that arrived and has not all the source symbols; with them it would have been decoded, as `RoomFor` says that the block has room |
| `TransferProofs!TypeSafe` | `Spec => []TypeOK` | from the invariants above |
| `TransferProofs!SpecCounting` | `Spec => []Counting` | an announced total comes with the end of the client's side, no block is emitted after that, and no other signal announces one (`CountingStep`) |
| `TransferProofs!ImplementsBytes` | `Spec => ByteContract` | what is written is the payloads of the blocks below `next`, and so a beginning of what was read (`Fronts`), which only grows (`WrittenGrows`). A total that was decoded was sent, by `SignalsIntact`, and is the true one, by `Counting`; so at `Ended` the blocks below `next` are all of them, and their payloads are all that was read (`EndedMeans`). Then each step is a step of ByteStream or leaves it alone |

`TransferProofs` is in layers: each invariant (`Negotiation`, `Sending`, `Streaming`, `Minting`,
`Copying` with `Receiving`, `Deciding`, `Counting`) is inductive given those before it. `Sending` says that the
blocks' payloads, one after the other, are what was read, each with the geometry
that the negotiated parameters give it. A property such as `BytesInOrder` alone would not be
inductive: that a symbol is decoded to the right bytes depends on who minted it, with
which geometry, under which parameters, up to what the handshake settled.

Below the layers are the codecs. `FieldsCut` says of any layout, any values and any place
where the stream may be cut what `GetFields` answers; `SignalCut` and `FrameWhole` are the two uses of it,
`HeaderWhole` does the symbol header, and `Unpadded` the block. `DrainedAll` says that the
drain loop takes exactly the whole signals there are. These are facts about
definitions by recursion (`FlattenSeq`, the fields of a layout, the bytes of a number, the passes of
the loop) for sequences of any length. The library's induction theorems take an operator as a
parameter, which cannot be used here; the proofs use instead that a set of numbers that is
not empty has a least element (`LeastElement`, from `WFMin`, whose parameters are sets), applied to the
numbers at which the recursion would first go wrong (`SetInduction`). The functions are recursive
functions on an interval, and `Iterates` and `IterationSteps` show that they satisfy their
equations. Proved from nothing, `TransferProofs` takes some ten minutes.

Sums over tunnels or blocks are written `Total` (`Tally`): the number of units of a
function, which is the cardinality of a set. The lemmas at the head of `SendWindowProofs` and
`RepairBudgetProofs` show from the library's facts about finite sets how a total moves with one
value, so that no induction over the set of tunnels or blocks is needed.

What is only model-checked: the liveness properties (`EveryBlockDelivered`, `GateOpensIfIntact`,
`HalfOpenEnds`, `Reconnects`, `WedgeBounded`, `HalfClosePassedOn`, `BothEnd`), which are out of the
prover's reach. Every invariant, action property and refinement that a passing run checks is
proved, `RecoveryInProgress` while no channel is full. What `FinishedMeansDecoded` asked of one direction is proved as
`NoEarlyLeave`, for every number of blocks. RaptorQ is not proved about: `RaptorQ` is what
BlockCodec takes from it, and `BytesSafe` holds of any decoder that keeps to that.

## 5. What is not modelled

- *TLS, endpoint and configuration* (`tls.rs`, `endpoint.rs`, `config.rs`): calls of
  rustls and quinn, and arithmetic on options. One hazard lives here: the identity is two
  files written one after the other, and a crash between the two leaves a directory that the next
  start refuses until it is cleared by hand (`write_identity_file`, `load_or_generate`).
  It is one step and one check, and no property would say more than that.
- *The server's monitor and its UI*: counters for display, read by nothing else.
- *Command lines and the stress tools*: parsing, service files, printing.
- *Tunnels over plain streams* (`tunnel_bi`, FEC off): `copy_bidirectional` of a
  library over a reliable stream. Both ends are taken to be configured for FEC.

RaptorQ is external. FecTunnel takes from it that fewer than k symbols never decode
and k + `DecodeSlack` always do; BlockCodec that the k source symbols always decode, that
any other k may or may not, and that symbols that do not belong together give a
wrong block. The other abstractions:

- The modules are composed by what they leave to each other, not by one
  specification: in FecTunnel and SendWindow the repair ratio and the congestion window are
  free choices of the environment, which includes what RepairControl does with
  them; TunnelPair's blocks are asked for and served as FecTunnel does it in detail;
  a tunnel of Connection is only its life and geometry.
- In Connection a protocol version that differs, or a malformed control message, ends a
  connection as a wrong key does. The jitter of the back-off and the limit on
  concurrent streams are left out.
- In FecTunnel a TCP error or a reset of the signal stream simply stops the tunnel;
  TunnelPair has both. A TCP read is one block there: the read buffer has the
  size of a block's payload. Transfer cuts the bytes as the reads do.

## 6. Plan

What is left, the most valuable first:

1. Composition of **FecTunnel** with the gate of **SendWindow**, so that the
   fairness of `ServeNack` is no longer an assumption.
2. Composition of **Connection** with the abstract **OrderedStream** of each
   tunnel, to state what an application sees when its connection is lost.
3. **TunnelPair** as an abstraction of two **FecTunnel**s, by a refinement mapping that
   takes the symbols, NACKs and copies of a block to its `Fates`.

With 3 come its proofs: a step of either FecTunnel is a step of TunnelPair or leaves it
alone.
