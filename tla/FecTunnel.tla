------------------------------ MODULE FecTunnel ------------------------------
(***************************************************************************)
(* One direction of one FEC tunnel (crates/raptun-core): the upstream task *)
(* of run_fec_tunnel with its FecSender on one peer, the downstream task   *)
(* with its FecReceiver on the other, lossy and reordering QUIC datagrams  *)
(* for the symbols and the reliable per-tunnel signal stream.              *)
(*                                                                         *)
(* Symbols.  Every symbol of a block carries a fresh ESI (the source       *)
(* symbols, then an ever growing repair index) and QUIC never delivers a   *)
(* datagram twice, so a block's symbols are counted.  Loss is decided when *)
(* a symbol is emitted: only the symbols that may still arrive are in net. *)
(*                                                                         *)
(* Signals.  Each kind of signal ends in a channel of its own and the      *)
(* tasks select! over the channels, so the order between kinds is not kept *)
(* by the code.  Signals about different blocks commute at their consumer, *)
(* so a channel is the number of signals in flight for each block.         *)
(*                                                                         *)
(* Time.  A timer may run out whenever it is armed.  QuietPeriods says     *)
(* whether anything ever takes longer than TUNNEL_MAX_STALL (120 s).       *)
(***************************************************************************)
EXTENDS Integers, FiniteSets, Functions

CONSTANTS
  MaxBlocks,      \* bound: blocks the application writes
  K,              \* negotiated source symbols per block
  MinRepair,      \* repair symbols sent with a block at the least: 0 when
                  \* the live ratio is 0, 1 otherwise (live_repair_count)
  MaxRepair,      \* bound: repair symbols sent with a block
  DecodeSlack,    \* symbols beyond k after which RaptorQ surely decodes
  RetainBlocks,   \* SENDER_RETAIN_BYTES in blocks
  TopupCap,       \* PROACTIVE_TOPUP_CAP
  RelReqQueue,    \* REL_REQ_QUEUE
  RelDataQueue,   \* REL_DATA_QUEUE
  MaxSymbols,     \* bound: symbols of one block in flight or asked for
  MaxSignals,     \* bound: signals of one kind in flight for one block
  StrayBlocks,    \* ids the opposite direction may unmark by mistake
  QuietPeriods    \* a phase may outlast TUNNEL_MAX_STALL

Block == 0 .. MaxBlocks - 1
None == -1

ASSUME TunnelAssumption ==
  /\ MaxBlocks \in Nat \ {0} /\ K \in Nat \ {0}
  /\ MinRepair \in Nat /\ MaxRepair \in Nat
  /\ DecodeSlack \in Nat /\ RetainBlocks \in Nat \ {0} /\ TopupCap \in Nat
  /\ RelReqQueue \in Nat \ {0} /\ RelDataQueue \in Nat \ {0}
  /\ MaxSymbols \in Nat \ {0} /\ MaxSignals \in Nat \ {0}
  /\ StrayBlocks \subseteq Block
  /\ QuietPeriods \in BOOLEAN

VARIABLES
  \* upstream task and FecSender
  phase,          \* "reading", "postEof" or "done"
  eof,            \* the local application closed its side
  nextBlock,      \* next_block = total_blocks
  blockK,         \* actual_k of each emitted block
  retained,       \* blocks whose encoder and payload are kept
  topups,         \* proactive_counts
  acked,          \* acked_blocks
  \* in flight
  net,            \* symbols of each block that may still arrive
  hwWire,         \* HighWater marks not yet read, oldest first
  countWire,      \* BlockCount not yet read
  nacks,          \* repair symbols asked for by NACKs not yet served
  relReqs,        \* ReliableRequests not yet served
  relData,        \* ReliableData not yet consumed
  acks,           \* BlockAcks not yet consumed
  \* downstream task and FecReceiver
  mgr,            \* per-block state machines
  ready,          \* decoded, not yet delivered
  nextDeliver,    \* next_deliver
  highestSeen,    \* highest_seen
  highWater,      \* high_water
  total,          \* total_blocks = expected
  relRequested,   \* reliable_requested
  downPhase       \* "open", or after tcp_write.shutdown() "shut", and "stalled"
                  \* when the stall guard led there

upVars   == <<phase, eof, nextBlock, blockK, retained, topups, acked>>
wireVars == <<net, hwWire, countWire, nacks, relReqs, relData, acks>>
downVars == <<mgr, ready, nextDeliver, highestSeen, highWater, total,
              relRequested, downPhase>>
vars == <<upVars, wireVars, downVars>>

Manager == [st : {"none", "filling", "nackSent", "degraded"}, recv : Nat]
NoManager == [st |-> "none", recv |-> 0]
Managed == {b \in Block : mgr[b].st # "none"}

TypeOK ==
  /\ phase \in {"reading", "postEof", "done"}
  /\ eof \in BOOLEAN
  /\ nextBlock \in 0 .. MaxBlocks
  /\ blockK \in [Block -> 0 .. K]
  /\ retained \subseteq Block
  /\ topups \in [Block -> 0 .. TopupCap]
  /\ acked \in 0 .. MaxBlocks
  /\ net \in [Block -> 0 .. MaxSymbols]
  /\ hwWire \subseteq 1 .. MaxBlocks
  /\ countWire \in 0 .. MaxBlocks \cup {None}
  /\ nacks \in [Block -> 0 .. MaxSymbols]
  /\ relReqs \in [Block -> 0 .. MaxSignals]
  /\ relData \in [Block -> 0 .. MaxSignals]
  /\ acks \in [Block -> 0 .. MaxSignals]
  /\ mgr \in [Block -> Manager]
  /\ ready \subseteq Block
  /\ nextDeliver \in 0 .. MaxBlocks
  /\ highestSeen \in Block
  /\ highWater \in 0 .. MaxBlocks
  /\ total \in 0 .. MaxBlocks \cup {None}
  /\ relRequested \subseteq Block
  /\ downPhase \in {"open", "shut", "stalled"}

Init ==
  /\ phase = "reading" /\ eof = FALSE
  /\ nextBlock = 0 /\ blockK = [b \in Block |-> 0]
  /\ retained = {} /\ topups = [b \in Block |-> 0] /\ acked = 0
  /\ net = [b \in Block |-> 0]
  /\ hwWire = {} /\ countWire = None
  /\ nacks = [b \in Block |-> 0]
  /\ relReqs = [b \in Block |-> 0] /\ relData = [b \in Block |-> 0]
  /\ acks = [b \in Block |-> 0]
  /\ mgr = [b \in Block |-> NoManager] /\ ready = {}
  /\ nextDeliver = 0 /\ highestSeen = 0 /\ highWater = 0
  /\ total = None /\ relRequested = {} /\ downPhase = "open"

Capped(n, bound) == IF n > bound THEN bound ELSE n
Larger(m, n) == IF m > n THEN m ELSE n

-----------------------------------------------------------------------------
(* The upstream task.                                                      *)

\* s of the symbols just emitted for block b survive the network.
Transmit(b, s) == net' = [net EXCEPT ![b] = Capped(@ + s, MaxSymbols)]

\* First block the retention window keeps once n blocks have been encoded.
CutoffLate(n) == IF n <= RetainBlocks THEN 0 ELSE n - RetainBlocks + 1 \* slip: off by one
Cutoff(n) == IF n <= RetainBlocks THEN 0 ELSE n - RetainBlocks

\* One TCP read becomes one block: encode it, evict what fell out of the
\* retention window, send its symbols, announce the new high-water mark.
\* (The read buffer holds exactly one block's payload.)
EmitBlock ==
  /\ phase = "reading"
  /\ nextBlock < MaxBlocks
  /\ \E k \in 1 .. K, repair \in MinRepair .. MaxRepair :
       /\ blockK' = [blockK EXCEPT ![nextBlock] = k]
       /\ \E s \in 0 .. k + repair : Transmit(nextBlock, s)
  /\ nextBlock' = nextBlock + 1
  /\ retained' = (retained \cup {nextBlock}) \ (0 .. Cutoff(nextBlock + 1) - 1)
  /\ topups' = [b \in Block |-> IF b \in retained' THEN topups[b] ELSE 0]
  /\ hwWire' = hwWire \cup {nextBlock + 1}
  /\ UNCHANGED <<phase, eof, acked, countWire, nacks, relReqs, relData,
                 acks, downVars>>

\* Leaving the read loop, at end of file or on the stall bound, announces
\* the block count.
LeaveReadLoop ==
  /\ phase' = "postEof"
  /\ countWire' = nextBlock
  /\ UNCHANGED <<nextBlock, blockK, retained, topups, acked,
                 net, hwWire, nacks, relReqs, relData, acks, downVars>>

ReadEof ==
  /\ phase = "reading"
  /\ eof' = TRUE
  /\ LeaveReadLoop

\* Nothing newly delivered for TUNNEL_MAX_STALL while blocks are outstanding
\* by the last credit seen, which may be any count delivered so far.
UpStallAbort ==
  /\ QuietPeriods
  /\ phase = "reading"
  /\ \E delivered \in 0 .. nextDeliver : delivered < nextBlock
  /\ LeaveReadLoop
  /\ UNCHANGED eof

\* A NACK mints fresh repair; for a block no longer retained it mints none.
ServeNack(b) ==
  /\ phase # "done"
  /\ nacks[b] > 0
  /\ nacks' = [nacks EXCEPT ![b] = 0]
  /\ IF b \in retained
     THEN \E s \in 0 .. nacks[b] : Transmit(b, s)
     ELSE UNCHANGED net
  /\ UNCHANGED <<upVars, hwWire, countWire, relReqs, relData, acks, downVars>>

\* Proactive top-ups for unacknowledged blocks, as the repair budget (shared
\* with other tunnels) and the regime allow.
Desired(b) == Larger(blockK[b] \div 4, 1)
ProactiveTopup ==
  /\ phase # "done"
  /\ \E chosen \in SUBSET {b \in retained : topups[b] < TopupCap} :
       /\ chosen # {}
       /\ \E survive \in [chosen -> 0 .. Larger(K \div 4, 1)] :
            /\ \A b \in chosen : survive[b] <= Desired(b)
            /\ net' = [b \in Block |-> IF b \in chosen
                                       THEN Capped(net[b] + survive[b], MaxSymbols)
                                       ELSE net[b]]
       /\ topups' = [b \in Block |-> IF b \in chosen THEN topups[b] + 1
                                     ELSE topups[b]]
  /\ UNCHANGED <<phase, eof, nextBlock, blockK, retained, acked, hwWire,
                 countWire, nacks, relReqs, relData, acks, downVars>>

\* As many signals are in flight as the channel they end in holds: the reader
\* may find it full, and then drops.
Full(wire, capacity) == SumFunction(wire) >= capacity

\* reliable_payload: the payload is still there to answer a request with.
AnswerableInside(b) == b \in retained /\ b + RetainBlocks > nextBlock \* slip: off by one
Answerable(b) == b \in retained

\* A reliable request is answered with the payload when it is still retained
\* and dropped otherwise.  The reader on the other side drops the answer when
\* its bounded channel is full.
ServeReliable(b) ==
  /\ phase # "done"
  /\ relReqs[b] > 0
  /\ relReqs' = [relReqs EXCEPT ![b] = @ - 1]
  /\ IF Answerable(b)
     THEN \/ relData' = [relData EXCEPT ![b] = Capped(@ + 1, MaxSignals)]
          \/ Full(relData, RelDataQueue) /\ UNCHANGED relData
     ELSE UNCHANGED relData
  /\ UNCHANGED <<upVars, net, hwWire, countWire, nacks, acks, downVars>>

\* retire_block counts every acknowledgement.
TakeAck(b) ==
  /\ phase # "done"
  /\ acks[b] > 0
  /\ acks' = [acks EXCEPT ![b] = @ - 1]
  /\ retained' = retained \ {b}
  /\ topups' = [topups EXCEPT ![b] = 0]
  /\ acked' = Capped(acked + 1, MaxBlocks)
  /\ UNCHANGED <<phase, eof, nextBlock, blockK, net, hwWire, countWire, nacks,
                 relReqs, relData, downVars>>

\* The post-EOF loop ends when as many acks as blocks were counted, or on the
\* stall bound.  The FecSender goes with it, and signals still addressed to
\* it are read and thrown away.
AllAcked == acked >= nextBlock
UpFinish ==
  /\ phase = "postEof"
  /\ AllAcked \/ QuietPeriods
  /\ phase' = "done"
  /\ nacks' = [b \in Block |-> 0]
  /\ relReqs' = [b \in Block |-> 0]
  /\ acks' = [b \in Block |-> 0]
  /\ UNCHANGED <<eof, nextBlock, blockK, retained, topups, acked, net, hwWire,
                 countWire, relData, downVars>>

-----------------------------------------------------------------------------
(* The downstream task.                                                    *)

\* Queue one more signal for each block of bs; nobody reads it once the
\* upstream task is gone.
Signal(wire, bs) ==
  IF phase = "done" THEN wire
  ELSE [b \in Block |-> IF b \in bs THEN Capped(wire[b] + 1, MaxSignals)
                        ELSE wire[b]]

\* The loop ends, and the socket is shut down, once the announced count is
\* known and delivered.
AtEndOnCount(count, floor) == count # None \* slip: the total alone ends it
AtEnd(count, floor) == count # None /\ floor >= count

\* Block b is complete: queue it and its ack, then drain every contiguous
\* ready block (drain_ready).
RunEndsPast(held, floor) == \* slip: counts the block that is missing
  /\ floor > nextDeliver
  /\ \A d \in nextDeliver .. floor - 2 : d \in held
  /\ floor - 1 \notin held
RunEnds(held, floor) ==
  /\ \A d \in nextDeliver .. floor - 1 : d \in held
  /\ floor \notin held
Acknowledge(b) == acks' = Signal(acks, {b})
Complete(b) ==
  LET held == ready \cup {b} IN
  /\ \E floor \in nextDeliver .. MaxBlocks + 1 :
       /\ RunEnds(held, floor)
       /\ nextDeliver' = floor
       /\ ready' = held \ (nextDeliver .. floor - 1)
       /\ downPhase' = IF AtEnd(total, floor) THEN "shut" ELSE "open"
  /\ Acknowledge(b)

\* A symbol arrives.  A delivered block ignores it, a degraded one does too.
SymbolLate(b) ==
  /\ b < nextDeliver
  /\ UNCHANGED <<acks, downVars>>

SymbolCounts(b) ==
  LET recv == mgr[b].recv + 1 IN
  /\ b >= nextDeliver
  /\ highestSeen' = Larger(highestSeen, b)
  /\ \/ /\ mgr[b].st = "degraded"
        /\ UNCHANGED <<mgr, ready, nextDeliver, acks, downPhase>>
     \/ /\ mgr[b].st # "degraded"
        /\ recv >= blockK[b]
        /\ mgr' = [mgr EXCEPT ![b] = NoManager]
        /\ Complete(b)
     \/ /\ mgr[b].st # "degraded"
        /\ recv < blockK[b] + DecodeSlack
        /\ mgr' = [mgr EXCEPT ![b] = [st |-> "filling", recv |-> recv]]
        /\ UNCHANGED <<ready, nextDeliver, acks, downPhase>>
  /\ UNCHANGED <<highWater, total, relRequested>>

SymbolArrives(b) ==
  /\ downPhase = "open"
  /\ net[b] > 0
  /\ net' = [net EXCEPT ![b] = @ - 1]
  /\ SymbolLate(b) \/ SymbolCounts(b)
  /\ UNCHANGED <<upVars, hwWire, countWire, nacks, relReqs, relData>>

CountArrives ==
  /\ downPhase = "open"
  /\ countWire # None
  /\ total' = countWire
  /\ countWire' = None
  /\ downPhase' = IF AtEnd(countWire, nextDeliver) THEN "shut" ELSE "open"
  /\ UNCHANGED <<upVars, net, hwWire, nacks, relReqs, relData, acks, mgr, ready,
                 nextDeliver, highestSeen, highWater, relRequested>>

\* The marks arrive in the order they were sent, which is increasing.
HighWaterArrives ==
  /\ downPhase = "open"
  /\ \E mark \in hwWire :
       /\ \A m \in hwWire : mark <= m
       /\ highWater' = Larger(highWater, mark)
       /\ hwWire' = hwWire \ {mark}
  /\ UNCHANGED <<upVars, net, countWire, nacks, relReqs, relData, acks, mgr,
                 ready, nextDeliver, highestSeen, total, relRequested,
                 downPhase>>

\* on_reliable_block: the block is taken verbatim unless already delivered.
ReliableDataArrives(b) ==
  /\ downPhase = "open"
  /\ relData[b] > 0
  /\ relData' = [relData EXCEPT ![b] = @ - 1]
  /\ \/ /\ b < nextDeliver
        /\ UNCHANGED <<acks, mgr, ready, nextDeliver, relRequested, downPhase>>
     \/ /\ b >= nextDeliver
        /\ mgr' = [mgr EXCEPT ![b] = NoManager]
        /\ relRequested' = relRequested \ {b}
        /\ Complete(b)
  /\ UNCHANGED <<upVars, net, hwWire, countWire, nacks, relReqs, highestSeen,
                 highWater, total>>

\* The blocks known to exist: by the highest symbol seen, by the running
\* high-water mark, by the announced total.
BySeen == IF Managed = {} /\ highestSeen = 0 THEN 0 ELSE highestSeen + 1
ByTotal == IF total = None THEN 0 ELSE total
UpperBoundSeen == Larger(BySeen, ByTotal) \* slip: the high-water mark is not used
UpperBound == Larger(Larger(BySeen, highWater), ByTotal)

Lost == {b \in nextDeliver .. UpperBound - 1 :
           mgr[b].st = "none" /\ b \notin ready /\ b \notin relRequested}

\* A manager still short of symbols is stalled once its timer has run out:
\* the hard deadline (or the grace period) when filling, one RTT after a NACK.
Short(b) == /\ mgr[b].st \in {"filling", "nackSent"}
            /\ mgr[b].recv < blockK[b]

\* The control tick.  expired are short blocks whose timer has run out,
\* granted those for which the repair budget has room.  A stalled block gets a
\* NACK, or is degraded and requested reliably, once; a block without any
\* symbol is requested reliably at once.
TickWith(expired, granted, congested) ==
  LET nacked   == IF congested THEN {} ELSE granted
      degraded == expired \ nacked
      request  == (degraded \ relRequested) \cup Lost
  IN
  /\ downPhase = "open"
  /\ mgr' = [b \in Block |->
               IF b \in nacked THEN [mgr[b] EXCEPT !.st = "nackSent"]
               ELSE IF b \in degraded THEN [mgr[b] EXCEPT !.st = "degraded"]
               ELSE mgr[b]]
  /\ nacks' = IF phase = "done" THEN nacks
              ELSE [b \in Block |->
                      IF b \in nacked
                      THEN Capped(nacks[b] + blockK[b] - mgr[b].recv, MaxSymbols)
                      ELSE nacks[b]]
  /\ relRequested' = relRequested \cup request
  /\ \/ relReqs' = Signal(relReqs, request)
     \/ \E kept \in SUBSET request :
          /\ kept # request
          /\ relReqs' = Signal(relReqs, kept)
          /\ Full(relReqs', RelReqQueue)
  /\ UNCHANGED <<upVars, net, hwWire, countWire, relData, acks, ready,
                 nextDeliver, highestSeen, highWater, total, downPhase>>

Tick ==
  \E expired \in SUBSET {b \in Block : Short(b)}, congested \in BOOLEAN :
    \E granted \in SUBSET expired : TickWith(expired, granted, congested)

\* unmark_reliable_requested.  The ids come from this peer's own reader and
\* upstream task, which got them in requests for the blocks of the opposite
\* direction.
StrayUnmark(b) ==
  /\ downPhase = "open"
  /\ relRequested' = relRequested \ {b}
  /\ UNCHANGED <<upVars, wireVars, mgr, ready, nextDeliver, highestSeen,
                 highWater, total, downPhase>>

\* The downstream stall guard: no delivery for TUNNEL_MAX_STALL while the
\* total is unknown ends the loop, and shuts the socket down all the same.
DownStall ==
  /\ QuietPeriods
  /\ downPhase = "open"
  /\ total = None
  /\ downPhase' = "stalled"
  /\ UNCHANGED <<upVars, wireVars, mgr, ready, nextDeliver, highestSeen,
                 highWater, total, relRequested>>

-----------------------------------------------------------------------------
Up ==
  \/ EmitBlock \/ ReadEof \/ UpStallAbort \/ ProactiveTopup \/ UpFinish
  \/ \E b \in Block : ServeNack(b) \/ ServeReliable(b) \/ TakeAck(b)

Down ==
  \/ CountArrives \/ HighWaterArrives \/ Tick \/ DownStall
  \/ \E b \in Block : SymbolArrives(b) \/ ReliableDataArrives(b)
  \/ \E b \in StrayBlocks : StrayUnmark(b)

Next == Up \/ Down

Spec == Init /\ [][Next]_vars

\* What the runtime gives.  Channels are drained, datagrams that survive do
\* arrive, timers run out while their block stays short.
ExpiredTick(b) ==
  \E expired \in SUBSET {d \in Block : Short(d)}, congested \in BOOLEAN :
    /\ b \in expired
    /\ \E granted \in SUBSET expired : TickWith(expired, granted, congested)

BlockFairness(b) ==
  /\ WF_vars(ServeNack(b)) /\ WF_vars(ServeReliable(b)) /\ WF_vars(TakeAck(b))
  /\ WF_vars(SymbolArrives(b)) /\ WF_vars(ReliableDataArrives(b))
  /\ WF_vars(ExpiredTick(b))

RuntimeFairness ==
  /\ WF_vars(CountArrives) /\ WF_vars(HighWaterArrives)
  /\ WF_vars(Tick) /\ WF_vars(UpFinish) /\ WF_vars(DownStall)
  /\ \A b \in Block : BlockFairness(b)

\* The network is lossy, not dead: a block's repair bursts are not all lost
\* for ever.
RepairGetsThrough(b) == ServeNack(b) /\ net'[b] > net[b]
NetworkFairness == \A b \in Block : SF_vars(RepairGetsThrough(b))

FairSpec == Spec /\ RuntimeFairness /\ NetworkFairness

-----------------------------------------------------------------------------
Emitted == 0 .. nextBlock - 1
Held(b) == b < nextDeliver \/ b \in ready
Outstanding(b) == relReqs[b] > 0 \/ relData[b] > 0

\* The upstream task left the read loop on the stall bound, and announced a
\* count that is not the end of the stream.
Truncated == phase # "reading" /\ ~eof

\* FecTunnel implements the stream contract: whatever is lost, reordered,
\* retried, recovered reliably or given up, the far socket gets the blocks in
\* order, and unless a stall guard ended the tunnel it is shut down only at the
\* true end of the stream (run_fec_tunnel's exit conditions,
\* FecReceiver::drain_ready).
Stream == INSTANCE OrderedStream
            WITH written <- nextBlock, delivered <- nextDeliver,
                 closed <- (downPhase = "shut" /\ ~Truncated)
StreamContract == Stream!StreamSpec

\* A block inside the retention window that the receiver does not hold can
\* still be repaired: no BlockAck, eviction or reordering of the two makes the
\* sender forget it (FecSender::retire_block, evict_old_blocks).
NothingForgotten ==
  \A b \in Emitted :
    b + RetainBlocks >= nextBlock => b \in retained \/ Held(b)

\* A block the receiver has given up on, or has asked for, and does not hold
\* has its answer on the way: FecReceiver::tick never asks twice, and never
\* arbitrates a degraded block again.
RecoveryInProgress ==
  \A b \in Emitted :
    /\ phase = "reading" /\ b \in retained /\ ~Held(b)
    /\ b \in relRequested \/ mgr[b].st = "degraded"
    => Outstanding(b)

\* While the upstream task keeps serving, every block it emitted is delivered.
EveryBlockDelivered ==
  \A b \in Block :
    b \in Emitted ~> (b < nextDeliver \/ phase # "reading")

\* "every block this sender has ever produced has been decoded" when the
\* acknowledgement count lets the upstream task go.
FinishedMeansDecoded ==
  phase = "done" => \A b \in Emitted : Held(b)

\* A tunnel that has caught up to everything sent is not torn down for being
\* idle.
CaughtUpTunnelLives ==
  [][phase = "reading" /\ nextDeliver = nextBlock => downPhase' = downPhase]_vars
=============================================================================
