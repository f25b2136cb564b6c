------------------------------ MODULE TunnelPair ------------------------------
(***************************************************************************)
(* A whole FEC tunnel: run_fec_tunnel on both peers at once, each with its *)
(* upstream, downstream, writer and reader task, and how the two ends wind *)
(* down (down_done, the acknowledgement count, the stall guards, the join, *)
(* the reset of the signal stream, the loss of the connection).            *)
(*                                                                         *)
(* Of a direction only what its ends exchange is kept: a block is on its   *)
(* way, asked for or held.  FecTunnel has the symbols and the repair       *)
(* of one direction, SendWindow the gate, Connection what happens before   *)
(* and after a tunnel.                                                     *)
(*                                                                         *)
(* The reader sorts signals into one channel per kind, so that their order *)
(* on the stream means nothing to the tasks: signals are counted or kept   *)
(* as the state of their block.  A clean finish of the stream is the last  *)
(* thing on it and changes nothing (the reader's false): it is left out.   *)
(*                                                                         *)
(* Time.  The guards' 120 s may run out whenever they are armed.           *)
(***************************************************************************)
EXTENDS Naturals, FiniteSets

CONSTANTS
  Blocks,       \* bound: blocks that each peer's application writes
  MaxRepeats    \* bound: blocks of one direction that are acknowledged twice

Peer == {"client", "server"}
Other(p) == IF p = "client" THEN "server" ELSE "client"
Block(p) == 0 .. Blocks[p] - 1

ASSUME PairAssumption == Blocks \in [Peer -> Nat] /\ MaxRepeats \in Nat

VARIABLES
  run,       \* run_fec_tunnel of each peer
  up,        \* its upstream task
  down,      \* its downstream task
  writer,    \* its signal writer still runs
  eof,       \* the local application has closed its side
  sent,      \* total_blocks
  block,     \* what became of each block the peer sent
  delivered, \* highest_delivered of each peer's blocks, on the other side
  count,     \* the peer's BlockCount: unannounced, on its way, or known
  acks,      \* BlockAcks on their way to the peer's upstream task
  acked,     \* acked_blocks
  repeats    \* history: blocks of this peer acknowledged a second time

taskVars == <<run, up, down, writer>>
dataVars == <<eof, sent, block, delivered, count, acks, acked, repeats>>
vars     == <<taskVars, dataVars>>

\* "starting": the server has accepted the stream and dials the target;
\* "refused": it could not, and reset the stream; "abandoned": torn down by a
\* reset or a lost connection; "over": the join has completed.
Runs == {"starting", "running", "refused", "abandoned", "over"}

\* "doneSeen" is the post-EOF loop once down_done was seen.  The others say how the
\* task ended: "acked" is the exit on the acknowledgement count, "shut" the
\* one at the end of the stream, "stalled" a stall guard's, "failed" an error of
\* the local socket, "dropped" the end of the whole run.
UpPlaces   == {"reading", "postEof", "doneSeen", "acked", "stalled", "failed", "dropped"}
DownPlaces == {"open", "shut", "stalled", "failed", "dropped"}

\* "flying": a burst, its repair or a copy is on its way, or was lost; "asked": a
\* NACK or a reliable request is on its way back; "held": decoded.
Fates == {"unsent", "flying", "asked", "held"}

TypeOK ==
  /\ run \in [Peer -> Runs]
  /\ up \in [Peer -> UpPlaces] /\ down \in [Peer -> DownPlaces]
  /\ writer \in [Peer -> BOOLEAN]
  /\ eof \in [Peer -> BOOLEAN]
  /\ sent \in [Peer -> Nat] /\ \A p \in Peer : sent[p] <= Blocks[p]
  /\ DOMAIN block = Peer /\ \A p \in Peer : block[p] \in [Block(p) -> Fates]
  /\ delivered \in [Peer -> Nat] /\ \A p \in Peer : delivered[p] <= Blocks[p]
  /\ count \in [Peer -> {"none", "wire", "known"}]
  /\ acks \in [Peer -> Nat] /\ acked \in [Peer -> Nat]
  /\ repeats \in [Peer -> 0 .. MaxRepeats]

Init ==
  /\ run = [p \in Peer |-> IF p = "server" THEN "starting" ELSE "running"]
  /\ up = [p \in Peer |-> "reading"] /\ down = [p \in Peer |-> "open"]
  /\ writer = [p \in Peer |-> TRUE]
  /\ eof = [p \in Peer |-> FALSE]
  /\ sent = [p \in Peer |-> 0] /\ delivered = [p \in Peer |-> 0]
  /\ block = [p \in Peer |-> [b \in Block(p) |-> "unsent"]]
  /\ count = [p \in Peer |-> "none"]
  /\ acks = [p \in Peer |-> 0] /\ acked = [p \in Peer |-> 0]
  /\ repeats = [p \in Peer |-> 0]

Running(p)  == run[p] = "running"
Reading(p)  == Running(p) /\ up[p] = "reading"
Draining(p) == Running(p) /\ up[p] \in {"postEof", "doneSeen"}
ServingBeforeEof(p) == Reading(p) \* slip: the post-EOF loop serves nothing
Serving(p) == Reading(p) \/ Draining(p)
Receiving(p) == Running(p) /\ down[p] = "open"

UpEnded(p)   == up[p] \notin {"reading", "postEof", "doneSeen"}
DownEnded(p) == down[p] # "open"

\* A signal reaches the other peer while that has not torn its tunnel down; a
\* server that still dials finds it in the stream later.
Reaches(q) == run[q] \in {"starting", "running"}

Fate(p, b, f) == block' = [block EXCEPT ![p][b] = f]

-----------------------------------------------------------------------------
(* Before and after the run.                                               *)

\* handle_server_conn: the target is reached, or the stream is reset.
ConnectTarget ==
  /\ run["server"] = "starting"
  /\ run' = [run EXCEPT !["server"] = "running"]
  /\ UNCHANGED <<up, down, writer, dataVars>>

RefuseTarget ==
  /\ run["server"] = "starting"
  /\ run' = [run EXCEPT !["server"] = "refused"]
  /\ up' = [up EXCEPT !["server"] = "dropped"]
  /\ down' = [down EXCEPT !["server"] = "dropped"]
  /\ writer' = [writer EXCEPT !["server"] = FALSE]
  /\ UNCHANGED dataVars

\* The reader's true wins the select!: up, down and writer are dropped, with the
\* sender's state and the acks not yet taken.
Abandon(p) ==
  /\ Running(p)
  /\ run' = [run EXCEPT ![p] = "abandoned"]
  /\ up' = [up EXCEPT ![p] = IF UpEnded(p) THEN @ ELSE "dropped"]
  /\ down' = [down EXCEPT ![p] = IF DownEnded(p) THEN @ ELSE "dropped"]
  /\ writer' = [writer EXCEPT ![p] = FALSE]
  /\ acks' = [acks EXCEPT ![p] = 0] /\ acked' = [acked EXCEPT ![p] = 0]
  /\ UNCHANGED <<eof, sent, block, delivered, count, repeats>>

HearResetAsFinish(p) == FALSE \* slip: a reset is taken for a clean finish
HearReset(p) == run[Other(p)] = "refused" /\ Abandon(p)

\* A connection's ends are lost one at a time; the other end finds out.
LoseConnection(p) == Abandon(p)
HearLoss(p) == run[Other(p)] = "abandoned" /\ Abandon(p)

\* The writer ends when both tasks have dropped their handles on its queue (the
\* third was dropped at the start), or when the other side no longer reads.
AllHandlesKept(p) == FALSE \* slip: the extra sig_tx is not dropped
AllHandlesDropped(p) == UpEnded(p) /\ DownEnded(p)
WriterEnds(p) ==
  /\ Running(p) /\ writer[p]
  /\ AllHandlesDropped(p) \/ run[Other(p)] = "over"
  /\ writer' = [writer EXCEPT ![p] = FALSE]
  /\ UNCHANGED <<run, up, down, dataVars>>

\* join!(up, down, writer)
Join(p) ==
  /\ Running(p)
  /\ UpEnded(p) /\ DownEnded(p) /\ ~writer[p]
  /\ run' = [run EXCEPT ![p] = "over"]
  /\ UNCHANGED <<up, down, writer, dataVars>>

-----------------------------------------------------------------------------
(* The upstream task.                                                      *)

EmitBlock(p) ==
  /\ Reading(p)
  /\ sent[p] < Blocks[p]
  /\ sent' = [sent EXCEPT ![p] = @ + 1]
  /\ Fate(p, sent[p], "flying")
  /\ UNCHANGED <<taskVars, eof, delivered, count, acks, acked, repeats>>

\* The read loop ends and the count is announced.
LeaveReadLoop(p) ==
  /\ up' = [up EXCEPT ![p] = "postEof"]
  /\ count' = [count EXCEPT ![p] = IF Reaches(Other(p)) THEN "wire" ELSE @]
  /\ UNCHANGED <<run, down, writer, sent, block, delivered, acks, acked, repeats>>

ReadEof(p) ==
  /\ Reading(p)
  /\ eof' = [eof EXCEPT ![p] = TRUE]
  /\ LeaveReadLoop(p)

\* Blocks are outstanding, by the last credit seen, and none was delivered
\* for TUNNEL_MAX_STALL.
UpStallAbort(p) ==
  /\ Reading(p)
  /\ sent[p] > 0
  /\ LeaveReadLoop(p)
  /\ UNCHANGED eof

\* A NACK is answered with fresh repair, a reliable request with a copy, which
\* may be lost or dropped like a burst.
Serve(p, b) ==
  /\ Serving(p)
  /\ block[p][b] = "asked"
  /\ Fate(p, b, "flying")
  /\ UNCHANGED <<taskVars, eof, sent, delivered, count, acks, acked, repeats>>

PendingAlways(p) == TRUE \* slip: the channel is taken not to be empty
Pending(p) == acks[p] > 0
TakeAck(p) ==
  /\ Serving(p)
  /\ Pending(p)
  /\ acks' = [acks EXCEPT ![p] = @ - 1]
  /\ acked' = [acked EXCEPT ![p] = @ + 1]
  /\ UNCHANGED <<taskVars, eof, sent, block, delivered, count, repeats>>

AllAcked(p) == acked[p] >= sent[p]

\* The task ends, and with it the FecSender and the acks not yet taken.
UpEnds(p, how) ==
  /\ up' = [up EXCEPT ![p] = how]
  /\ acks' = [acks EXCEPT ![p] = 0] /\ acked' = [acked EXCEPT ![p] = 0]
  /\ UNCHANGED <<run, down, writer, eof, sent, block, delivered, count, repeats>>

\* An error of tcp_read ends the task without a count.
ReadFails(p) ==
  /\ Reading(p)
  /\ UpEnds(p, "failed")

\* The down_done arm, once: it ends the loop only if everything is acked.
DownDoneLeavesAlways(p) == TRUE \* slip: the loop ends whatever is acked
DownDoneLeaves(p) == AllAcked(p)
DownDone(p) ==
  /\ Running(p) /\ up[p] = "postEof"
  /\ DownEnded(p)
  /\ \/ DownDoneLeaves(p) /\ UpEnds(p, "acked")
     \/ /\ ~DownDoneLeaves(p)
        /\ up' = [up EXCEPT ![p] = "doneSeen"]
        /\ UNCHANGED <<run, down, writer, dataVars>>

\* lifetime_tick: everything is acked, or no ack came for TUNNEL_MAX_STALL.
FastBreak(p) == Draining(p) /\ AllAcked(p) /\ UpEnds(p, "acked")
DrainStall(p) == Draining(p) /\ ~AllAcked(p) /\ UpEnds(p, "stalled")

-----------------------------------------------------------------------------
(* The downstream task of q, which receives what p = Other(q) sent.        *)

Held(p) == {b \in Block(p) : block[p][b] = "held"}

\* drain_ready: the blocks held from the delivered ones up to floor are contiguous.
RunEnds(p, held, floor) ==
  /\ delivered[p] .. floor - 1 \subseteq held
  /\ floor \notin held

\* The loop's exit condition, looked at after every arm.
AtEndOnCount(p, cnt, floor) == cnt = "known" \* slip: the total alone ends the loop
AtEnd(p, cnt, floor) == cnt = "known" /\ floor >= sent[p]
DownAfter(q, cnt, floor) ==
  down' = [down EXCEPT ![q] = IF AtEnd(Other(q), cnt, floor) THEN "shut" ELSE "open"]

\* An ack reaches an upstream task that is still there.
Acknowledge(p) ==
  acks' = [acks EXCEPT ![p] = IF Reaches(p) /\ ~UpEnded(p) THEN @ + 1 ELSE @]

\* Block b is complete: it is acked, after what can be delivered was written
\* to TCP.  An error there ends the task, and drops down_done_tx and the ack.
Complete(q, b) ==
  LET p == Other(q) IN
  \E floor \in delivered[p] .. Blocks[p] :
    /\ RunEnds(p, Held(p) \cup {b}, floor)
    /\ \/ /\ Fate(p, b, "held")
          /\ delivered' = [delivered EXCEPT ![p] = floor]
          /\ Acknowledge(p)
          /\ DownAfter(q, count[p], floor)
       \/ /\ floor > delivered[p]
          /\ down' = [down EXCEPT ![q] = "failed"]
          /\ UNCHANGED <<block, delivered, acks>>

BurstArrives(q, b) ==
  /\ Receiving(q)
  /\ block[Other(q)][b] = "flying"
  /\ Complete(q, b)
  /\ UNCHANGED <<run, up, writer, eof, sent, count, acked, repeats>>

\* The control tick asks for a block whose symbols do not come.
Ask(q, b) ==
  /\ Receiving(q)
  /\ block[Other(q)][b] = "flying"
  /\ Fate(Other(q), b, "asked")
  /\ UNCHANGED <<taskVars, eof, sent, delivered, count, acks, acked, repeats>>

\* Late symbols of a block decoded but not yet delivered decode it again.
AckAgain(q, b) ==
  LET p == Other(q) IN
  /\ Receiving(q)
  /\ b \in Held(p) /\ b >= delivered[p]
  /\ repeats[p] < MaxRepeats
  /\ repeats' = [repeats EXCEPT ![p] = @ + 1]
  /\ Acknowledge(p)
  /\ UNCHANGED <<taskVars, eof, sent, block, delivered, count, acked>>

CountArrives(q) ==
  LET p == Other(q) IN
  /\ Receiving(q)
  /\ count[p] = "wire"
  /\ count' = [count EXCEPT ![p] = "known"]
  /\ DownAfter(q, "known", delivered[p])
  /\ UNCHANGED <<run, up, writer, eof, sent, block, delivered, acks, acked, repeats>>

\* progress_tick: nothing new was delivered for TUNNEL_MAX_STALL, and the total
\* is unknown.
DownStall(q) ==
  /\ Receiving(q)
  /\ count[Other(q)] # "known"
  /\ down' = [down EXCEPT ![q] = "stalled"]
  /\ UNCHANGED <<run, up, writer, dataVars>>

-----------------------------------------------------------------------------
Life(p) == \/ HearReset(p) \/ LoseConnection(p) \/ HearLoss(p)
           \/ WriterEnds(p) \/ Join(p)

Up(p) ==
  \/ EmitBlock(p) \/ ReadEof(p) \/ UpStallAbort(p) \/ ReadFails(p)
  \/ TakeAck(p) \/ DownDone(p) \/ FastBreak(p) \/ DrainStall(p)
  \/ \E b \in Block(p) : Serve(p, b)

Down(q) ==
  \/ CountArrives(q) \/ DownStall(q)
  \/ \E b \in Block(Other(q)) :
       \/ BurstArrives(q, b) \/ Ask(q, b) \/ AckAgain(q, b)

Next == ConnectTarget \/ RefuseTarget \/ \E p \in Peer : Life(p) \/ Up(p) \/ Down(p)

Spec == Init /\ [][Next]_vars

\* Tasks are scheduled, a dial of the target answers or times out, a lost
\* connection is noticed, signals arrive, and the network loses bursts but not
\* all of them.  Nothing is assumed of the applications.
PeerFairness(p) ==
  /\ WF_vars(HearReset(p) \/ HearLoss(p))
  /\ WF_vars(WriterEnds(p)) /\ WF_vars(Join(p))
  /\ WF_vars(TakeAck(p)) /\ WF_vars(FastBreak(p)) /\ WF_vars(CountArrives(p))
  /\ WF_vars(\E b \in Block(p) : Serve(p, b))
  /\ WF_vars(\E b \in Block(Other(p)) : Ask(p, b))
  /\ SF_vars(\E b \in Block(Other(p)) : BurstArrives(p, b))

FairSpec ==
  Spec /\ WF_vars(ConnectTarget \/ RefuseTarget) /\ \A p \in Peer : PeerFairness(p)

\* The guards' timers run out in a phase that lasts.
GuardsFire == \A p \in Peer : WF_vars(DrainStall(p)) /\ WF_vars(DownStall(p))

-----------------------------------------------------------------------------
Sent(p) == 0 .. sent[p] - 1

\* An upstream task that left because everything was acknowledged is not needed
\* any more: the peer holds every block it sent, although down_done, the
\* acknowledgements and the end of the other direction come in any order.  The
\* exception is a block acknowledged twice (the down_done and lifetime_tick arms
\* of the post-EOF loop).
NoEarlyLeave ==
  \A p \in Peer :
    up[p] = "acked" /\ repeats[p] = 0 => Sent(p) \subseteq Held(p)

\* Each direction of the tunnel is an ordered stream, whatever the other
\* direction, resets, errors of the sockets and lost connections do: the socket
\* is shut down in the regular way only when the other application closed and
\* all its blocks were delivered (the exit condition of the downstream loop).
Request == INSTANCE OrderedStream
  WITH MaxBlocks <- Blocks["client"], written <- sent["client"],
       eof <- eof["client"], delivered <- delivered["client"],
       closed <- (down["server"] = "shut" /\ eof["client"])
Response == INSTANCE OrderedStream
  WITH MaxBlocks <- Blocks["server"], written <- sent["server"],
       eof <- eof["server"], delivered <- delivered["server"],
       closed <- (down["client"] = "shut" /\ eof["server"])
StreamContract == Request!StreamSpec /\ Response!StreamSpec

\* Nothing took longer than TUNNEL_MAX_STALL, no socket failed, and no block was
\* acknowledged twice.
Smooth ==
  \A p \in Peer : up[p] # "stalled" /\ down[p] \notin {"stalled", "failed"} /\ repeats[p] = 0

\* A half-close is passed on: once one application has closed, the other's
\* socket gets everything and is shut down, whatever the losses and although the
\* other direction stays open (the post-EOF loop keeps serving).
HalfClosePassedOn ==
  []Smooth => \A p \in Peer :
    Draining(p) ~> down[Other(p)] = "shut" \/ ~Reaches(Other(p)) \/ ~Running(p)

\* The peer's upstream task has left, a block is missing, and the announced
\* total turns the downstream guard off: the tunnel is never torn down.
Stranded(q) ==
  LET p == Other(q) IN
  /\ Receiving(q) /\ ~Serving(p)
  /\ count[p] = "known"
  /\ \E b \in Sent(p) : block[p][b] = "asked"
  /\ up[p] = "stalled" \/ repeats[p] > 0

\* Once both upstream tasks have left the read loop, or the target was refused,
\* both runs end, and with them their ActiveGuard, in whatever order their tasks
\* finish or fail: the join of up, down and writer never waits for a handle, an
\* answer or a down_done that cannot come.  The one exception is a stranded peer.
BothEnd ==
  GuardsFire =>
    ((run["server"] = "refused" \/ \A p \in Peer : up[p] # "reading") ~>
       ((\A p \in Peer : run[p] \notin {"starting", "running"})
        \/ \E q \in Peer : Stranded(q)))
=============================================================================
