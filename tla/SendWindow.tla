----------------------------- MODULE SendWindow -----------------------------
(***************************************************************************)
(* The connection-wide SendWindow (crates/raptun-fec/src/budget.rs) and    *)
(* the upstream tasks of the tunnels that share it, seen through the flow- *)
(* control gate of run_fec_tunnel: a block read from TCP is held in the    *)
(* gate loop, then in the cwnd spin loop, then accounted and sent.         *)
(*                                                                         *)
(* While it is held in either loop an upstream task awaits nothing but     *)
(* credits: NACKs and reliable requests wait in their channels.  A block   *)
(* is "lost" here when its first burst is not enough to decode it.         *)
(*                                                                         *)
(* The checks (has_room, has_cwnd_room) and add_sent are separate steps:   *)
(* tunnels run on several threads.  add_sent raises the aggregate before   *)
(* the slot and settle lowers it after, each in one step here: in between  *)
(* the aggregate only over-counts.                                         *)
(***************************************************************************)
EXTENDS Integers, Tally

CONSTANTS
  Tunnel,        \* tunnels that may be opened on the connection
  MaxBlocks,     \* bound: blocks a tunnel sends
  FloorBlocks,   \* CREDIT_WINDOW_FLOOR_BLOCKS
  BlockBytes,    \* bytes of a block
  Cwnds,         \* congestion windows the telemetry may report, in bytes
  Lossy          \* a block's first burst may fall short

ASSUME WindowAssumption ==
  /\ IsFiniteSet(Tunnel)
  /\ MaxBlocks \in Nat
  /\ FloorBlocks \in Nat \ {0} /\ BlockBytes \in Nat \ {0}
  /\ Cwnds \subseteq Nat
  /\ Lossy \in BOOLEAN

VARIABLES
  ceiling,      \* SendWindow.ceiling
  minCwnd,      \* SendWindow.min_cwnd_bdp
  inFlight,     \* SendWindow.in_flight
  slot,         \* TunnelSlot.in_flight of each tunnel
  pc,           \* where the upstream task is
  sent,         \* total_blocks
  fresh,        \* credit_fresh
  known,        \* delivered, as the credits told the upstream task
  lost,         \* blocks that wait for a repair or a reliable copy
  arrived,      \* blocks the far side has delivered in order
  credited,     \* last_credit_sent of the far side
  credits,      \* credits in flight, read in the order sent
  abandoned     \* history: blocks sent when the slot was last abandoned

windowVars == <<ceiling, minCwnd>>
farVars    == <<lost, arrived, credited>>
vars == <<windowVars, inFlight, slot, pc, sent, fresh, known, farVars,
          credits, abandoned>>

\* "new": not opened; "serve": in select!; "gate": in the gate loop; "spin" and
\* "yield": at the condition and in the body of the spin loop; "add": past the
\* checks, add_sent comes next; "gone": torn down.
Places == {"new", "serve", "gate", "spin", "yield", "add", "gone"}

TypeOK ==
  /\ ceiling \in Nat /\ minCwnd \in Nat
  /\ inFlight \in Nat
  /\ slot \in [Tunnel -> Nat]
  /\ pc \in [Tunnel -> Places]
  /\ sent \in [Tunnel -> 0 .. MaxBlocks]
  /\ fresh \in [Tunnel -> BOOLEAN]
  /\ known \in [Tunnel -> 0 .. MaxBlocks]
  /\ lost \in [Tunnel -> SUBSET (0 .. MaxBlocks - 1)]
  /\ arrived \in [Tunnel -> 0 .. MaxBlocks]
  /\ credited \in [Tunnel -> 0 .. MaxBlocks]
  /\ credits \in [Tunnel -> SUBSET (1 .. MaxBlocks)]
  /\ abandoned \in [Tunnel -> 0 .. MaxBlocks]

Zero == [t \in Tunnel |-> 0]

Init ==
  /\ ceiling = FloorBlocks
  /\ minCwnd = FloorBlocks * BlockBytes
  /\ inFlight = 0 /\ slot = Zero
  /\ pc = [t \in Tunnel |-> "new"]
  /\ sent = Zero /\ known = Zero
  /\ fresh = [t \in Tunnel |-> TRUE]
  /\ lost = [t \in Tunnel |-> {}]
  /\ arrived = Zero /\ credited = Zero
  /\ credits = [t \in Tunnel |-> {}]
  /\ abandoned = Zero

Lesser(m, n) == IF m < n THEN m ELSE n
Larger(m, n) == IF m > n THEN m ELSE n

MinTunnelShare == 2
BdpMultiplier == 1

-----------------------------------------------------------------------------
(* The shared window.                                                      *)

\* observe_cwnd
Observed(sample) == IF sample <= FloorBlocks * BlockBytes THEN minCwnd
                    ELSE Lesser(sample, minCwnd)

\* refresh_ceiling
CeilingFor(sample, min) ==
  Larger(Lesser(sample, min * BdpMultiplier) \div BlockBytes, FloorBlocks)

Active == {t \in Tunnel : pc[t] \notin {"new", "gone"}}

\* The downstream task of an open tunnel folds the latest sample in.
ControlTick ==
  /\ Active # {}
  /\ \E sample \in Cwnds :
       /\ minCwnd' = Observed(sample)
       /\ ceiling' = CeilingFor(sample, minCwnd')
  /\ UNCHANGED <<inFlight, slot, pc, sent, fresh, known, farVars, credits,
                 abandoned>>

\* fair_share, has_room, has_cwnd_room
FairShare == Larger(ceiling \div Larger(Cardinality(Active), 1), MinTunnelShare)
HasCwndRoomAlways == TRUE \* slip: the spin loop is left out
HasCwndRoom == inFlight < ceiling
HasRoomAbove(t) == HasCwndRoom /\ slot[t] + MinTunnelShare < FairShare \* slip
HasRoom(t) == HasCwndRoom /\ slot[t] < FairShare

\* saturating_release of n blocks of the slot, and of what that yielded.
ReleaseWrapping(t, n) == \* slip: no saturation
  /\ slot' = [slot EXCEPT ![t] = @ - n]
  /\ inFlight' = inFlight - n
ReleaseSlotOnly(t, n) == \* slip: the connection's counter is left as it was
  /\ slot' = [slot EXCEPT ![t] = @ - Lesser(slot[t], n)]
  /\ UNCHANGED inFlight
Release(t, n) ==
  LET actual == Lesser(slot[t], n) IN
  /\ slot' = [slot EXCEPT ![t] = @ - actual]
  /\ inFlight' = inFlight - Lesser(inFlight, actual)

-----------------------------------------------------------------------------
(* A tunnel's upstream task.                                               *)

\* register_tunnel
Open(t) ==
  /\ pc[t] = "new"
  /\ pc' = [pc EXCEPT ![t] = "serve"]
  /\ UNCHANGED <<windowVars, inFlight, slot, sent, fresh, known, farVars,
                 credits, abandoned>>

\* The tunnel ends wherever it awaits, and its slot is dropped.
CloseLeaky(t) == UNCHANGED <<inFlight, slot>> \* slip: Drop forgets the blocks
DropSlot(t) == Release(t, slot[t])
Close(t) ==
  /\ pc[t] \in {"serve", "gate", "yield"}
  /\ pc' = [pc EXCEPT ![t] = "gone"]
  /\ DropSlot(t)
  /\ UNCHANGED <<windowVars, sent, fresh, known, farVars, credits, abandoned>>

\* A TCP read: the block waits at the gate.
TcpRead(t) ==
  /\ pc[t] = "serve"
  /\ sent[t] < MaxBlocks
  /\ pc' = [pc EXCEPT ![t] = "gate"]
  /\ UNCHANGED <<windowVars, inFlight, slot, sent, fresh, known, farVars,
                 credits, abandoned>>

\* Blocks a credit newly acknowledges.
NewlyAll(t, d) == d \* slip: the blocks already settled are not taken off
Newly(t, d) == Larger(d - known[t], 0)

\* Take the oldest credit and settle what it newly acknowledges.
TakeCredit(t) ==
  \E d \in credits[t] :
    /\ \A e \in credits[t] : d <= e
    /\ credits' = [credits EXCEPT ![t] = @ \ {d}]
    /\ known' = [known EXCEPT ![t] = Larger(@, d)]
    /\ Release(t, Newly(t, d))
    /\ fresh' = [fresh EXCEPT ![t] = TRUE]

\* The gate's loop condition turns false, at a credit or at a 20 ms re-check.
GatePass(t) ==
  /\ pc[t] = "gate"
  /\ ~fresh[t] \/ HasRoom(t)
  /\ pc' = [pc EXCEPT ![t] = "spin"]
  /\ UNCHANGED <<windowVars, inFlight, slot, sent, fresh, known, farVars,
                 credits, abandoned>>

GateCredit(t) ==
  /\ pc[t] = "gate" /\ fresh[t]
  /\ TakeCredit(t)
  /\ UNCHANGED <<windowVars, pc, sent, farVars, abandoned>>

\* The 5 s probe is started anew after every 20 ms re-check, so it can only win
\* the select! when the task was not polled for 5 s.
GateProbe(t) ==
  /\ pc[t] = "gate" /\ fresh[t] /\ ~HasRoom(t)
  /\ fresh' = [fresh EXCEPT ![t] = FALSE]
  /\ pc' = [pc EXCEPT ![t] = "spin"]
  /\ UNCHANGED <<windowVars, inFlight, slot, sent, known, farVars, credits,
                 abandoned>>

SpinPass(t) ==
  /\ pc[t] = "spin"
  /\ HasCwndRoom
  /\ pc' = [pc EXCEPT ![t] = "add"]
  /\ UNCHANGED <<windowVars, inFlight, slot, sent, fresh, known, farVars,
                 credits, abandoned>>

SpinBlocked(t) ==
  /\ pc[t] = "spin"
  /\ ~HasCwndRoom
  /\ pc' = [pc EXCEPT ![t] = "yield"]
  /\ UNCHANGED <<windowVars, inFlight, slot, sent, fresh, known, farVars,
                 credits, abandoned>>

\* Any credit ends the spin, whether or not it made room.
YieldCredit(t) ==
  /\ pc[t] = "yield"
  /\ TakeCredit(t)
  /\ pc' = [pc EXCEPT ![t] = "add"]
  /\ UNCHANGED <<windowVars, sent, farVars, abandoned>>

\* Without one the spin goes on, and after CWND_STALL_ABANDON the slot is
\* emptied and the block goes out.
YieldAgain(t) ==
  /\ pc[t] = "yield" /\ credits[t] = {}
  /\ pc' = [pc EXCEPT ![t] = "spin"]
  /\ UNCHANGED <<windowVars, inFlight, slot, sent, fresh, known, farVars,
                 credits, abandoned>>

YieldAbandon(t) ==
  /\ pc[t] = "yield" /\ credits[t] = {}
  /\ pc' = [pc EXCEPT ![t] = "add"]
  /\ Release(t, slot[t])
  /\ abandoned' = [abandoned EXCEPT ![t] = sent[t]]
  /\ UNCHANGED <<windowVars, sent, fresh, known, farVars, credits>>

\* add_sent, and the block's burst.
AddSent(t) ==
  /\ pc[t] = "add"
  /\ pc' = [pc EXCEPT ![t] = "serve"]
  /\ inFlight' = inFlight + 1
  /\ slot' = [slot EXCEPT ![t] = @ + 1]
  /\ sent' = [sent EXCEPT ![t] = @ + 1]
  /\ \/ UNCHANGED lost
     \/ Lossy /\ lost' = [lost EXCEPT ![t] = @ \cup {sent[t]}]
  /\ UNCHANGED <<windowVars, fresh, known, arrived, credited, credits,
                 abandoned>>

ServeCredit(t) ==
  /\ pc[t] = "serve"
  /\ TakeCredit(t)
  /\ UNCHANGED <<windowVars, pc, sent, farVars, abandoned>>

\* A NACK or a reliable request for a lost block is served.
Recover(t) ==
  /\ pc[t] = "serve"
  /\ \E b \in lost[t] : lost' = [lost EXCEPT ![t] = @ \ {b}]
  /\ UNCHANGED <<windowVars, inFlight, slot, pc, sent, fresh, known, arrived,
                 credited, credits, abandoned>>

-----------------------------------------------------------------------------
(* The far side.                                                           *)

\* The next block is decoded and delivered.
Deliver(t) ==
  /\ pc[t] # "gone"
  /\ arrived[t] < sent[t]
  /\ arrived[t] \notin lost[t]
  /\ arrived' = [arrived EXCEPT ![t] = @ + 1]
  /\ UNCHANGED <<windowVars, inFlight, slot, pc, sent, fresh, known, lost,
                 credited, credits, abandoned>>

\* A credit is sent when the delivered count has changed.
SendCredit(t) ==
  /\ pc[t] # "gone"
  /\ arrived[t] # credited[t]
  /\ credited' = [credited EXCEPT ![t] = arrived[t]]
  /\ credits' = [credits EXCEPT ![t] = @ \cup {arrived[t]}]
  /\ UNCHANGED <<windowVars, inFlight, slot, pc, sent, fresh, known, lost,
                 arrived, abandoned>>

-----------------------------------------------------------------------------
Upstream(t) ==
  \/ Open(t) \/ Close(t) \/ TcpRead(t)
  \/ GatePass(t) \/ GateCredit(t) \/ GateProbe(t)
  \/ SpinPass(t) \/ SpinBlocked(t)
  \/ YieldCredit(t) \/ YieldAgain(t) \/ YieldAbandon(t)
  \/ AddSent(t) \/ ServeCredit(t) \/ Recover(t)

Far(t) == Deliver(t) \/ SendCredit(t)

Next == ControlTick \/ \E t \in Tunnel : Upstream(t) \/ Far(t)

Spec == Init /\ [][Next]_vars

\* Tasks are scheduled, channels drained, and a spin that lasts is ended by its
\* 10 s bound.  Nothing is assumed of the probe, of applications closing, or of
\* the telemetry.
TunnelFairness(t) ==
  /\ WF_vars(GatePass(t)) /\ WF_vars(GateCredit(t))
  /\ WF_vars(SpinPass(t) \/ SpinBlocked(t))
  /\ WF_vars(YieldCredit(t) \/ YieldAgain(t)) /\ SF_vars(YieldAbandon(t))
  /\ WF_vars(AddSent(t)) /\ WF_vars(ServeCredit(t)) /\ SF_vars(Recover(t))
  /\ WF_vars(Deliver(t)) /\ WF_vars(SendCredit(t))

FairSpec == Spec /\ \A t \in Tunnel : TunnelFairness(t)

-----------------------------------------------------------------------------
\* The aggregate is what the live tunnels hold: closing tunnels, abandoning
\* blocks and duplicate or late credits leave nothing behind in the connection
\* window and take nothing that belongs to another tunnel (SendWindow::settle,
\* TunnelSlot's Drop).
AggregateMatches == inFlight = Total([t \in Active |-> slot[t]])

\* A tunnel that never abandoned its blocks has every block counted that its
\* peer has not acknowledged, and so every block still under way.
InFlightCounted ==
  \A t \in Tunnel :
    t \in Active /\ abandoned[t] = 0 =>
      /\ slot[t] = sent[t] - known[t]
      /\ known[t] <= arrived[t]

\* The check and the accounting are separate, and a stalled tunnel sends with no
\* room at all, but the window is overshot by at most one block for each tunnel
\* but one.
OvershootBounded == inFlight <= ceiling + Cardinality(Tunnel) - 1

\* A block is held only for blocks that are out: some live tunnel has one counted,
\* and unless it abandoned blocks, one that its peer has not acknowledged.  No count
\* that a closed tunnel, a stalled one or an old credit left behind keeps the gate or
\* the spin loop shut (the loops of run_fec_tunnel, has_room, has_cwnd_room).
Outstanding(u) == slot[u] > 0 /\ (abandoned[u] = 0 => known[u] < sent[u])
HeldForBlocks ==
  \A t \in Tunnel :
    pc[t] \in {"gate", "spin", "yield"} /\ ~HasRoom(t)
      => \E u \in Active : Outstanding(u)

\* A block that waits at the gate is let through, or the tunnel ends.
GateOpens == \A t \in Tunnel : pc[t] = "gate" ~> pc[t] # "gate"

\* The same where every block arrives in the end, by symbols or by its copy: a
\* waiting block then needs credits only, whatever the ceiling and whichever
\* tunnel fills the window (run_fec_tunnel's gate, has_room).
GateOpensIfIntact == ([](\A t \in Tunnel : lost[t] = {})) => GateOpens
=============================================================================
