-------------------------- MODULE SendWindowProofs --------------------------
(***************************************************************************)
(* For every floor, block size and telemetry: the ceiling of the shared    *)
(* window never leaves its floor.  For every set of tunnels, every loss    *)
(* and every interleaving: the slot of a tunnel that never abandoned its   *)
(* blocks counts exactly what its peer has not acknowledged, the aggregate *)
(* is the sum of the slots, the window is overshot by at most one block    *)
(* for each tunnel but one, and a block is held only for blocks that are   *)
(* out.                                                                    *)
(***************************************************************************)
EXTENDS SendWindow, FiniteSetTheorems, TLAPS

-----------------------------------------------------------------------------
(* How the total of a function changes with one of its values.             *)

\* The units of a bounded function on a finite set can be counted.
LEMMA UnitsFinite ==
  ASSUME NEW S, IsFiniteSet(S), NEW n \in Nat, NEW f \in [S -> 0 .. n]
  PROVE  IsFiniteSet(Units(f)) /\ Total(f) \in Nat
<1>1. IsFiniteSet(1 .. n)
  BY FS_Interval
<1>2. IsFiniteSet(S \X (1 .. n))
  BY <1>1, FS_Product
<1>3. Units(f) \in SUBSET (S \X (1 .. n))
  BY DEF Units
<1> QED
  BY <1>2, <1>3, FS_Subset, FS_CardinalityType DEF Total

\* A function that is zero everywhere has none.
LEMMA ZeroTotal ==
  ASSUME NEW S, NEW f \in [S -> Nat], \A x \in S : f[x] = 0
  PROVE  Total(f) = 0
<1>1. Units(f) = {}
  BY DEF Units
<1> QED
  BY <1>1, FS_EmptySet DEF Total

\* n units of one x.
LEMMA RowTotal ==
  ASSUME NEW x, NEW n \in Nat
  PROVE  IsFiniteSet({x} \X (1 .. n)) /\ Cardinality({x} \X (1 .. n)) = n
<1>1. IsFiniteSet({x}) /\ Cardinality({x}) = 1
  BY FS_Singleton
<1>2. IsFiniteSet(1 .. n) /\ Cardinality(1 .. n) = n
  BY FS_Interval
<1>3. /\ IsFiniteSet({x} \X (1 .. n))
      /\ Cardinality({x} \X (1 .. n)) = Cardinality({x}) * Cardinality(1 .. n)
  BY <1>1, <1>2, FS_Product
<1> QED
  BY <1>1, <1>2, <1>3

\* What x adds to the total is its value.
LEMMA TotalWithout ==
  ASSUME NEW S, IsFiniteSet(S), NEW n \in Nat, NEW f \in [S -> 0 .. n], NEW x \in S
  PROVE  Total(f) = Total([y \in S \ {x} |-> f[y]]) + f[x]
<1> DEFINE rest == [y \in S \ {x} |-> f[y]]
           row  == {x} \X (1 .. f[x])
<1>1. rest \in [S \ {x} -> 0 .. n] /\ IsFiniteSet(S \ {x})
  BY FS_RemoveElement
<1>2. IsFiniteSet(Units(rest)) /\ Cardinality(Units(rest)) \in Nat
  BY <1>1, UnitsFinite DEF Total
<1>3. IsFiniteSet(row) /\ Cardinality(row) = f[x] /\ f[x] \in Nat
  <2>1. f[x] \in Nat
    OBVIOUS
  <2> QED
    BY <2>1, RowTotal
<1>4. Units(f) = Units(rest) \cup row
  BY DEF Units
<1>5. Units(rest) \cap row = {}
  BY DEF Units
<1> HIDE DEF rest, row
<1>6. Cardinality(Units(rest) \cup row)
        = Cardinality(Units(rest)) + Cardinality(row) - Cardinality(Units(rest) \cap row)
  BY <1>2, <1>3, FS_Union
<1>7. Total(f) = Total(rest) + f[x]
  <2>1. Cardinality(Units(rest) \cap row) = 0
    BY <1>5, FS_EmptySet
  <2>2. Cardinality(Units(f)) = Cardinality(Units(rest)) + f[x]
    BY <1>2, <1>3, <1>4, <1>6, <2>1
  <2> QED
    BY <2>2 DEF Total
<1> QED
  BY <1>7 DEF rest

\* A value is no more than the total.
LEMMA ValueInTotal ==
  ASSUME NEW S, IsFiniteSet(S), NEW n \in Nat, NEW f \in [S -> 0 .. n], NEW x \in S
  PROVE  f[x] <= Total(f)
<1>1. [y \in S \ {x} |-> f[y]] \in [S \ {x} -> 0 .. n] /\ IsFiniteSet(S \ {x})
  BY FS_RemoveElement
<1>2. Total([y \in S \ {x} |-> f[y]]) \in Nat
  BY <1>1, UnitsFinite
<1> QED
  BY <1>2, TotalWithout

\* When one value changes, the total moves by the difference.
LEMMA TotalMoves ==
  ASSUME NEW S, IsFiniteSet(S), NEW n \in Nat, NEW f \in [S -> 0 .. n],
         NEW g \in [S -> 0 .. n], NEW x \in S, \A y \in S \ {x} : g[y] = f[y]
  PROVE  Total(g) = Total(f) - f[x] + g[x]
<1> DEFINE rest == [y \in S \ {x} |-> f[y]]
<1>1. [y \in S \ {x} |-> g[y]] = rest
  OBVIOUS
<1>2. rest \in [S \ {x} -> 0 .. n] /\ IsFiniteSet(S \ {x})
  BY FS_RemoveElement
<1>3. Total(rest) \in Nat
  BY <1>2, UnitsFinite
<1>4. Total(f) = Total(rest) + f[x]
  BY TotalWithout
<1>5. Total(g) = Total(rest) + g[x]
  BY <1>1, TotalWithout
<1> QED
  BY <1>3, <1>4, <1>5

\* Fewer counted, a smaller total.
LEMMA TotalOfFewer ==
  ASSUME NEW S, IsFiniteSet(S), NEW n \in Nat, NEW f \in [S -> 0 .. n], NEW T \in SUBSET S
  PROVE  Total([x \in T |-> f[x]]) \in Nat /\ Total([x \in T |-> f[x]]) <= Total(f)
<1>1. IsFiniteSet(Units(f))
  BY UnitsFinite
<1>2. Units([x \in T |-> f[x]]) \in SUBSET Units(f)
  BY DEF Units
<1>3. IsFiniteSet(Units([x \in T |-> f[x]]))
  BY <1>1, <1>2, FS_Subset
<1> QED
  BY <1>1, <1>2, <1>3, FS_Subset, FS_CardinalityType DEF Total

\* Smaller values, a smaller total.
LEMMA TotalBelow ==
  ASSUME NEW S, IsFiniteSet(S), NEW n \in Nat, NEW f \in [S -> 0 .. n],
         NEW g \in [S -> 0 .. n], \A x \in S : g[x] <= f[x]
  PROVE  Total(g) <= Total(f)
<1>1. IsFiniteSet(Units(f))
  BY UnitsFinite
<1>2. Units(g) \in SUBSET Units(f)
  BY DEF Units
<1> QED
  BY <1>1, <1>2, FS_Subset DEF Total

\* Those that hold nothing need not be counted.
LEMMA TotalOfHolders ==
  ASSUME NEW S, NEW f \in [S -> Nat], NEW T \in SUBSET S, \A x \in S \ T : f[x] = 0
  PROVE  Total([x \in T |-> f[x]]) = Total(f)
<1>1. Units([x \in T |-> f[x]]) = Units(f)
  BY DEF Units
<1> QED
  BY <1>1 DEF Total

-----------------------------------------------------------------------------
(* The ceiling.                                                            *)

\* At most f blocks fit into f * bytes bytes.
LEMMA BlocksThatFit ==
  ASSUME NEW f \in Nat, NEW bytes \in Nat \ {0}, NEW c \in Nat,
         c <= f * bytes
  PROVE  c \div bytes \in Nat /\ c \div bytes <= f
<1> DEFINE q == c \div bytes
<1>1. q \in Nat /\ bytes * q <= c
  OBVIOUS
<1>2. ASSUME q >= f + 1 PROVE FALSE
  <2> HIDE DEF q
  <2> DEFINE more == q - (f + 1)
  <2>1. more \in Nat /\ q = f + 1 + more
    BY <1>1, <1>2
  <2> HIDE DEF more
  <2>2. bytes * q = bytes * f + bytes + bytes * more
    BY <2>1
  <2>3. bytes * more \in Nat /\ bytes * f = f * bytes /\ bytes * f \in Nat
    BY <2>1
  <2> QED
    BY <1>1, <2>2, <2>3
<1> QED
  BY <1>1, <1>2

\* Whatever the telemetry reports, the ceiling is CREDIT_WINDOW_FLOOR_BLOCKS:
\* min_cwnd_bdp starts at the floor and only samples above it are observed.  This is
\* what the code does; the comment on the floor says otherwise (run.rs:896-897).
CeilingPinned == ceiling = FloorBlocks

CapStaysAtFloor ==
  /\ minCwnd = FloorBlocks * BlockBytes
  /\ CeilingPinned

\* Only samples above the floor are looked at, and none of them is smaller.
LEMMA FloorIsSmallest ==
  ASSUME CapStaysAtFloor, NEW sample \in Nat
  PROVE  Observed(sample) = FloorBlocks * BlockBytes
<1>1. FloorBlocks * BlockBytes \in Nat
  BY WindowAssumption
<1> QED
  BY <1>1 DEF CapStaysAtFloor, Observed, Lesser

\* Capped by the floor, a window is worth no more blocks than the floor.
LEMMA FloorCapsCeiling ==
  ASSUME NEW sample \in Nat
  PROVE  CeilingFor(sample, FloorBlocks * BlockBytes) = FloorBlocks
<1> DEFINE floor == FloorBlocks * BlockBytes
           capped == Lesser(sample, floor * BdpMultiplier)
<1>1. floor \in Nat /\ floor * BdpMultiplier = floor
  BY WindowAssumption DEF BdpMultiplier
<1>2. capped \in Nat /\ capped <= floor
  BY <1>1 DEF Lesser
<1>3. /\ capped \div BlockBytes \in Nat
      /\ capped \div BlockBytes <= FloorBlocks
  <2> HIDE DEF capped
  <2> QED
    BY <1>2, BlocksThatFit, WindowAssumption
<1> QED
  BY <1>3, WindowAssumption DEF CeilingFor, Larger

LEMMA CeilingStep == CapStaysAtFloor /\ [Next]_vars => CapStaysAtFloor'
<1> SUFFICES ASSUME CapStaysAtFloor, [Next]_vars PROVE CapStaysAtFloor'
  OBVIOUS
<1>1. CASE ControlTick
  <2>1. PICK sample \in Nat : /\ minCwnd' = Observed(sample)
                              /\ ceiling' = CeilingFor(sample, minCwnd')
    BY <1>1, WindowAssumption DEF ControlTick
  <2>2. minCwnd' = FloorBlocks * BlockBytes
    BY <2>1, FloorIsSmallest
  <2> QED
    BY <2>1, <2>2, FloorCapsCeiling DEF CapStaysAtFloor, CeilingPinned
<1>2. CASE ~ControlTick
  <2>1. UNCHANGED windowVars
    BY <1>2 DEF Next, vars, Upstream, Far, Open, Close, TcpRead, GatePass,
                GateCredit, GateProbe, SpinPass, SpinBlocked, YieldCredit,
                YieldAgain, YieldAbandon, AddSent, ServeCredit, Recover,
                Deliver, SendCredit, windowVars
  <2> QED
    BY <2>1 DEF windowVars, CapStaysAtFloor, CeilingPinned
<1> QED
  BY <1>1, <1>2

\* Whatever congestion windows the telemetry reports, the ceiling stays at
\* CREDIT_WINDOW_FLOOR_BLOCKS (SendWindow::new, observe_cwnd, refresh_ceiling).
THEOREM CeilingNeverMoves == Spec => []CeilingPinned
<1>1. Init => CapStaysAtFloor
  BY DEF Init, CapStaysAtFloor, CeilingPinned
<1>2. CapStaysAtFloor => CeilingPinned
  BY DEF CapStaysAtFloor
<1> QED
  BY <1>1, <1>2, CeilingStep, PTL DEF Spec

-----------------------------------------------------------------------------
(* The slots.                                                              *)

Counters ==
  /\ slot \in [Tunnel -> Nat] /\ pc \in [Tunnel -> Places]
  /\ sent \in [Tunnel -> Nat] /\ known \in [Tunnel -> Nat]
  /\ arrived \in [Tunnel -> Nat] /\ credited \in [Tunnel -> Nat]
  /\ credits \in [Tunnel -> SUBSET Nat]
  /\ abandoned \in [Tunnel -> Nat]

\* Nothing is acknowledged before it is delivered, or delivered before it is
\* sent.
Causal(t) ==
  /\ known[t] <= arrived[t] /\ arrived[t] <= sent[t]
  /\ \A d \in credits[t] : d <= arrived[t]

Counted(t) ==
  pc[t] # "gone" /\ abandoned[t] = 0 => slot[t] = sent[t] - known[t]

SlotInv == Counters /\ \A t \in Tunnel : Causal(t) /\ Counted(t)

\* What a step of tunnel t leaves alone of every other tunnel.
OthersKept(t) ==
  \A u \in Tunnel \ {t} :
    /\ slot'[u] = slot[u] /\ pc'[u] = pc[u] /\ sent'[u] = sent[u]
    /\ known'[u] = known[u] /\ arrived'[u] = arrived[u]
    /\ credits'[u] = credits[u] /\ abandoned'[u] = abandoned[u]

\* It is enough to look at the tunnel that takes the step.
LEMMA OneTunnel ==
  ASSUME SlotInv, NEW t \in Tunnel, Counters', OthersKept(t), Causal(t)', Counted(t)'
  PROVE  SlotInv'
  BY DEF SlotInv, OthersKept, Causal, Counted

\* A credit settles exactly what it newly acknowledges.
LEMMA CreditSettles ==
  ASSUME SlotInv, NEW t \in Tunnel, TakeCredit(t), pc' \in [Tunnel -> Places],
         pc[t] # "gone", \A u \in Tunnel \ {t} : pc'[u] = pc[u],
         UNCHANGED <<sent, arrived, credited, abandoned>>
  PROVE  SlotInv'
<1>1. PICK d \in credits[t] :
        /\ credits' = [credits EXCEPT ![t] = @ \ {d}]
        /\ known' = [known EXCEPT ![t] = Larger(@, d)]
        /\ Release(t, Newly(t, d))
  BY DEF TakeCredit
<1>2. /\ d \in Nat /\ d <= arrived[t] /\ known[t] \in Nat /\ slot[t] \in Nat
      /\ sent[t] \in Nat /\ arrived[t] \in Nat
      /\ known[t] <= arrived[t] /\ arrived[t] <= sent[t]
  BY DEF SlotInv, Counters, Causal
<1> DEFINE newly == Newly(t, d)
           actual == Lesser(slot[t], newly)
<1>3. /\ newly \in Nat /\ actual \in Nat /\ actual <= slot[t]
      /\ Larger(known[t], d) = known[t] + newly
      /\ Larger(known[t], d) <= arrived[t]
      /\ newly <= slot[t] => actual = newly
  BY <1>2 DEF Newly, Larger, Lesser
<1>4. slot' = [slot EXCEPT ![t] = @ - actual]
  BY <1>1 DEF Release
<1> HIDE DEF newly, actual
<1>5. /\ slot'[t] = slot[t] - actual /\ known'[t] = known[t] + newly
      /\ known'[t] <= arrived[t]
      /\ slot' \in [Tunnel -> Nat] /\ known' \in [Tunnel -> Nat]
      /\ credits' \in [Tunnel -> SUBSET Nat]
      /\ credits'[t] \subseteq credits[t]
      /\ \A u \in Tunnel \ {t} : /\ slot'[u] = slot[u] /\ known'[u] = known[u]
                                 /\ credits'[u] = credits[u]
  BY <1>1, <1>2, <1>3, <1>4 DEF SlotInv, Counters
<1>6. Counters' /\ OthersKept(t)
  BY <1>5 DEF SlotInv, Counters, OthersKept
<1>7. Causal(t)'
  BY <1>5, <1>2 DEF SlotInv, Causal
<1>8. Counted(t)'
  BY <1>2, <1>3, <1>5 DEF SlotInv, Counted
<1> QED
  BY <1>6, <1>7, <1>8, OneTunnel

LEMMA SlotStep == SlotInv /\ [Next]_vars => SlotInv'
<1> SUFFICES ASSUME SlotInv, [Next]_vars PROVE SlotInv'
  OBVIOUS
<1>1. CASE UNCHANGED vars \/ ControlTick
  BY <1>1 DEF vars, farVars, ControlTick, SlotInv, Counters, Causal, Counted
<1>2. ASSUME NEW t \in Tunnel,
             \/ Open(t) \/ TcpRead(t) \/ GatePass(t) \/ GateProbe(t)
             \/ SpinPass(t) \/ SpinBlocked(t) \/ YieldAgain(t) \/ Recover(t)
      PROVE  SlotInv'
  <2>1. /\ UNCHANGED <<slot, sent, known, arrived, credited, credits, abandoned>>
        /\ \/ pc' = pc
           \/ \E place \in Places : /\ pc' = [pc EXCEPT ![t] = place]
                                   /\ pc[t] # "gone"
    BY <1>2 DEF Open, TcpRead, GatePass, GateProbe, SpinPass, SpinBlocked,
                YieldAgain, Recover, farVars, Places
  <2> QED
    BY <2>1 DEF SlotInv, Counters, Causal, Counted
<1>3. ASSUME NEW t \in Tunnel, Close(t)
      PROVE  SlotInv'
  <2>1. /\ slot' = [slot EXCEPT ![t] = @ - Lesser(slot[t], slot[t])]
        /\ pc' = [pc EXCEPT ![t] = "gone"]
        /\ UNCHANGED <<sent, known, arrived, credited, credits, abandoned>>
    BY <1>3 DEF Close, DropSlot, Release, farVars
  <2>2. Counters' /\ OthersKept(t) /\ Causal(t)' /\ Counted(t)'
    BY <2>1 DEF SlotInv, Counters, Places, OthersKept, Causal, Counted, Lesser
  <2> QED
    BY <2>2, OneTunnel
<1>4. ASSUME NEW t \in Tunnel, GateCredit(t) \/ YieldCredit(t) \/ ServeCredit(t)
      PROVE  SlotInv'
  <2>1. /\ TakeCredit(t)
        /\ pc' \in [Tunnel -> Places] /\ pc[t] # "gone"
        /\ \A u \in Tunnel \ {t} : pc'[u] = pc[u]
        /\ UNCHANGED <<sent, arrived, credited, abandoned>>
    BY <1>4 DEF GateCredit, YieldCredit, ServeCredit, farVars, SlotInv,
                Counters, Places
  <2> QED
    BY <2>1, CreditSettles
<1>5. ASSUME NEW t \in Tunnel, YieldAbandon(t)
      PROVE  SlotInv'
  <2>1. /\ slot' = [slot EXCEPT ![t] = @ - Lesser(slot[t], slot[t])]
        /\ pc[t] = "yield"
        /\ pc' = [pc EXCEPT ![t] = "add"]
        /\ abandoned' = [abandoned EXCEPT ![t] = sent[t]]
        /\ UNCHANGED <<sent, known, arrived, credited, credits>>
    BY <1>5 DEF YieldAbandon, Release, farVars
  <2>2. Counters' /\ OthersKept(t) /\ Causal(t)' /\ Counted(t)'
    BY <2>1 DEF SlotInv, Counters, Places, OthersKept, Causal, Counted, Lesser
  <2> QED
    BY <2>2, OneTunnel
<1>6. ASSUME NEW t \in Tunnel, AddSent(t)
      PROVE  SlotInv'
  <2>1. /\ slot' = [slot EXCEPT ![t] = @ + 1] /\ sent' = [sent EXCEPT ![t] = @ + 1]
        /\ pc[t] = "add"
        /\ pc' = [pc EXCEPT ![t] = "serve"]
        /\ UNCHANGED <<known, arrived, credited, credits, abandoned>>
    BY <1>6 DEF AddSent
  <2>2. Counters' /\ OthersKept(t) /\ Causal(t)' /\ Counted(t)'
    BY <2>1 DEF SlotInv, Counters, Places, OthersKept, Causal, Counted
  <2> QED
    BY <2>2, OneTunnel
<1>7. ASSUME NEW t \in Tunnel, Deliver(t)
      PROVE  SlotInv'
  <2>1. /\ arrived[t] < sent[t] /\ arrived' = [arrived EXCEPT ![t] = @ + 1]
        /\ UNCHANGED <<slot, pc, sent, known, credited, credits, abandoned>>
    BY <1>7 DEF Deliver
  <2>2. Counters' /\ OthersKept(t) /\ Causal(t)' /\ Counted(t)'
    BY <2>1 DEF SlotInv, Counters, OthersKept, Causal, Counted
  <2> QED
    BY <2>2, OneTunnel
<1>8. ASSUME NEW t \in Tunnel, SendCredit(t)
      PROVE  SlotInv'
  <2>1. /\ credited' = [credited EXCEPT ![t] = arrived[t]]
        /\ credits' = [credits EXCEPT ![t] = @ \cup {arrived[t]}]
        /\ UNCHANGED <<slot, pc, sent, known, arrived, abandoned>>
    BY <1>8 DEF SendCredit
  <2>2. Counters' /\ OthersKept(t) /\ Causal(t)' /\ Counted(t)'
    BY <2>1 DEF SlotInv, Counters, OthersKept, Causal, Counted
  <2> QED
    BY <2>2, OneTunnel
<1> QED
  BY <1>1, <1>2, <1>3, <1>4, <1>5, <1>6, <1>7, <1>8 DEF Next, Upstream, Far

\* A tunnel that never abandoned its blocks has each one counted until its
\* credit is settled: no credit releases more, or less, than it newly
\* acknowledges (SendWindow::add_sent, settle).
THEOREM SlotsCountUnacknowledged == Spec => []InFlightCounted
<1>1. Init => SlotInv
  BY DEF Init, Zero, SlotInv, Counters, Places, Causal, Counted
<1>2. SlotInv => InFlightCounted
  BY DEF SlotInv, Counters, Causal, Counted, InFlightCounted, Active
<1> QED
  BY <1>1, <1>2, SlotStep, PTL DEF Spec

-----------------------------------------------------------------------------
(* The aggregate.                                                          *)

\* What a tunnel's own figures have to do with each other: credits are sent and
\* taken in the order of what they acknowledge, a block at the gate is still to
\* be counted, and only a live tunnel has blocks in flight.
Own(t) ==
  /\ known[t] <= credited[t] /\ credited[t] <= arrived[t] /\ arrived[t] <= sent[t]
  /\ \A d \in credits[t] : known[t] < d /\ d <= credited[t]
  /\ slot[t] <= sent[t]
  /\ pc[t] \in {"gate", "spin", "yield", "add"} => sent[t] < MaxBlocks
  /\ pc[t] \in {"new", "gone"} => slot[t] = 0

AggInv ==
  /\ TypeOK /\ CapStaysAtFloor
  /\ \A t \in Tunnel : Own(t)
  /\ inFlight = Total(slot)

\* The slots are bounded, and so can be added up.
LEMMA SlotsBounded ==
  ASSUME TypeOK, \A t \in Tunnel : Own(t)
  PROVE  slot \in [Tunnel -> 0 .. MaxBlocks]
BY WindowAssumption DEF TypeOK, Own

\* Tunnel t's slot changes and the aggregate moves with it.
LEMMA AggregateMoves ==
  ASSUME AggInv, TypeOK', NEW t \in Tunnel, \A u \in Tunnel : Own(u)',
         \A u \in Tunnel \ {t} : slot'[u] = slot[u],
         inFlight' = inFlight - slot[t] + slot'[t]
  PROVE  inFlight' = Total(slot')
<1>1. slot \in [Tunnel -> 0 .. MaxBlocks] /\ slot' \in [Tunnel -> 0 .. MaxBlocks]
  BY SlotsBounded, WindowAssumption DEF AggInv, TypeOK, Own
<1>2. \A f, g \in [Tunnel -> 0 .. MaxBlocks] :
        (\A u \in Tunnel \ {t} : g[u] = f[u]) => Total(g) = Total(f) - f[t] + g[t]
  BY WindowAssumption, TotalMoves
<1> QED
  BY <1>1, <1>2 DEF AggInv

\* A release takes the same from the slot and from the aggregate.
LEMMA ReleaseBoth ==
  ASSUME AggInv, NEW t \in Tunnel, NEW n \in Nat, Release(t, n)
  PROVE  /\ slot' \in [Tunnel -> Nat] /\ inFlight' \in Nat
         /\ slot'[t] = slot[t] - Lesser(slot[t], n) /\ slot'[t] <= slot[t]
         /\ \A u \in Tunnel \ {t} : slot'[u] = slot[u]
         /\ inFlight' = inFlight - slot[t] + slot'[t]
<1>1. slot \in [Tunnel -> 0 .. MaxBlocks]
  BY SlotsBounded DEF AggInv
<1>2. slot[t] <= inFlight /\ slot[t] \in Nat /\ inFlight \in Nat
  BY <1>1, ValueInTotal, WindowAssumption DEF AggInv, TypeOK
<1> DEFINE actual == Lesser(slot[t], n)
<1>3. actual \in Nat /\ actual <= slot[t] /\ Lesser(inFlight, actual) = actual
  BY <1>2 DEF Lesser
<1>4. slot' = [slot EXCEPT ![t] = @ - actual] /\ inFlight' = inFlight - actual
  BY <1>3 DEF Release
<1> HIDE DEF actual
<1>5. /\ slot'[t] = slot[t] - actual
      /\ \A u \in Tunnel \ {t} : slot'[u] = slot[u]
      /\ slot' \in [Tunnel -> Nat]
  BY <1>1, <1>2, <1>3, <1>4
<1>6. inFlight' = inFlight - slot[t] + slot'[t] /\ inFlight' \in Nat /\ slot'[t] <= slot[t]
  BY <1>2, <1>3, <1>4, <1>5
<1> QED
  BY <1>5, <1>6 DEF actual

\* The others' figures and their types do not change in a step of t.
LEMMA OwnOf ==
  ASSUME AggInv, NEW t \in Tunnel, Own(t)',
         \A u \in Tunnel \ {t} :
           /\ known'[u] = known[u] /\ credited'[u] = credited[u]
           /\ arrived'[u] = arrived[u] /\ sent'[u] = sent[u]
           /\ credits'[u] = credits[u] /\ slot'[u] = slot[u] /\ pc'[u] = pc[u]
  PROVE  \A u \in Tunnel : Own(u)'
BY DEF AggInv, Own

\* The steps that only move the upstream task, or the far side.
LEMMA MoveKeeps ==
  ASSUME AggInv, NEW t \in Tunnel,
         \/ Open(t) \/ TcpRead(t) \/ GatePass(t) \/ GateProbe(t)
         \/ SpinPass(t) \/ SpinBlocked(t) \/ YieldAgain(t) \/ Recover(t)
  PROVE  AggInv'
<1>1. UNCHANGED <<windowVars, inFlight, slot, sent, known, arrived, credited, credits, abandoned>>
  BY DEF Open, TcpRead, GatePass, GateProbe, SpinPass, SpinBlocked, YieldAgain, Recover,
         farVars
<1>2. /\ fresh' \in [Tunnel -> BOOLEAN]
      /\ lost' \in [Tunnel -> SUBSET (0 .. MaxBlocks - 1)]
  BY DEF Open, TcpRead, GatePass, GateProbe, SpinPass, SpinBlocked, YieldAgain, Recover,
         farVars, AggInv, TypeOK
<1>3. \/ pc' = pc
      \/ \E place \in {"serve", "gate", "spin", "yield", "add"} :
           /\ pc' = [pc EXCEPT ![t] = place]
           /\ \/ pc[t] \in {"gate", "spin", "yield", "add"}
              \/ sent[t] < MaxBlocks \/ place = "serve"
           /\ pc[t] # "gone"
  BY DEF Open, TcpRead, GatePass, GateProbe, SpinPass, SpinBlocked, YieldAgain, Recover
<1>4. pc' \in [Tunnel -> Places]
  BY <1>3 DEF AggInv, TypeOK, Places
<1>5. TypeOK'
  BY <1>1, <1>2, <1>4 DEF AggInv, TypeOK, windowVars
<1>6. \A u \in Tunnel : Own(u)'
  BY <1>1, <1>3 DEF AggInv, TypeOK, Own
<1> QED
  BY <1>1, <1>5, <1>6 DEF AggInv, CapStaysAtFloor, CeilingPinned, windowVars

\* The far side delivers and acknowledges.
LEMMA FarKeeps ==
  ASSUME AggInv, NEW t \in Tunnel, Far(t)
  PROVE  AggInv'
<1>1. /\ UNCHANGED <<windowVars, inFlight, slot, pc, sent, fresh, known, lost, abandoned>>
      /\ \/ /\ arrived[t] < sent[t] /\ arrived' = [arrived EXCEPT ![t] = @ + 1]
            /\ UNCHANGED <<credited, credits>>
         \/ /\ arrived[t] # credited[t]
            /\ credited' = [credited EXCEPT ![t] = arrived[t]]
            /\ credits' = [credits EXCEPT ![t] = @ \cup {arrived[t]}]
            /\ UNCHANGED arrived
  BY DEF Far, Deliver, SendCredit
<1>2. /\ arrived[t] \in 0 .. MaxBlocks /\ credited[t] \in 0 .. MaxBlocks
      /\ sent[t] \in 0 .. MaxBlocks /\ known[t] \in 0 .. MaxBlocks /\ Own(t)
  BY DEF AggInv, TypeOK
<1>3. arrived[t] < sent[t] => arrived[t] + 1 \in 0 .. MaxBlocks
  BY <1>2, WindowAssumption
<1>4. arrived[t] # credited[t] => credited[t] < arrived[t] /\ arrived[t] \in 1 .. MaxBlocks
  BY <1>2 DEF Own
<1>5. TypeOK'
  BY <1>1, <1>2, <1>3, <1>4 DEF AggInv, TypeOK, windowVars
<1>6. Own(t)'
  BY <1>1, <1>2, <1>4, <1>5 DEF Own, TypeOK, AggInv
<1>7. \A u \in Tunnel : Own(u)'
  BY <1>1, <1>6, OwnOf DEF AggInv, TypeOK
<1> QED
  BY <1>1, <1>5, <1>7 DEF AggInv, CapStaysAtFloor, CeilingPinned, windowVars

\* A credit that is taken acknowledges something new, and so takes at least one
\* block from a slot that holds any.
LEMMA CreditReleases ==
  ASSUME AggInv, NEW t \in Tunnel, TakeCredit(t)
  PROVE  /\ slot' \in [Tunnel -> Nat] /\ inFlight' \in Nat
         /\ \A u \in Tunnel \ {t} : slot'[u] = slot[u]
         /\ inFlight' = inFlight - slot[t] + slot'[t]
         /\ slot'[t] < slot[t] \/ (slot[t] = 0 /\ slot'[t] = 0)
         /\ known' \in [Tunnel -> 0 .. MaxBlocks]
         /\ credits' \in [Tunnel -> SUBSET (1 .. MaxBlocks)]
         /\ fresh' \in [Tunnel -> BOOLEAN]
         /\ \A u \in Tunnel \ {t} : known'[u] = known[u] /\ credits'[u] = credits[u]
         /\ known'[t] <= credited[t]
         /\ \A d \in credits'[t] : known'[t] < d /\ d <= credited[t]
<1>1. PICK d \in credits[t] :
        /\ \A e \in credits[t] : d <= e
        /\ credits' = [credits EXCEPT ![t] = @ \ {d}]
        /\ known' = [known EXCEPT ![t] = Larger(@, d)]
        /\ Release(t, Newly(t, d))
        /\ fresh' = [fresh EXCEPT ![t] = TRUE]
  BY DEF TakeCredit
<1>2. /\ d \in 1 .. MaxBlocks /\ known[t] \in 0 .. MaxBlocks /\ known[t] < d
      /\ d <= credited[t] /\ slot[t] \in Nat /\ MaxBlocks \in Nat
  BY WindowAssumption DEF AggInv, TypeOK, Own
<1> DEFINE newly == Newly(t, d)
<1>3. newly \in Nat /\ newly >= 1 /\ Larger(known[t], d) = d
  BY <1>2 DEF Newly, Larger
<1>4. known' = [known EXCEPT ![t] = d]
  BY <1>1, <1>3
<1>5. Release(t, newly)
  BY <1>1
<1> HIDE DEF newly
<1>6. /\ slot' \in [Tunnel -> Nat] /\ inFlight' \in Nat
      /\ slot'[t] = slot[t] - Lesser(slot[t], newly)
      /\ \A u \in Tunnel \ {t} : slot'[u] = slot[u]
      /\ inFlight' = inFlight - slot[t] + slot'[t]
  BY <1>3, <1>5, ReleaseBoth
<1>7. slot'[t] < slot[t] \/ (slot[t] = 0 /\ slot'[t] = 0)
  BY <1>2, <1>3, <1>6 DEF Lesser
<1>8. /\ known' \in [Tunnel -> 0 .. MaxBlocks]
      /\ known'[t] = d
      /\ \A u \in Tunnel \ {t} : known'[u] = known[u]
  BY <1>2, <1>4 DEF AggInv, TypeOK
<1>9. /\ credits' \in [Tunnel -> SUBSET (1 .. MaxBlocks)]
      /\ credits'[t] = credits[t] \ {d}
      /\ \A u \in Tunnel \ {t} : credits'[u] = credits[u]
  BY <1>1 DEF AggInv, TypeOK
<1>10. \A e \in credits'[t] : d < e /\ e <= credited[t]
  BY <1>1, <1>2, <1>9 DEF AggInv, TypeOK, Own
<1>11. fresh' \in [Tunnel -> BOOLEAN]
  BY <1>1 DEF AggInv, TypeOK
<1> QED
  BY <1>2, <1>6, <1>7, <1>8, <1>9, <1>10, <1>11

LEMMA CreditKeeps ==
  ASSUME AggInv, NEW t \in Tunnel, GateCredit(t) \/ YieldCredit(t) \/ ServeCredit(t)
  PROVE  AggInv'
<1>1. /\ TakeCredit(t)
      /\ UNCHANGED <<windowVars, sent, farVars, abandoned>>
      /\ pc[t] \notin {"new", "gone"}
      /\ pc' = pc \/ (pc[t] = "yield" /\ pc' = [pc EXCEPT ![t] = "add"])
  BY DEF GateCredit, YieldCredit, ServeCredit
<1>2. pc' \in [Tunnel -> Places] /\ \A u \in Tunnel \ {t} : pc'[u] = pc[u]
  BY <1>1 DEF AggInv, TypeOK, Places
<1>3. TypeOK'
  BY <1>1, <1>2, CreditReleases DEF AggInv, TypeOK, windowVars, farVars
<1>4. slot'[t] <= slot[t] /\ slot[t] \in Nat /\ slot'[t] \in Nat /\ sent[t] \in Nat
  BY <1>1, CreditReleases DEF AggInv, TypeOK
<1>5. slot'[t] <= sent'[t]
  BY <1>1, <1>4 DEF AggInv, Own
<1>6. /\ known'[t] <= credited'[t]
      /\ \A d \in credits'[t] : known'[t] < d /\ d <= credited'[t]
      /\ credited'[t] <= arrived'[t] /\ arrived'[t] <= sent'[t]
  BY <1>1, CreditReleases DEF AggInv, Own, farVars
<1>7. /\ pc'[t] \in {"gate", "spin", "yield", "add"} => sent'[t] < MaxBlocks
      /\ pc'[t] \notin {"new", "gone"}
  BY <1>1 DEF AggInv, TypeOK, Own
<1>8. Own(t)'
  BY <1>5, <1>6, <1>7 DEF Own
<1>9. \A u \in Tunnel : Own(u)'
  BY <1>1, <1>2, <1>8, OwnOf, CreditReleases DEF farVars
<1>10. inFlight' = Total(slot')
  BY <1>1, <1>3, <1>9, AggregateMoves, CreditReleases
<1> QED
  BY <1>1, <1>3, <1>9, <1>10 DEF AggInv, CapStaysAtFloor, CeilingPinned, windowVars

\* A tunnel that ends, or gives its blocks up, empties its slot.
LEMMA EmptyKeeps ==
  ASSUME AggInv, NEW t \in Tunnel, Close(t) \/ YieldAbandon(t)
  PROVE  AggInv' /\ slot'[t] = 0 /\ \A u \in Tunnel \ {t} : slot'[u] = slot[u]
<1>1. /\ Release(t, slot[t])
      /\ UNCHANGED <<windowVars, sent, fresh, known, farVars, credits>>
      /\ abandoned' = abandoned \/ abandoned' = [abandoned EXCEPT ![t] = sent[t]]
      /\ \/ pc' = [pc EXCEPT ![t] = "gone"]
         \/ pc[t] = "yield" /\ pc' = [pc EXCEPT ![t] = "add"]
  BY DEF Close, DropSlot, YieldAbandon
<1>2. slot[t] \in Nat /\ slot[t] - Lesser(slot[t], slot[t]) = 0 /\ sent[t] \in 0 .. MaxBlocks
  BY DEF AggInv, TypeOK, Lesser
<1>3. /\ slot' \in [Tunnel -> Nat] /\ inFlight' \in Nat /\ slot'[t] = 0
      /\ \A u \in Tunnel \ {t} : slot'[u] = slot[u]
      /\ inFlight' = inFlight - slot[t] + slot'[t]
  BY <1>1, <1>2, ReleaseBoth
<1>4. /\ pc' \in [Tunnel -> Places] /\ \A u \in Tunnel \ {t} : pc'[u] = pc[u]
      /\ pc'[t] = "gone" \/ (pc[t] = "yield" /\ pc'[t] = "add")
  BY <1>1 DEF AggInv, TypeOK, Places
<1>5. abandoned' \in [Tunnel -> 0 .. MaxBlocks]
  BY <1>1, <1>2 DEF AggInv, TypeOK
<1>6. TypeOK'
  BY <1>1, <1>3, <1>4, <1>5 DEF AggInv, TypeOK, windowVars, farVars
<1>7. Own(t)'
  BY <1>1, <1>2, <1>3, <1>4 DEF AggInv, Own, farVars
<1>8. \A u \in Tunnel : Own(u)'
  BY <1>1, <1>3, <1>4, <1>7, OwnOf DEF farVars
<1>9. inFlight' = Total(slot')
  BY <1>3, <1>6, <1>8, AggregateMoves
<1> QED
  BY <1>1, <1>3, <1>6, <1>8, <1>9 DEF AggInv, CapStaysAtFloor, CeilingPinned, windowVars

\* add_sent raises both counts by one.
LEMMA AddKeeps ==
  ASSUME AggInv, NEW t \in Tunnel, AddSent(t)
  PROVE  AggInv'
<1>1. /\ pc[t] = "add" /\ pc' = [pc EXCEPT ![t] = "serve"]
      /\ inFlight' = inFlight + 1
      /\ slot' = [slot EXCEPT ![t] = @ + 1]
      /\ sent' = [sent EXCEPT ![t] = @ + 1]
      /\ lost' = lost \/ lost' = [lost EXCEPT ![t] = @ \cup {sent[t]}]
      /\ UNCHANGED <<windowVars, fresh, known, arrived, credited, credits, abandoned>>
  BY DEF AddSent
<1>2. /\ sent[t] \in 0 .. MaxBlocks - 1 /\ slot[t] \in Nat /\ slot[t] <= sent[t]
      /\ inFlight \in Nat /\ MaxBlocks \in Nat
  BY <1>1, WindowAssumption DEF AggInv, TypeOK, Own
<1>3. /\ slot' \in [Tunnel -> Nat] /\ slot'[t] = slot[t] + 1
      /\ \A u \in Tunnel \ {t} : slot'[u] = slot[u]
  BY <1>1, <1>2 DEF AggInv, TypeOK
<1>4. /\ sent' \in [Tunnel -> 0 .. MaxBlocks] /\ sent'[t] = sent[t] + 1
      /\ \A u \in Tunnel \ {t} : sent'[u] = sent[u]
  BY <1>1, <1>2 DEF AggInv, TypeOK
<1>5. lost' \in [Tunnel -> SUBSET (0 .. MaxBlocks - 1)]
  BY <1>1, <1>2 DEF AggInv, TypeOK
<1>6. /\ pc' \in [Tunnel -> Places] /\ pc'[t] = "serve"
      /\ \A u \in Tunnel \ {t} : pc'[u] = pc[u]
  BY <1>1 DEF AggInv, TypeOK, Places
<1>7. inFlight' \in Nat /\ inFlight' = inFlight - slot[t] + slot'[t]
  BY <1>1, <1>2, <1>3
<1>8. TypeOK'
  BY <1>1, <1>3, <1>4, <1>5, <1>6, <1>7 DEF AggInv, TypeOK, windowVars
<1>9. Own(t)'
  <2>1. /\ known[t] <= credited[t] /\ credited[t] <= arrived[t] /\ arrived[t] <= sent[t]
        /\ \A d \in credits[t] : known[t] < d /\ d <= credited[t]
        /\ arrived[t] \in Nat
    BY DEF AggInv, TypeOK, Own
  <2> QED
    BY <1>1, <1>2, <1>3, <1>4, <1>6, <2>1 DEF Own
<1>10. \A u \in Tunnel : Own(u)'
  BY <1>1, <1>3, <1>4, <1>6, <1>9, OwnOf
<1>11. inFlight' = Total(slot')
  BY <1>3, <1>7, <1>8, <1>10, AggregateMoves
<1> QED
  BY <1>1, <1>8, <1>10, <1>11 DEF AggInv, CapStaysAtFloor, CeilingPinned, windowVars

LEMMA AggStep == AggInv /\ [Next]_vars => AggInv'
<1> SUFFICES ASSUME AggInv, [Next]_vars PROVE AggInv'
  OBVIOUS
<1>1. CASE UNCHANGED vars
  BY <1>1 DEF vars, windowVars, farVars, AggInv, TypeOK, CapStaysAtFloor, CeilingPinned, Own
<1>2. CASE ControlTick
  <2>1. UNCHANGED <<inFlight, slot, pc, sent, fresh, known, farVars, credits, abandoned>>
    BY <1>2 DEF ControlTick
  <2>2. CapStaysAtFloor'
    BY CeilingStep DEF AggInv
  <2>3. ceiling' \in Nat /\ minCwnd' \in Nat
    BY <2>2, WindowAssumption DEF CapStaysAtFloor, CeilingPinned
  <2> QED
    BY <2>1, <2>2, <2>3 DEF farVars, AggInv, TypeOK, Own
<1> QED
  BY <1>1, <1>2, MoveKeeps, FarKeeps, CreditKeeps, EmptyKeeps, AddKeeps
  DEF Next, Upstream

LEMMA AggHolds == Spec => []AggInv
<1>1. Init => AggInv
  <2> SUFFICES ASSUME Init PROVE AggInv
    OBVIOUS
  <2>1. TypeOK /\ \A t \in Tunnel : Own(t)
    BY WindowAssumption DEF Init, Zero, TypeOK, Places, Own
  <2>2. slot \in [Tunnel -> Nat] /\ \A t \in Tunnel : slot[t] = 0
    BY DEF Init, Zero
  <2>3. \A f \in [Tunnel -> Nat] : (\A t \in Tunnel : f[t] = 0) => Total(f) = 0
    BY ZeroTotal
  <2> QED
    BY <2>1, <2>2, <2>3 DEF Init, AggInv, CapStaysAtFloor, CeilingPinned
<1> QED
  BY <1>1, AggStep, PTL DEF Spec

\* The variables keep their types: no release takes either count below zero
\* (saturating_release).
THEOREM TypeCorrect == Spec => []TypeOK
<1>1. AggInv => TypeOK
  BY DEF AggInv
<1> QED
  BY <1>1, AggHolds, PTL

\* The aggregate is what the live tunnels hold, through every close, abandon and
\* credit (SendWindow::add_sent, settle, TunnelSlot's Drop).
THEOREM AggregateExact == Spec => []AggregateMatches
<1>1. AggInv => AggregateMatches
  <2> SUFFICES ASSUME AggInv PROVE AggregateMatches
    OBVIOUS
  <2>1. slot \in [Tunnel -> 0 .. MaxBlocks] /\ Active \subseteq Tunnel
    BY SlotsBounded DEF AggInv, Active
  <2>2. \A t \in Tunnel \ Active : slot[t] = 0
    BY DEF AggInv, Own, Active
  <2> QED
    BY <2>1, <2>2, TotalOfHolders, WindowAssumption DEF AggInv, AggregateMatches
<1> QED
  BY <1>1, AggHolds, PTL

-----------------------------------------------------------------------------
(* The overshoot.                                                          *)

\* What the tunnels of S hold, and which of them are past the checks.
Held(S)   == Total([u \in S |-> slot[u]])
Adding(S) == {u \in S : pc[u] = "add"}

OverBy(S) == Held(S) + Cardinality(Adding(S)) <= FloorBlocks + Cardinality(S) - 1

\* Not only all the tunnels together: with a tunnel that holds nothing left out
\* of S, the others still fit one block less.
OverInv == \A S \in SUBSET Tunnel : S # {} => OverBy(S)

\* The figures of a set of tunnels can be counted.
LEMMA Figures ==
  ASSUME AggInv, NEW S \in SUBSET Tunnel
  PROVE  /\ IsFiniteSet(S) /\ Cardinality(S) \in Nat
         /\ [u \in S |-> slot[u]] \in [S -> 0 .. MaxBlocks]
         /\ Held(S) \in Nat /\ Held(S) <= inFlight
         /\ IsFiniteSet(Adding(S)) /\ Cardinality(Adding(S)) \in Nat
         /\ Cardinality(Adding(S)) <= Cardinality(S)
<1>1. slot \in [Tunnel -> 0 .. MaxBlocks] /\ MaxBlocks \in Nat /\ IsFiniteSet(Tunnel)
  BY SlotsBounded, WindowAssumption DEF AggInv
<1>2. IsFiniteSet(S) /\ Cardinality(S) \in Nat
  BY <1>1, FS_Subset, FS_CardinalityType
<1>3. \A f \in [Tunnel -> 0 .. MaxBlocks] :
        /\ Total([u \in S |-> f[u]]) \in Nat
        /\ Total([u \in S |-> f[u]]) <= Total(f)
  BY <1>1, TotalOfFewer
<1>4. Held(S) \in Nat /\ Held(S) <= inFlight
  BY <1>1, <1>3 DEF AggInv, Held
<1>5. Adding(S) \in SUBSET S
  BY DEF Adding
<1> QED
  BY <1>1, <1>2, <1>4, <1>5, FS_Subset, FS_CardinalityType

\* A step that adds no block, and lets no tunnel past the checks.
LEMMA QuietKeeps ==
  ASSUME AggInv, AggInv', NEW S \in SUBSET Tunnel, OverBy(S),
         \A u \in S : slot'[u] <= slot[u],
         \A u \in S : pc'[u] = "add" => pc[u] = "add"
  PROVE  OverBy(S)'
<1> DEFINE before == [u \in S |-> slot[u]]
           after  == [u \in S |-> slot'[u]]
<1>1. /\ IsFiniteSet(S) /\ Cardinality(S) \in Nat /\ before \in [S -> 0 .. MaxBlocks]
      /\ Held(S) \in Nat /\ IsFiniteSet(Adding(S)) /\ Cardinality(Adding(S)) \in Nat
  BY Figures
<1>2. slot' \in [Tunnel -> 0 .. MaxBlocks] /\ MaxBlocks \in Nat
  BY WindowAssumption DEF AggInv, TypeOK, Own
<1>3. after \in [S -> 0 .. MaxBlocks] /\ \A u \in S : after[u] <= before[u]
  BY <1>2
<1>4. \A f, g \in [S -> 0 .. MaxBlocks] : (\A u \in S : g[u] <= f[u]) => Total(g) <= Total(f)
  BY <1>1, <1>2, TotalBelow
<1>5. Total(after) <= Total(before) /\ Total(after) \in Nat
  <2> HIDE DEF before, after
  <2> QED
    BY <1>1, <1>2, <1>3, <1>4, UnitsFinite
<1>6. Held(S)' <= Held(S) /\ Held(S)' \in Nat
  BY <1>5 DEF Held
<1>7. Adding(S)' \in SUBSET Adding(S)
  BY DEF Adding
<1>8. Cardinality(Adding(S)') <= Cardinality(Adding(S)) /\ Cardinality(Adding(S)') \in Nat
  BY <1>1, <1>7, FS_Subset, FS_CardinalityType
<1>9. Cardinality(Adding(S))' = Cardinality(Adding(S)')
  OBVIOUS
<1> QED
  BY <1>1, <1>6, <1>8, <1>9, WindowAssumption DEF OverBy

\* How the figures of S follow the slot of one of its tunnels.
LEMMA HeldMoves ==
  ASSUME AggInv, AggInv', NEW S \in SUBSET Tunnel, NEW t \in S,
         \A u \in Tunnel \ {t} : slot'[u] = slot[u]
  PROVE  Held(S)' = Held(S) - slot[t] + slot'[t]
<1> DEFINE before == [u \in S |-> slot[u]]
           after  == [u \in S |-> slot'[u]]
<1>1. IsFiniteSet(S) /\ before \in [S -> 0 .. MaxBlocks] /\ MaxBlocks \in Nat
  BY Figures, WindowAssumption
<1>2. slot' \in [Tunnel -> 0 .. MaxBlocks]
  BY WindowAssumption DEF AggInv, TypeOK, Own
<1>3. after \in [S -> 0 .. MaxBlocks] /\ \A u \in S \ {t} : after[u] = before[u]
  BY <1>2
<1>4. \A f, g \in [S -> 0 .. MaxBlocks] :
        (\A u \in S \ {t} : g[u] = f[u]) => Total(g) = Total(f) - f[t] + g[t]
  BY <1>1, TotalMoves
<1>5. Total(after) = Total(before) - before[t] + after[t]
  <2> HIDE DEF before, after
  <2> QED
    BY <1>1, <1>3, <1>4
<1> QED
  BY <1>5 DEF Held

\* Past the check of the spin loop: the window had room for one.
LEMMA PassKeeps ==
  ASSUME AggInv, AggInv', NEW t \in Tunnel, SpinPass(t), NEW S \in SUBSET Tunnel, S # {}
  PROVE  OverBy(S)'
<1>1. inFlight < FloorBlocks /\ inFlight' = inFlight /\ slot' = slot
  BY DEF SpinPass, HasCwndRoom, AggInv, CapStaysAtFloor, CeilingPinned
<1>2. inFlight \in Nat /\ FloorBlocks \in Nat
  BY WindowAssumption DEF AggInv, TypeOK
<1>3. Held(S) <= inFlight /\ Held(S) \in Nat /\ Cardinality(S) \in Nat /\ IsFiniteSet(S)
  BY Figures
<1>4. Held(S)' = Held(S)
  BY <1>1 DEF Held
<1>5. Adding(S)' \in SUBSET S
  BY DEF Adding
<1>6. Cardinality(Adding(S)') \in Nat /\ Cardinality(Adding(S)') <= Cardinality(S)
  BY <1>3, <1>5, FS_Subset, FS_CardinalityType
<1> QED
  BY <1>1, <1>2, <1>3, <1>4, <1>6 DEF OverBy

\* The block is counted, and no longer waits to be.
LEMMA CountKeeps ==
  ASSUME AggInv, AggInv', NEW t \in Tunnel, AddSent(t), NEW S \in SUBSET Tunnel, OverBy(S)
  PROVE  OverBy(S)'
<1>1. /\ pc[t] = "add" /\ pc' = [pc EXCEPT ![t] = "serve"]
      /\ slot' = [slot EXCEPT ![t] = @ + 1]
  BY DEF AddSent
<1>2. /\ slot[t] \in Nat /\ slot'[t] = slot[t] + 1 /\ pc'[t] = "serve"
      /\ \A u \in Tunnel \ {t} : slot'[u] = slot[u] /\ pc'[u] = pc[u]
  BY <1>1 DEF AggInv, TypeOK
<1>3. CASE t \notin S
  <2>1. \A u \in S : slot'[u] <= slot[u] /\ (pc'[u] = "add" => pc[u] = "add")
    BY <1>2, <1>3 DEF AggInv, TypeOK
  <2> QED
    BY <2>1, QuietKeeps
<1>4. CASE t \in S
  <2>1. Held(S)' = Held(S) + 1
    <3>1. Held(S)' = Held(S) - slot[t] + slot'[t] /\ Held(S) \in Nat
      BY <1>2, <1>4, HeldMoves, Figures
    <3> QED
      BY <3>1, <1>2
  <2>2. Adding(S)' = Adding(S) \ {t} /\ t \in Adding(S)
    BY <1>1, <1>2, <1>4 DEF Adding
  <2>3. /\ IsFiniteSet(Adding(S)) /\ Cardinality(Adding(S)) \in Nat
        /\ Held(S) \in Nat /\ Cardinality(S) \in Nat
    BY Figures
  <2>4. Cardinality(Adding(S)') = Cardinality(Adding(S)) - 1
    BY <2>2, <2>3, FS_RemoveElement
  <2> QED
    BY <2>1, <2>3, <2>4, WindowAssumption DEF OverBy
<1> QED
  BY <1>3, <1>4

\* A tunnel that leaves the spin loop for another reason gives a block up, or
\* holds none.
LEMMA YieldKeeps ==
  ASSUME AggInv, AggInv', OverInv, NEW t \in Tunnel, NEW S \in SUBSET Tunnel, S # {},
         pc[t] = "yield", pc' = [pc EXCEPT ![t] = "add"],
         \A u \in Tunnel \ {t} : slot'[u] = slot[u],
         slot'[t] < slot[t] \/ (slot[t] = 0 /\ slot'[t] = 0)
  PROVE  OverBy(S)'
<1>1. /\ slot[t] \in Nat /\ slot'[t] \in Nat /\ pc'[t] = "add"
      /\ \A u \in Tunnel \ {t} : pc'[u] = pc[u]
      /\ FloorBlocks \in Nat \ {0}
  BY WindowAssumption DEF AggInv, TypeOK
<1>2. OverBy(S)
  BY DEF OverInv
<1>3. CASE t \notin S
  <2>1. \A u \in S : slot'[u] <= slot[u] /\ (pc'[u] = "add" => pc[u] = "add")
    BY <1>1, <1>3 DEF AggInv, TypeOK
  <2> QED
    BY <1>2, <2>1, QuietKeeps
<1>4. ASSUME t \in S PROVE OverBy(S)'
  <2>1. /\ IsFiniteSet(S) /\ Cardinality(S) \in Nat /\ Held(S) \in Nat
        /\ IsFiniteSet(Adding(S)) /\ Cardinality(Adding(S)) \in Nat
    BY Figures
  <2>2. Held(S)' = Held(S) - slot[t] + slot'[t]
    BY <1>4, HeldMoves
  <2>3. Adding(S)' = Adding(S) \cup {t} /\ t \notin Adding(S)
    BY <1>1, <1>4 DEF Adding
  <2>4. Cardinality(Adding(S)') = Cardinality(Adding(S)) + 1
    BY <2>1, <2>3, FS_AddElement
  <2>5. CASE slot'[t] < slot[t]
    BY <1>1, <1>2, <2>1, <2>2, <2>4, <2>5 DEF OverBy
  <2>6. CASE slot[t] = 0 /\ slot'[t] = 0
    <3> DEFINE R == S \ {t}
    <3>1. R \in SUBSET Tunnel /\ Cardinality(R) = Cardinality(S) - 1
      BY <1>4, <2>1, FS_RemoveElement
    <3>2. Adding(R) = Adding(S)
      BY <2>3 DEF Adding
    <3>3. Held(R) = Held(S)
      <4>1. \A f \in [S -> Nat] : (\A u \in S \ R : f[u] = 0)
              => Total([u \in R |-> f[u]]) = Total(f)
        BY TotalOfHolders
      <4>2. [u \in S |-> slot[u]] \in [S -> Nat]
        BY DEF AggInv, TypeOK
      <4>3. [u \in R |-> [v \in S |-> slot[v]][u]] = [u \in R |-> slot[u]]
        OBVIOUS
      <4> QED
        BY <4>1, <4>2, <4>3, <2>6 DEF Held
    <3>4. CASE R = {}
      <4>1. Adding(S) = {} /\ Cardinality(Adding(S)) = 0 /\ Cardinality(S) = 1
        BY <2>1, <3>1, <3>2, <3>4, FS_EmptySet DEF Adding
      <4>2. Held(S) = 0
        <5>1. \A f \in [R -> Nat] : (\A u \in R : f[u] = 0) => Total(f) = 0
          BY ZeroTotal
        <5>2. [u \in R |-> slot[u]] \in [R -> Nat]
          BY <3>4
        <5> QED
          BY <5>1, <5>2, <3>3, <3>4 DEF Held
      <4> QED
        BY <1>1, <2>2, <2>4, <2>6, <4>1, <4>2 DEF OverBy
    <3>5. CASE R # {}
      <4>1. OverBy(R)
        BY <3>1, <3>5 DEF OverInv
      <4>2. Held(S) + Cardinality(Adding(S)) <= FloorBlocks + (Cardinality(S) - 1) - 1
        BY <3>1, <3>2, <3>3, <4>1 DEF OverBy
      <4> QED
        BY <1>1, <2>1, <2>2, <2>4, <2>6, <4>2 DEF OverBy
    <3> QED
      BY <3>4, <3>5
  <2> QED
    BY <2>5, <2>6
<1> QED
  BY <1>3, <1>4

LEMMA OverStep == AggInv /\ AggInv' /\ OverInv /\ [Next]_vars => OverInv'
<1> SUFFICES ASSUME AggInv, AggInv', OverInv, [Next]_vars, NEW S \in SUBSET Tunnel, S # {}
             PROVE  OverBy(S)'
  BY DEF OverInv
<1>1. OverBy(S)
  BY DEF OverInv
<1>2. CASE UNCHANGED vars \/ ControlTick
  <2>1. slot' = slot /\ pc' = pc
    BY <1>2 DEF vars, ControlTick
  <2> QED
    BY <1>1, <2>1, QuietKeeps DEF AggInv, TypeOK
<1>3. ASSUME NEW t \in Tunnel,
             \/ Open(t) \/ TcpRead(t) \/ GatePass(t) \/ GateProbe(t)
             \/ SpinBlocked(t) \/ YieldAgain(t) \/ Recover(t) \/ Far(t)
      PROVE  OverBy(S)'
  <2>1. /\ slot' = slot
        /\ pc' = pc \/ \E place \in Places \ {"add"} : pc' = [pc EXCEPT ![t] = place]
    BY <1>3 DEF Open, TcpRead, GatePass, GateProbe, SpinBlocked, YieldAgain,
                Recover, Far, Deliver, SendCredit, Places
  <2>2. \A u \in S : slot'[u] <= slot[u] /\ (pc'[u] = "add" => pc[u] = "add")
    BY <2>1 DEF AggInv, TypeOK
  <2> QED
    BY <1>1, <2>2, QuietKeeps
<1>4. ASSUME NEW t \in Tunnel, Close(t) \/ GateCredit(t) \/ ServeCredit(t)
      PROVE  OverBy(S)'
  <2>1. pc' = pc \/ pc' = [pc EXCEPT ![t] = "gone"]
    BY <1>4 DEF Close, GateCredit, ServeCredit
  <2>2. slot'[t] <= slot[t] /\ \A u \in Tunnel \ {t} : slot'[u] = slot[u]
    BY <1>4, EmptyKeeps, CreditReleases DEF GateCredit, ServeCredit, AggInv, TypeOK
  <2>3. \A u \in S : slot'[u] <= slot[u]
    BY <2>2 DEF AggInv, TypeOK
  <2>4. \A u \in S : pc'[u] = "add" => pc[u] = "add"
    BY <2>1 DEF AggInv, TypeOK
  <2> QED
    BY <1>1, <2>3, <2>4, QuietKeeps
<1>5. ASSUME NEW t \in Tunnel, SpinPass(t)
      PROVE  OverBy(S)'
  BY <1>5, PassKeeps
<1>6. ASSUME NEW t \in Tunnel, AddSent(t)
      PROVE  OverBy(S)'
  BY <1>1, <1>6, CountKeeps
<1>7. ASSUME NEW t \in Tunnel, YieldCredit(t) \/ YieldAbandon(t)
      PROVE  OverBy(S)'
  <2>1. pc[t] = "yield" /\ pc' = [pc EXCEPT ![t] = "add"]
    BY <1>7 DEF YieldCredit, YieldAbandon
  <2>2. /\ slot'[t] < slot[t] \/ (slot[t] = 0 /\ slot'[t] = 0)
        /\ \A u \in Tunnel \ {t} : slot'[u] = slot[u]
    BY <1>7, EmptyKeeps, CreditReleases DEF YieldCredit, AggInv, TypeOK
  <2> QED
    BY <2>1, <2>2, YieldKeeps
<1> QED
  BY <1>2, <1>3, <1>4, <1>5, <1>6, <1>7 DEF Next, Upstream

\* However the checks and the accounting of the tunnels interleave, and however
\* many stalled tunnels send with no room at all, the window is overshot by at
\* most one block for each tunnel but one (has_cwnd_room, add_sent, the spin loop
\* of run_fec_tunnel).
THEOREM OvershootLimited == Spec => []OvershootBounded
<1>1. Init /\ AggInv => OverInv
  <2> SUFFICES ASSUME Init, AggInv, NEW S \in SUBSET Tunnel, S # {} PROVE OverBy(S)
    BY DEF OverInv
  <2>1. Adding(S) = {} /\ Cardinality(Adding(S)) = 0
    BY FS_EmptySet DEF Init, Adding
  <2>2. Held(S) \in Nat /\ Held(S) <= inFlight /\ Cardinality(S) \in Nat /\ IsFiniteSet(S)
    BY Figures
  <2>3. Cardinality(S) # 0
    BY <2>2, FS_EmptySet
  <2> QED
    BY <2>1, <2>2, <2>3, WindowAssumption DEF Init, OverBy
<1>2. AggInv /\ OverInv => OvershootBounded
  <2> SUFFICES ASSUME AggInv, OverInv PROVE OvershootBounded
    OBVIOUS
  <2>1. /\ Tunnel \in SUBSET Tunnel /\ Cardinality(Tunnel) \in Nat
        /\ Cardinality(Adding(Tunnel)) \in Nat /\ Held(Tunnel) \in Nat
    BY Figures
  <2>2. Held(Tunnel) = inFlight
    <3>1. [u \in Tunnel |-> slot[u]] = slot
      BY DEF AggInv, TypeOK
    <3> QED
      BY <3>1 DEF AggInv, Held
  <2>3. ceiling = FloorBlocks /\ FloorBlocks \in Nat \ {0}
    BY WindowAssumption DEF AggInv, CapStaysAtFloor, CeilingPinned
  <2>4. CASE Tunnel # {}
    <3>1. OverBy(Tunnel)
      BY <2>1, <2>4 DEF OverInv
    <3> QED
      BY <2>1, <2>2, <2>3, <3>1 DEF OverBy, OvershootBounded
  <2>5. CASE Tunnel = {}
    <3>1. inFlight = 0
      <4>1. slot \in [Tunnel -> Nat] /\ \A t \in Tunnel : slot[t] = 0
        BY <2>5 DEF AggInv, TypeOK
      <4>2. \A f \in [Tunnel -> Nat] : (\A t \in Tunnel : f[t] = 0) => Total(f) = 0
        BY ZeroTotal
      <4> QED
        BY <4>1, <4>2 DEF AggInv
    <3> QED
      BY <2>1, <2>3, <3>1 DEF OvershootBounded
  <2> QED
    BY <2>4, <2>5
<1> QED
  BY <1>1, <1>2, AggHolds, OverStep, PTL DEF Spec

-----------------------------------------------------------------------------
(* What a held block waits for.                                            *)

\* A live tunnel with a block counted has it outstanding.
LEMMA CountedOutstanding ==
  ASSUME AggInv, InFlightCounted, NEW u \in Tunnel, slot[u] > 0
  PROVE  u \in Active /\ Outstanding(u)
<1>1. slot[u] \in Nat /\ sent[u] \in Nat /\ known[u] \in Nat
  BY WindowAssumption DEF AggInv, TypeOK
<1>2. u \in Active
  BY <1>1 DEF AggInv, Own, Active
<1> QED
  BY <1>1, <1>2 DEF InFlightCounted, Outstanding

\* Every tunnel's share has room for its first block.
LEMMA ShareOfTwo == AggInv => FairShare \in Nat /\ FairShare >= 2
<1> SUFFICES ASSUME AggInv PROVE FairShare \in Nat /\ FairShare >= 2
  OBVIOUS
<1>1. IsFiniteSet(Active) /\ Cardinality(Active) \in Nat
  BY WindowAssumption, FS_Subset, FS_CardinalityType DEF Active
<1>2. PICK c \in Nat, n \in Nat \ {0} : c = ceiling /\ n = Larger(Cardinality(Active), 1)
  BY <1>1 DEF AggInv, TypeOK, Larger
<1>3. c \div n \in Nat
  BY <1>2
<1> QED
  BY <1>2, <1>3 DEF FairShare, Larger, MinTunnelShare

\* While a block is held in the gate or in the spin loop, a block of a live tunnel is
\* really out (the loops of run_fec_tunnel, SendWindow::has_room and has_cwnd_room).
THEOREM WaitsAreJustified == Spec => []HeldForBlocks
<1>1. AggInv /\ InFlightCounted => HeldForBlocks
  <2> SUFFICES ASSUME AggInv, InFlightCounted, NEW t \in Tunnel, ~HasRoom(t)
               PROVE  \E u \in Active : Outstanding(u)
    BY DEF HeldForBlocks
  <2>1. CASE ~HasCwndRoom
    <3>1. inFlight \in Nat /\ ceiling \in Nat \ {0} /\ inFlight >= ceiling
      BY <2>1, WindowAssumption DEF HasCwndRoom, AggInv, TypeOK, CapStaysAtFloor, CeilingPinned
    <3>2. slot \in [Tunnel -> Nat] /\ Total(slot) # 0
      BY <3>1 DEF AggInv, TypeOK
    <3>3. PICK u \in Tunnel : slot[u] # 0
      BY <3>2, ZeroTotal
    <3>4. slot[u] > 0
      BY <3>2, <3>3
    <3> QED
      BY <3>4, CountedOutstanding
  <2>2. CASE HasCwndRoom
    <3>1. slot[t] \in Nat /\ ~ (slot[t] < FairShare)
      BY <2>2 DEF HasRoom, AggInv, TypeOK
    <3>2. slot[t] > 0
      BY <3>1, ShareOfTwo
    <3> QED
      BY <3>2, CountedOutstanding
  <2> QED
    BY <2>1, <2>2
<1> QED
  BY <1>1, AggHolds, SlotsCountUnacknowledged, PTL
=============================================================================
