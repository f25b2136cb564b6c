---------------------------- MODULE RepairControl ----------------------------
(***************************************************************************)
(* The adaptive repair controller of one connection (spawn_fec_controller):  *)
(* every 50 ms it reads the loss of the last interval and the congestion     *)
(* window, classifies the loss, moves its repair ratio a step and, when the  *)
(* step is a large one, publishes it in live_ratio, which every tunnel of    *)
(* the connection reads before it encodes a block.                           *)
(*                                                                           *)
(* Fractions are fixed-point numbers, in millionths as in RepairRatio; the   *)
(* f64 arithmetic of the code is rounded down to them.  live is in           *)
(* thousandths, as on the wire.  The refresh of the repair budget's ceiling  *)
(* in the same tick is RepairBudget's.                                       *)
(***************************************************************************)
EXTENDS Integers

CONSTANTS
  Samples,     \* what one interval may show: packets sent, packets declared
               \* lost, and the congestion window at its end
  MinRatio,    \* StrategyConfig::min
  MaxRatio,    \* StrategyConfig::max
  Negotiated,  \* the handshake's repair_ppm, in thousandths
  MaxTicks     \* bound: ticks of the controller

Million == 1000000
Permille == 0 .. 4000 \* up to 400 percent, as RepairRatio
None == -1

ASSUME ControlAssumption ==
  /\ Samples \subseteq [sent : Nat, lost : Nat, cwnd : Nat]
  /\ MinRatio \in 0 .. 4 * Million /\ MaxRatio \in MinRatio .. 4 * Million
  /\ Negotiated \in Permille
  /\ MaxTicks \in Nat

VARIABLES
  ticks,      \* ticks so far, at most MaxTicks
  prevCwnd,   \* RegimeClassifier::prev_cwnd, and None before the first sample
  smoothed,   \* RegimeClassifier::smoothed_loss
  regime,     \* the last verdict
  current,    \* FecStrategy::current
  live,       \* live_ratio
  peakLoss,   \* history: the worst loss rate read so far
  allowance   \* history: what may be left of the excess over MinRatio, a
              \* quarter less with every tick since the last random loss

vars == <<ticks, prevCwnd, smoothed, regime, current, live, peakLoss,
          allowance>>

Smaller(m, n) == IF m < n THEN m ELSE n
Larger(m, n) == IF m > n THEN m ELSE n
Within(r, lo, hi) == Larger(lo, Smaller(r, hi))

\* RepairRatio::from_fraction.
FromFraction(f) == Within(f, 0, 4 * Million)

\* RepairRatio::clamp to the policy.
Policy(r) == Within(r, MinRatio, MaxRatio)

TypeOK ==
  /\ ticks \in 0 .. MaxTicks
  /\ prevCwnd \in Nat \cup {None}
  /\ smoothed \in 0 .. Million
  /\ regime \in {"random", "congestion", "quiescent"}
  /\ current \in MinRatio .. MaxRatio
  /\ live \in Permille
  /\ peakLoss \in 0 .. Million
  /\ allowance \in 0 .. MaxRatio - MinRatio

Init ==
  /\ ticks = 0
  /\ prevCwnd = None /\ smoothed = 0 /\ regime = "quiescent"
  /\ current = Policy(FromFraction(Negotiated * 1000))
  /\ live = Negotiated
  /\ peakLoss = 0 /\ allowance = MaxRatio - MinRatio

-----------------------------------------------------------------------------
\* LossTracker::window_loss through read_telemetry: losses over sends of the
\* interval, at most 1, and 0 for the first sample (no baseline yet) and for
\* an interval in which nothing was sent.  Quinn's counters only grow, so an
\* interval is a sample.
LossRateUnclamped(s) == \* slip: late losses are not clamped
  IF prevCwnd = None \/ s.sent = 0 THEN 0 ELSE (s.lost * Million) \div s.sent
LossRate(s) ==
  IF prevCwnd = None \/ s.sent = 0 THEN 0
  ELSE Smaller((s.lost * Million) \div s.sent, Million)

\* RegimeClassifier::classify.
Smoothed(loss) == (7 * smoothed + 3 * loss) \div 10
CwndCut(cwnd) == prevCwnd # None /\ cwnd < prevCwnd - prevCwnd \div 8
Drowning(cwnd, mean) ==
  prevCwnd # None /\ mean > Million \div 10 /\ cwnd <= prevCwnd
Classify(cwnd, mean) ==
  IF CwndCut(cwnd) \/ Drowning(cwnd, mean) THEN "congestion"
  ELSE IF mean < Million \div 200 THEN "quiescent"
  ELSE "random"

\* FecStrategy::update, with the margin (1.3) and the gain (1/4) of
\* StrategyConfig::default, which both command lines use.
TargetByLoss(verdict, loss) == \* slip: one rule for every regime
  Policy(FromFraction((loss * 13) \div 10))
Target(verdict, loss) ==
  IF verdict = "random" THEN Policy(FromFraction((loss * 13) \div 10))
  ELSE MinRatio
OverStep(target) == \* slip: the gap is added to the ratio, not closed
  Policy(FromFraction(current + target \div 4))
Step(target) == Policy(FromFraction((3 * current + target) \div 4))
WorthAnnouncing(next) ==
  next - current > Million \div 100 \/ current - next > Million \div 100

Tick ==
  /\ ticks < MaxTicks
  /\ \E s \in Samples :
       LET loss == LossRate(s)
           mean == Smoothed(loss)
           verdict == Classify(s.cwnd, mean)
           next == Step(Target(verdict, loss))
       IN
       /\ smoothed' = mean
       /\ prevCwnd' = s.cwnd
       /\ regime' = verdict
       /\ current' = next
       /\ live' = IF WorthAnnouncing(next) THEN next \div 1000 ELSE live
       /\ peakLoss' = Larger(peakLoss, loss)
       /\ allowance' = IF verdict = "random" THEN MaxRatio - MinRatio
                       ELSE (3 * allowance) \div 4
  /\ ticks' = ticks + 1

Next == Tick
Spec == Init /\ [][Next]_vars

-----------------------------------------------------------------------------
\* The repair overhead in use, by the controller and by the tunnels, is never
\* more than the margin over the worst loss the link ever showed, apart from
\* what was negotiated and the standing minimum (FecStrategy::update: "a
\* safety margin for loss-rate estimation error").
Provision ==
  Larger(MinRatio, Larger(Negotiated * 1000, (peakLoss * 13) \div 10))
NeverOverProvisioned ==
  /\ current <= Provision
  /\ live * 1000 <= Provision

\* Under congestion or silence, in whatever order they follow each other, the
\* controller sheds a quarter of its excess per tick: it never holds on to
\* repair the link has no use for (FecStrategy::update, Congestion and
\* Quiescent).
ShedsExcess == current - MinRatio <= allowance
=============================================================================
