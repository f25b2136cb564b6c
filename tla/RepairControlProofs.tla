------------------------- MODULE RepairControlProofs -------------------------
(***************************************************************************)
(* For every set of samples, every policy and every handshake: the ratio     *)
(* stays inside the policy, repair is never provisioned beyond the worst     *)
(* loss seen, and the excess is shed while the loss is not random.           *)
(***************************************************************************)
EXTENDS RepairControl, TLAPS

\* What the arguments need of the fixed-point unit.
LEMMA MillionType == Million \in Nat /\ Million > 0
  BY SMT DEF Million

\* A ratio of at most 400 percent is at most 4000 thousandths.
LEMMA ThousandthsType ==
  ASSUME NEW r \in Nat, r <= 4 * Million
  PROVE  r \div 1000 \in Permille
  BY SMT DEF Million, Permille

\* A loss rate is a fraction of one.
LEMMA LossRateType ==
  ASSUME NEW s \in Samples
  PROVE  LossRate(s) \in 0 .. Million
<1>1. s.sent \in Nat /\ s.lost \in Nat
  BY ControlAssumption
<1>2. CASE prevCwnd = None \/ s.sent = 0
  BY <1>2, MillionType DEF LossRate
<1>3. CASE ~(prevCwnd = None \/ s.sent = 0)
  <2>1. (s.lost * Million) \div s.sent \in Nat
    BY <1>1, <1>3, MillionType
  <2> QED
    BY <2>1, <1>3, MillionType DEF LossRate, Smaller
<1> QED
  BY <1>2, <1>3

\* The moving average of fractions of one is one.
LEMMA SmoothedType ==
  ASSUME smoothed \in 0 .. Million, NEW loss \in 0 .. Million
  PROVE  Smoothed(loss) \in 0 .. Million
  BY MillionType DEF Smoothed

\* Whatever is asked for, the policy answers with a ratio inside it, which is
\* no more than was asked for unless that was below the minimum.
LEMMA PolicyType ==
  ASSUME NEW r \in Int
  PROVE  /\ Policy(r) \in MinRatio .. MaxRatio
         /\ Policy(r) <= Larger(MinRatio, r)
  BY ControlAssumption DEF Policy, Within, Larger, Smaller

\* from_fraction never raises a ratio above the one it was given.
LEMMA FromFractionType ==
  ASSUME NEW f \in Nat
  PROVE  FromFraction(f) \in Nat /\ FromFraction(f) <= f
  BY MillionType DEF FromFraction, Within, Larger, Smaller

\* A target lies in the policy, at the minimum unless the loss is random, and
\* then at no more than the margin over it.
LEMMA TargetType ==
  ASSUME NEW verdict, NEW loss \in 0 .. Million
  PROVE  /\ Target(verdict, loss) \in MinRatio .. MaxRatio
         /\ verdict # "random" => Target(verdict, loss) = MinRatio
         /\ Target(verdict, loss) <= Larger(MinRatio, (loss * 13) \div 10)
<1> DEFINE wanted == (loss * 13) \div 10
<1>1. wanted \in Nat
  BY MillionType
<1>2. FromFraction(wanted) \in Nat /\ FromFraction(wanted) <= wanted
  BY <1>1, FromFractionType
<1>3. /\ Policy(FromFraction(wanted)) \in MinRatio .. MaxRatio
      /\ Policy(FromFraction(wanted)) <= Larger(MinRatio, FromFraction(wanted))
  BY <1>2, PolicyType
<1>4. MinRatio \in Nat /\ MaxRatio \in Nat /\ MinRatio <= MaxRatio
  BY ControlAssumption, MillionType
<1>5. CASE verdict = "random"
  <2>1. Target(verdict, loss) = Policy(FromFraction(wanted))
    BY <1>5 DEF Target
  <2> QED
    BY <2>1, <1>1, <1>2, <1>3, <1>4, <1>5 DEF Larger
<1>6. CASE verdict # "random"
  <2>1. Target(verdict, loss) = MinRatio
    BY <1>6 DEF Target
  <2> QED
    BY <2>1, <1>1, <1>4, <1>6 DEF Larger
<1> QED
  BY <1>5, <1>6

\* A step stays in the policy and closes a quarter of the gap to the target.
LEMMA StepType ==
  ASSUME current \in MinRatio .. MaxRatio, NEW target \in MinRatio .. MaxRatio
  PROVE  /\ Step(target) \in MinRatio .. MaxRatio
         /\ Step(target) <= Larger(current, target)
         /\ target = MinRatio =>
              Step(target) - MinRatio <= (3 * (current - MinRatio)) \div 4
<1>1. /\ MinRatio \in Nat /\ MaxRatio \in Nat /\ MinRatio <= MaxRatio
      /\ MaxRatio <= 4 * Million /\ current \in Nat /\ target \in Nat
  BY ControlAssumption, MillionType
<1> DEFINE moved == (3 * current + target) \div 4
<1>2. moved \in MinRatio .. MaxRatio
  BY <1>1
<1>3. Step(target) = moved
  BY <1>1, <1>2, MillionType
     DEF Step, Policy, FromFraction, Within, Larger, Smaller
<1>4. moved <= Larger(current, target)
  BY <1>1 DEF Larger
<1>5. target = MinRatio => moved - MinRatio <= (3 * (current - MinRatio)) \div 4
  BY <1>1
<1> QED
  BY <1>2, <1>3, <1>4, <1>5

IInv == TypeOK /\ NeverOverProvisioned /\ ShedsExcess

\* The invariant holds when the controller starts.
LEMMA InitInvariant == Init => IInv
<1> SUFFICES ASSUME Init PROVE IInv
  OBVIOUS
<1>1. /\ MinRatio \in Nat /\ MaxRatio \in Nat /\ MinRatio <= MaxRatio
      /\ Negotiated \in Nat /\ MaxTicks \in Nat
  BY ControlAssumption, MillionType DEF Permille
<1>2. /\ FromFraction(Negotiated * 1000) \in Nat
      /\ FromFraction(Negotiated * 1000) <= Negotiated * 1000
  BY <1>1, FromFractionType
<1>3. /\ current \in MinRatio .. MaxRatio
      /\ current <= Larger(MinRatio, FromFraction(Negotiated * 1000))
  BY <1>2, PolicyType DEF Init
<1>4. TypeOK
  BY <1>1, <1>3, ControlAssumption, MillionType DEF Init, TypeOK
<1>5. NeverOverProvisioned
  BY <1>1, <1>2, <1>3 DEF Init, NeverOverProvisioned, Provision, Larger
<1>6. ShedsExcess
  BY <1>1, <1>3 DEF Init, ShedsExcess
<1> QED
  BY <1>4, <1>5, <1>6 DEF IInv

\* Every tick keeps the invariant.
LEMMA StepInvariant == IInv /\ [Next]_vars => IInv'
<1> SUFFICES ASSUME IInv, [Next]_vars PROVE IInv'
  OBVIOUS
<1>1. CASE UNCHANGED vars
  BY <1>1 DEF vars, IInv, TypeOK, NeverOverProvisioned, Provision, ShedsExcess
<1>2. CASE Tick
  <2>1. PICK s \in Samples :
          LET loss == LossRate(s)
              mean == Smoothed(loss)
              verdict == Classify(s.cwnd, mean)
              next == Step(Target(verdict, loss))
          IN
          /\ smoothed' = mean
          /\ prevCwnd' = s.cwnd
          /\ regime' = verdict
          /\ current' = next
          /\ live' = IF WorthAnnouncing(next) THEN next \div 1000 ELSE live
          /\ peakLoss' = Larger(peakLoss, loss)
          /\ allowance' = IF verdict = "random" THEN MaxRatio - MinRatio
                          ELSE (3 * allowance) \div 4
    BY <1>2 DEF Tick
  <2> DEFINE loss == LossRate(s)
             mean == Smoothed(loss)
             verdict == Classify(s.cwnd, mean)
             target == Target(verdict, loss)
             next == Step(target)
  <2>2. /\ MinRatio \in Nat /\ MaxRatio \in Nat /\ MinRatio <= MaxRatio
        /\ MaxRatio <= 4 * Million
        /\ Negotiated \in Nat /\ MaxTicks \in Nat /\ s.cwnd \in Nat
    BY ControlAssumption, MillionType DEF Permille
  <2>3. loss \in 0 .. Million
    BY LossRateType
  <2>4. mean \in 0 .. Million
    BY <2>3, SmoothedType DEF IInv, TypeOK
  <2>5. verdict \in {"random", "congestion", "quiescent"}
    BY DEF Classify
  <2>6. /\ target \in MinRatio .. MaxRatio
        /\ verdict # "random" => target = MinRatio
        /\ target <= Larger(MinRatio, (loss * 13) \div 10)
    BY <2>3, TargetType
  <2>7. /\ next \in MinRatio .. MaxRatio
        /\ next <= Larger(current, target)
        /\ target = MinRatio => next - MinRatio <= (3 * (current - MinRatio)) \div 4
    BY <2>6, StepType DEF IInv, TypeOK
  <2> HIDE DEF loss, mean, verdict, target, next
  <2>8. /\ smoothed' = mean /\ prevCwnd' = s.cwnd /\ regime' = verdict
        /\ current' = next
        /\ live' = live \/ live' = next \div 1000
        /\ peakLoss' = Larger(peakLoss, loss)
        /\ allowance' = IF verdict = "random" THEN MaxRatio - MinRatio
                        ELSE (3 * allowance) \div 4
        /\ ticks < MaxTicks /\ ticks' = ticks + 1
    BY <1>2, <2>1 DEF Tick, loss, mean, verdict, target, next
  <2>9. allowance' \in 0 .. MaxRatio - MinRatio
    BY <2>2, <2>8 DEF IInv, TypeOK
  <2>10. live' \in Permille
    <3>1. next \in Nat /\ next <= 4 * Million
      BY <2>2, <2>7, MillionType
    <3>2. next \div 1000 \in Permille
      BY <3>1, ThousandthsType
    <3>3. live \in Permille
      BY DEF IInv, TypeOK
    <3>4. live' = live \/ live' = next \div 1000
      BY <2>8
    <3> QED
      BY <3>2, <3>3, <3>4
  <2>11. TypeOK'
    BY <2>2, <2>3, <2>4, <2>5, <2>7, <2>8, <2>9, <2>10
       DEF IInv, TypeOK, Larger
  <2>12. /\ Provision <= Provision'
         /\ Larger(MinRatio, (loss * 13) \div 10) <= Provision'
         /\ Provision \in Int /\ Provision' \in Int
    BY <2>2, <2>3, <2>8, MillionType DEF IInv, TypeOK, Provision, Larger
  <2>13. next <= Provision'
    BY <2>2, <2>3, <2>6, <2>7, <2>12, MillionType
       DEF IInv, TypeOK, NeverOverProvisioned, Larger
  <2>14. live' * 1000 <= Provision'
    BY <2>2, <2>7, <2>8, <2>12, <2>13
     DEF IInv, TypeOK, Permille, NeverOverProvisioned
  <2>15. NeverOverProvisioned'
    BY <2>8, <2>13, <2>14 DEF NeverOverProvisioned
  <2>16. ShedsExcess'
    BY <2>2, <2>6, <2>7, <2>8 DEF IInv, TypeOK, ShedsExcess
  <2> QED
    BY <2>11, <2>15, <2>16 DEF IInv
<1> QED
  BY <1>1, <1>2 DEF Next

\* The controller's ratio never leaves the configured policy, and the state
\* keeps its type (FecStrategy::update's clamps).
THEOREM TypeCorrect == Spec => []TypeOK
<1>1. IInv => TypeOK
  BY DEF IInv
<1> QED
  BY InitInvariant, StepInvariant, <1>1, PTL DEF Spec

\* Neither the controller nor the tunnels ever use more repair than the margin
\* over the worst loss seen, the handshake and the standing minimum justify
\* (FecStrategy::update and the store to live_ratio).
THEOREM ProvisionBounded == Spec => []NeverOverProvisioned
<1>1. IInv => NeverOverProvisioned
  BY DEF IInv
<1> QED
  BY InitInvariant, StepInvariant, <1>1, PTL DEF Spec

\* While the loss is not random, a quarter of the excess repair goes with
\* every tick (FecStrategy::update, Congestion and Quiescent).
THEOREM ExcessShed == Spec => []ShedsExcess
<1>1. IInv => ShedsExcess
  BY DEF IInv
<1> QED
  BY InitInvariant, StepInvariant, <1>1, PTL DEF Spec
=============================================================================
