--------------------------- MODULE TunnelPairProofs ---------------------------
(***************************************************************************)
(* What TLAPS proves of TunnelPair, for any numbers of blocks: its types,  *)
(* that no upstream task leaves early on the acknowledgement count, and    *)
(* that each direction is an ordered stream.                               *)
(***************************************************************************)
EXTENDS TunnelPair, FiniteSetTheorems, TLAPS

USE PairAssumption DEF Peer, PairAssumption

\* The other peer's other peer.
LEMMA Others ==
  ASSUME NEW p \in Peer
  PROVE  Other(p) \in Peer /\ Other(Other(p)) = p /\ Other(p) # p
BY DEF Other

\* One block's fate is set and no other is touched.
LEMMA FateSets ==
  ASSUME TypeOK, NEW p \in Peer, NEW b \in Block(p), NEW f \in Fates, Fate(p, b, f)
  PROVE  /\ DOMAIN block' = Peer
         /\ \A q \in Peer : block'[q] \in [Block(q) -> Fates]
         /\ \A q \in Peer : \A c \in Block(q) :
              block'[q][c] = IF q = p /\ c = b THEN f ELSE block[q][c]
BY DEF TypeOK, Fate

-----------------------------------------------------------------------------
(* Types.                                                                  *)

\* The types hold initially.
LEMMA InitType == Init => TypeOK
BY DEF Init, TypeOK, Runs, UpPlaces, DownPlaces, Fates

\* A task's end keeps the types.
LEMMA UpEndsType ==
  ASSUME TypeOK, NEW p \in Peer, NEW how \in UpPlaces, UpEnds(p, how)
  PROVE  TypeOK'
BY DEF TypeOK, UpEnds

LEMMA AbandonType ==
  ASSUME TypeOK, NEW p \in Peer, Abandon(p)
  PROVE  TypeOK'
BY DEF TypeOK, Abandon, Runs, UpPlaces, DownPlaces

LEMMA LifeType ==
  ASSUME TypeOK, NEW p \in Peer, Life(p)
  PROVE  TypeOK'
<1>1. CASE HearReset(p) \/ LoseConnection(p) \/ HearLoss(p)
  BY <1>1, AbandonType DEF HearReset, LoseConnection, HearLoss
<1>2. CASE WriterEnds(p) \/ Join(p)
  BY <1>2 DEF TypeOK, WriterEnds, Join, Runs, dataVars
<1> QED BY <1>1, <1>2 DEF Life

LEMMA LeaveType ==
  ASSUME TypeOK, NEW p \in Peer, LeaveReadLoop(p), eof' \in [Peer -> BOOLEAN]
  PROVE  TypeOK'
BY DEF TypeOK, LeaveReadLoop, UpPlaces

LEMMA UpType ==
  ASSUME TypeOK, NEW p \in Peer, Up(p)
  PROVE  TypeOK'
<1>1. CASE EmitBlock(p)
  <2>1. sent[p] \in Block(p)
    BY <1>1 DEF TypeOK, EmitBlock, Block
  <2>2. /\ DOMAIN block' = Peer
        /\ \A q \in Peer : block'[q] \in [Block(q) -> Fates]
    BY <1>1, <2>1, FateSets DEF EmitBlock, Fates
  <2>3. sent' \in [Peer -> Nat] /\ \A q \in Peer : sent'[q] <= Blocks[q]
    BY <1>1 DEF TypeOK, EmitBlock
  <2> QED BY <1>1, <2>2, <2>3 DEF TypeOK, EmitBlock, taskVars
<1>2. CASE ReadEof(p)
  BY <1>2, LeaveType DEF ReadEof, TypeOK
<1>3. CASE UpStallAbort(p)
  BY <1>3, LeaveType DEF UpStallAbort, TypeOK
<1>4. CASE ReadFails(p) \/ FastBreak(p) \/ DrainStall(p)
  BY <1>4, UpEndsType DEF ReadFails, FastBreak, DrainStall, UpPlaces
<1>5. CASE TakeAck(p)
  BY <1>5 DEF TypeOK, TakeAck, Pending, taskVars
<1>6. CASE DownDone(p)
  BY <1>6, UpEndsType DEF TypeOK, DownDone, UpPlaces, dataVars
<1>7. ASSUME NEW b \in Block(p), Serve(p, b)
      PROVE  TypeOK'
  <2>1. /\ DOMAIN block' = Peer
        /\ \A q \in Peer : block'[q] \in [Block(q) -> Fates]
    BY <1>7, FateSets DEF Serve, Fates
  <2> QED BY <1>7, <2>1 DEF TypeOK, Serve, taskVars
<1> QED BY <1>1, <1>2, <1>3, <1>4, <1>5, <1>6, <1>7 DEF Up

\* An arrival, from which the later proofs take what they need: the run of
\* blocks it delivers, and how the task goes on.
LEMMA Arrival ==
  ASSUME TypeOK, NEW q \in Peer, NEW b \in Block(Other(q)), BurstArrives(q, b)
  PROVE  \E floor \in delivered[Other(q)] .. Blocks[Other(q)] :
           /\ RunEnds(Other(q), Held(Other(q)) \cup {b}, floor)
           /\ \/ /\ Fate(Other(q), b, "held")
                 /\ delivered' = [delivered EXCEPT ![Other(q)] = floor]
                 /\ Acknowledge(Other(q))
                 /\ DownAfter(q, count[Other(q)], floor)
              \/ /\ floor > delivered[Other(q)]
                 /\ down' = [down EXCEPT ![q] = "failed"]
                 /\ UNCHANGED <<block, delivered, acks>>
BY DEF BurstArrives, Complete

LEMMA AckType ==
  ASSUME TypeOK, NEW p \in Peer, Acknowledge(p)
  PROVE  acks' \in [Peer -> Nat]
BY DEF TypeOK, Acknowledge

LEMMA AfterType ==
  ASSUME TypeOK, NEW q \in Peer, NEW cnt, NEW floor, DownAfter(q, cnt, floor)
  PROVE  down' \in [Peer -> DownPlaces]
BY DEF TypeOK, DownAfter, DownPlaces

LEMMA DownType ==
  ASSUME TypeOK, NEW q \in Peer, Down(q)
  PROVE  TypeOK'
<1> DEFINE p == Other(q)
<1>p. p \in Peer
  BY Others
<1>1. CASE CountArrives(q)
  <2>1. down' \in [Peer -> DownPlaces]
    BY <1>1, AfterType DEF CountArrives
  <2> QED BY <1>1, <2>1, <1>p DEF TypeOK, CountArrives
<1>2. CASE DownStall(q)
  BY <1>2 DEF TypeOK, DownStall, DownPlaces, dataVars
<1>3. ASSUME NEW b \in Block(p), BurstArrives(q, b)
      PROVE  TypeOK'
  <2>1. PICK floor \in delivered[p] .. Blocks[p] :
           \/ /\ Fate(p, b, "held")
              /\ delivered' = [delivered EXCEPT ![p] = floor]
              /\ Acknowledge(p)
              /\ DownAfter(q, count[p], floor)
           \/ /\ down' = [down EXCEPT ![q] = "failed"]
              /\ UNCHANGED <<block, delivered, acks>>
    BY <1>3, Arrival
  <2>2. floor \in Nat /\ floor <= Blocks[p]
    BY <1>p DEF TypeOK
  <2>3. CASE /\ Fate(p, b, "held")
             /\ delivered' = [delivered EXCEPT ![p] = floor]
             /\ Acknowledge(p)
             /\ DownAfter(q, count[p], floor)
    <3>1. down' \in [Peer -> DownPlaces] /\ acks' \in [Peer -> Nat]
      BY <2>3, <1>p, AckType, AfterType
    <3>2. /\ DOMAIN block' = Peer
          /\ \A r \in Peer : block'[r] \in [Block(r) -> Fates]
      BY <2>3, <1>p, FateSets DEF Fates
    <3>3. delivered' \in [Peer -> Nat] /\ \A r \in Peer : delivered'[r] <= Blocks[r]
      BY <2>2, <2>3, <1>p DEF TypeOK
    <3> QED BY <1>3, <3>1, <3>2, <3>3 DEF TypeOK, BurstArrives
  <2>4. CASE /\ down' = [down EXCEPT ![q] = "failed"]
             /\ UNCHANGED <<block, delivered, acks>>
    BY <1>3, <2>4 DEF TypeOK, BurstArrives, DownPlaces
  <2> QED BY <2>1, <2>3, <2>4
<1>4. ASSUME NEW b \in Block(p), Ask(q, b)
      PROVE  TypeOK'
  <2>1. /\ DOMAIN block' = Peer
        /\ \A r \in Peer : block'[r] \in [Block(r) -> Fates]
    BY <1>4, <1>p, FateSets DEF Ask, Fates
  <2> QED BY <1>4, <2>1 DEF TypeOK, Ask, taskVars
<1>5. ASSUME NEW b \in Block(p), AckAgain(q, b)
      PROVE  TypeOK'
  <2>1. acks' \in [Peer -> Nat]
    BY <1>5, <1>p, AckType DEF AckAgain
  <2>2. repeats' \in [Peer -> 0 .. MaxRepeats]
    BY <1>5, <1>p DEF TypeOK, AckAgain
  <2> QED BY <1>5, <2>1, <2>2 DEF TypeOK, AckAgain, taskVars
<1> QED BY <1>1, <1>2, <1>3, <1>4, <1>5 DEF Down

LEMMA NextType == TypeOK /\ [Next]_vars => TypeOK'
<1> SUFFICES ASSUME TypeOK, [Next]_vars PROVE TypeOK'
  OBVIOUS
<1>1. CASE ConnectTarget
  BY <1>1 DEF TypeOK, ConnectTarget, Runs, dataVars
<1>4. CASE RefuseTarget
  BY <1>4 DEF TypeOK, RefuseTarget, Runs, UpPlaces, DownPlaces, dataVars
<1>2. ASSUME NEW p \in Peer, Life(p) \/ Up(p) \/ Down(p) PROVE TypeOK'
  BY <1>2, LifeType, UpType, DownType
<1>3. CASE UNCHANGED vars
  BY <1>3 DEF TypeOK, vars, taskVars, dataVars
<1> QED BY <1>1, <1>2, <1>3, <1>4 DEF Next

\* Types are kept by every step of both peers (run_fec_tunnel on both ends).
THEOREM TypeCorrect == Spec => []TypeOK
BY InitType, NextType, PTL DEF Spec

-----------------------------------------------------------------------------
(* Acknowledgements.                                                       *)

\* Only blocks that were sent are under way or held.
OnlySent == \A p \in Peer : \A b \in Block(p) : b >= sent[p] => block[p][b] = "unsent"

\* An upstream task has been told of no more blocks than are held, but for those
\* acknowledged again.
AcksCovered ==
  \A p \in Peer : acks[p] + acked[p] <= Cardinality(Held(p)) + repeats[p]

AckInv == TypeOK /\ OnlySent /\ AcksCovered /\ NoEarlyLeave

\* There are n numbers below n.
LEMMA FirstN ==
  ASSUME NEW n \in Nat
  PROVE  IsFiniteSet(0 .. n - 1) /\ Cardinality(0 .. n - 1) = n
<1> DEFINE m == n - 1
<1>1. m \in Int /\ 0 \in Int
  OBVIOUS
<1> HIDE DEF m
<1>2. /\ IsFiniteSet(0 .. m)
      /\ Cardinality(0 .. m) = IF 0 > m THEN 0 ELSE m - 0 + 1
  BY <1>1, FS_Interval
<1> QED BY <1>1, <1>2 DEF m

LEMMA HeldFinite ==
  ASSUME TypeOK, NEW p \in Peer
  PROVE  /\ IsFiniteSet(Held(p)) /\ Cardinality(Held(p)) \in Nat
         /\ IsFiniteSet(Sent(p)) /\ Cardinality(Sent(p)) = sent[p]
<1>1. Blocks[p] - 1 \in Int /\ sent[p] \in Nat /\ sent[p] - 1 \in Int
  BY DEF TypeOK
<1>2. IsFiniteSet(Block(p))
  BY <1>1, FS_Interval DEF Block
<1>4. IsFiniteSet(Held(p))
  BY <1>2, FS_Subset DEF Held
<1>3. IsFiniteSet(Sent(p)) /\ Cardinality(Sent(p)) = sent[p]
  BY <1>1, FirstN DEF Sent
<1> QED BY <1>3, <1>4, FS_CardinalityType

LEMMA HeldSent ==
  ASSUME TypeOK, OnlySent, NEW p \in Peer
  PROVE  Held(p) \subseteq Sent(p)
<1> SUFFICES ASSUME NEW b \in Block(p), block[p][b] = "held" PROVE b \in Sent(p)
  BY DEF Held
<1>1. b \in Nat /\ sent[p] \in Nat
  BY DEF TypeOK, Block
<1>2. ~(b >= sent[p])
  BY DEF OnlySent
<1> QED BY <1>1, <1>2 DEF Sent

\* An upstream task that has counted as many acks as blocks left nothing behind.
LEMMA AllAckedHeld ==
  ASSUME AckInv, NEW p \in Peer, AllAcked(p), repeats[p] = 0
  PROVE  Sent(p) \subseteq Held(p)
<1>1. Held(p) \subseteq Sent(p)
  BY HeldSent DEF AckInv
<1>2. Cardinality(Held(p)) >= Cardinality(Sent(p))
  BY HeldFinite DEF AckInv, AcksCovered, AllAcked, TypeOK
<1>3. Cardinality(Held(p)) <= Cardinality(Sent(p))
  BY <1>1, HeldFinite, FS_Subset DEF AckInv
<1>4. Cardinality(Held(p)) = Cardinality(Sent(p))
  BY <1>2, <1>3, HeldFinite DEF AckInv, TypeOK
<1> QED BY <1>1, <1>4, HeldFinite, FS_Subset DEF AckInv

\* What a step must not do to keep the invariant, if it neither sends nor
\* completes a block.
LEMMA QuietStep ==
  ASSUME AckInv, TypeOK', UNCHANGED <<sent, block, repeats>>,
         \A p \in Peer : acks'[p] + acked'[p] <= acks[p] + acked[p],
         \A p \in Peer : up'[p] = "acked" => up[p] = "acked" \/ AllAcked(p)
  PROVE  AckInv'
<1>1. \A p \in Peer : Held(p)' = Held(p) /\ Sent(p)' = Sent(p)
  BY DEF Held, Sent
<1>2. OnlySent'
  BY DEF AckInv, OnlySent
<1>3. AcksCovered'
  BY <1>1, HeldFinite DEF AckInv, AcksCovered, TypeOK
<1>4. NoEarlyLeave'
  BY <1>1, AllAckedHeld DEF AckInv, NoEarlyLeave
<1> QED BY <1>2, <1>3, <1>4 DEF AckInv

LEMMA InitAck == Init => AckInv
<1> SUFFICES ASSUME Init PROVE AckInv
  OBVIOUS
<1>1. TypeOK
  BY InitType
<1>2. \A p \in Peer : Held(p) = {}
  BY DEF Init, Held
<1>3. AcksCovered
  BY <1>2, FS_EmptySet DEF Init, AcksCovered
<1> QED BY <1>1, <1>3 DEF Init, AckInv, OnlySent, NoEarlyLeave

LEMMA LifeAck ==
  ASSUME AckInv, TypeOK', NEW p \in Peer, Life(p)
  PROVE  AckInv'
<1>1. CASE Abandon(p)
  <2>1. UNCHANGED <<sent, block, repeats>>
    BY <1>1 DEF Abandon
  <2>2. \A r \in Peer : acks'[r] + acked'[r] <= acks[r] + acked[r]
    BY <1>1 DEF Abandon, AckInv, TypeOK
  <2>3. \A r \in Peer : up'[r] = "acked" => up[r] = "acked"
    BY <1>1 DEF Abandon, AckInv, TypeOK
  <2> QED BY <2>1, <2>2, <2>3, QuietStep
<1>2. CASE WriterEnds(p) \/ Join(p)
  <2>1. UNCHANGED <<sent, block, repeats, acks, acked, up>>
    BY <1>2 DEF WriterEnds, Join, dataVars
  <2> QED BY <2>1, QuietStep DEF AckInv, TypeOK
<1> QED BY <1>1, <1>2 DEF Life, HearReset, LoseConnection, HearLoss

LEMMA UpEndsAck ==
  ASSUME AckInv, TypeOK', NEW p \in Peer, NEW how, UpEnds(p, how),
         how = "acked" => AllAcked(p)
  PROVE  AckInv'
<1>1. UNCHANGED <<sent, block, repeats>>
  BY DEF UpEnds
<1>2. \A r \in Peer : acks'[r] + acked'[r] <= acks[r] + acked[r]
  BY DEF UpEnds, AckInv, TypeOK
<1>3. \A r \in Peer : up'[r] = "acked" => up[r] = "acked" \/ AllAcked(r)
  BY DEF UpEnds, AckInv, TypeOK
<1> QED BY <1>1, <1>2, <1>3, QuietStep

LEMMA UpAck ==
  ASSUME AckInv, TypeOK', NEW p \in Peer, Up(p)
  PROVE  AckInv'
<1>t. TypeOK
  BY DEF AckInv
<1>1. CASE EmitBlock(p)
  <2>1. sent[p] \in Block(p)
    BY <1>1, <1>t DEF TypeOK, EmitBlock, Block
  <2>2. \A q \in Peer : \A c \in Block(q) :
          block'[q][c] = IF q = p /\ c = sent[p] THEN "flying" ELSE block[q][c]
    BY <1>1, <1>t, <2>1, FateSets DEF EmitBlock, Fates
  <2>3. block[p][sent[p]] = "unsent"
    BY <2>1, <1>t DEF AckInv, OnlySent, TypeOK
  <2>4. \A q \in Peer : Held(q)' = Held(q)
    BY <2>2, <2>3 DEF Held
  <2>5. \A q \in Peer : sent'[q] >= sent[q] /\ sent'[p] = sent[p] + 1
    BY <1>1, <1>t DEF TypeOK, EmitBlock
  <2>6. OnlySent'
    <3> SUFFICES ASSUME NEW q \in Peer, NEW c \in Block(q), c >= sent'[q]
                 PROVE  block'[q][c] = "unsent"
      BY DEF OnlySent, Block
    <3>1. sent[q] \in Nat /\ sent'[q] \in Nat
      BY <1>t, TypeOK' DEF TypeOK
    <3>3. c \in Nat
      BY DEF Block
    <3>2. c >= sent[q] /\ ~(q = p /\ c = sent[p])
      BY <2>5, <3>1, <3>3
    <3> QED BY <2>2, <3>2 DEF AckInv, OnlySent
  <2>7. AcksCovered'
    BY <1>1, <2>4 DEF EmitBlock, AckInv, AcksCovered
  <2>8. NoEarlyLeave'
    <3> SUFFICES ASSUME NEW q \in Peer, up'[q] = "acked", repeats'[q] = 0
                 PROVE  Sent(q)' \subseteq Held(q)'
      BY DEF NoEarlyLeave
    <3>1. q # p /\ up[q] = "acked" /\ repeats[q] = 0
      BY <1>1 DEF EmitBlock, Reading, taskVars
    <3>2. Sent(q)' = Sent(q)
      BY <1>1, <3>1, <1>t DEF EmitBlock, Sent, TypeOK
    <3> QED BY <3>1, <3>2, <2>4 DEF AckInv, NoEarlyLeave
  <2> QED BY <2>6, <2>7, <2>8 DEF AckInv
<1>2. CASE ReadEof(p) \/ UpStallAbort(p)
  <2>1. UNCHANGED <<sent, block, repeats, acks, acked>>
    BY <1>2 DEF ReadEof, UpStallAbort, LeaveReadLoop
  <2>2. \A r \in Peer : up'[r] = "acked" => up[r] = "acked"
    BY <1>2, <1>t DEF ReadEof, UpStallAbort, LeaveReadLoop, TypeOK
  <2> QED BY <2>1, <2>2, <1>t, QuietStep DEF TypeOK
<1>3. CASE ReadFails(p) \/ FastBreak(p) \/ DrainStall(p)
  BY <1>3, UpEndsAck DEF ReadFails, FastBreak, DrainStall
<1>4. CASE TakeAck(p)
  <2>1. UNCHANGED <<sent, block, repeats, up>>
    BY <1>4 DEF TakeAck, taskVars
  <2>2. \A r \in Peer : acks'[r] + acked'[r] <= acks[r] + acked[r]
    BY <1>4, <1>t DEF TakeAck, Pending, TypeOK
  <2> QED BY <2>1, <2>2, QuietStep
<1>5. CASE DownDone(p)
  <2>1. CASE DownDoneLeaves(p) /\ UpEnds(p, "acked")
    BY <2>1, UpEndsAck DEF DownDoneLeaves
  <2>2. CASE up' = [up EXCEPT ![p] = "doneSeen"] /\ UNCHANGED <<run, down, writer, dataVars>>
    <3>1. UNCHANGED <<sent, block, repeats, acks, acked>>
      BY <2>2 DEF dataVars
    <3>2. \A r \in Peer : up'[r] = "acked" => up[r] = "acked"
      BY <2>2, <1>t DEF TypeOK
    <3> QED BY <3>1, <3>2, <1>t, QuietStep DEF TypeOK
  <2> QED BY <1>5, <2>1, <2>2 DEF DownDone
<1>6. ASSUME NEW b \in Block(p), Serve(p, b)
      PROVE  AckInv'
  <2>1. \A q \in Peer : \A c \in Block(q) :
          block'[q][c] = IF q = p /\ c = b THEN "flying" ELSE block[q][c]
    BY <1>6, <1>t, FateSets DEF Serve, Fates
  <2>2. \A q \in Peer : Held(q)' = Held(q) /\ Sent(q)' = Sent(q)
    BY <1>6, <2>1 DEF Serve, Held, Sent
  <2>3. OnlySent'
    BY <1>6, <2>1 DEF Serve, AckInv, OnlySent
  <2> QED BY <1>6, <2>2, <2>3 DEF Serve, AckInv, AcksCovered, NoEarlyLeave, taskVars
<1> QED BY <1>1, <1>2, <1>3, <1>4, <1>5, <1>6 DEF Up

LEMMA AckCounts ==
  ASSUME TypeOK, NEW p \in Peer, Acknowledge(p)
  PROVE  /\ acks'[p] <= acks[p] + 1
         /\ \A q \in Peer : q # p => acks'[q] = acks[q]
BY DEF TypeOK, Acknowledge

\* A block that was on its way is held, and there is one ack more for it.
LEMMA HoldAck ==
  ASSUME AckInv, TypeOK', NEW p \in Peer, NEW b \in Block(p),
         block[p][b] = "flying", Fate(p, b, "held"), Acknowledge(p),
         UNCHANGED <<up, sent, acked, repeats>>
  PROVE  AckInv'
<1>t. TypeOK
  BY DEF AckInv
<1>1. \A q \in Peer : \A c \in Block(q) :
        block'[q][c] = IF q = p /\ c = b THEN "held" ELSE block[q][c]
  BY <1>t, FateSets DEF Fates
<1>2. Held(p)' = Held(p) \cup {b} /\ b \notin Held(p)
  BY <1>1 DEF Held
<1>3. \A q \in Peer : q # p => Held(q)' = Held(q)
  BY <1>1 DEF Held
<1>4. \A q \in Peer : Sent(q)' = Sent(q) /\ Held(q) \subseteq Held(q)'
  BY <1>2, <1>3 DEF Sent
<1>5. OnlySent'
  BY <1>1 DEF AckInv, OnlySent
<1>6. AcksCovered'
  <2> SUFFICES ASSUME NEW q \in Peer
               PROVE  acks'[q] + acked'[q] <= Cardinality(Held(q)') + repeats'[q]
    BY DEF AcksCovered
  <2>1. CASE q = p
    <3>1. Cardinality(Held(p) \cup {b}) = Cardinality(Held(p)) + 1
      BY <1>t, <1>2, HeldFinite, FS_AddElement
    <3>2. /\ acks[p] \in Nat /\ acked[p] \in Nat /\ repeats[p] \in Nat
          /\ acks'[p] \in Nat
      BY <1>t, TypeOK' DEF TypeOK
    <3>3. acks[p] + acked[p] <= Cardinality(Held(p)) + repeats[p]
      BY DEF AckInv, AcksCovered
    <3>4. Cardinality(Held(p)') = Cardinality(Held(p)) + 1
      BY <3>1, <1>2
    <3>5. acks'[p] <= acks[p] + 1 /\ Cardinality(Held(p)) \in Nat
      BY <1>t, AckCounts, HeldFinite
    <3>6. acks'[p] + acked[p] <= Cardinality(Held(p)') + repeats[p]
      BY <3>2, <3>3, <3>4, <3>5
    <3> QED BY <2>1, <3>6
  <2>2. CASE q # p
    BY <2>2, <1>t, <1>3, AckCounts DEF AckInv, AcksCovered
  <2> QED BY <2>1, <2>2
<1>7. NoEarlyLeave'
  BY <1>4 DEF AckInv, NoEarlyLeave
<1> QED BY <1>5, <1>6, <1>7 DEF AckInv

LEMMA DownAck ==
  ASSUME AckInv, TypeOK', NEW q \in Peer, Down(q)
  PROVE  AckInv'
<1> DEFINE p == Other(q)
<1>p. p \in Peer
  BY Others
<1>t. TypeOK
  BY DEF AckInv
<1>1. CASE CountArrives(q) \/ DownStall(q)
  <2>1. UNCHANGED <<sent, block, repeats, acks, acked, up>>
    BY <1>1 DEF CountArrives, DownStall, dataVars
  <2> QED BY <2>1, <1>t, QuietStep DEF TypeOK
<1>2. ASSUME NEW b \in Block(p), BurstArrives(q, b)
      PROVE  AckInv'
  <2>1. block[p][b] = "flying" /\ UNCHANGED <<up, sent, acked, repeats>>
    BY <1>2 DEF BurstArrives
  <2>2. CASE Fate(p, b, "held") /\ Acknowledge(p)
    BY <2>1, <2>2, <1>p, HoldAck
  <2>3. CASE UNCHANGED <<block, delivered, acks>>
    BY <2>1, <2>3, <1>t, QuietStep DEF TypeOK
  <2> QED BY <1>2, <2>2, <2>3, Arrival DEF AckInv
<1>3. ASSUME NEW b \in Block(p), Ask(q, b)
      PROVE  AckInv'
  <2>1. \A r \in Peer : \A c \in Block(r) :
          block'[r][c] = IF r = p /\ c = b THEN "asked" ELSE block[r][c]
    BY <1>3, <1>t, <1>p, FateSets DEF Ask, Fates
  <2>2. \A r \in Peer : Held(r)' = Held(r) /\ Sent(r)' = Sent(r)
    BY <1>3, <2>1 DEF Ask, Held, Sent
  <2>3. OnlySent'
    BY <1>3, <2>1 DEF Ask, AckInv, OnlySent
  <2> QED BY <1>3, <2>2, <2>3 DEF Ask, AckInv, AcksCovered, NoEarlyLeave, taskVars
<1>4. ASSUME NEW b \in Block(p), AckAgain(q, b)
      PROVE  AckInv'
  <2>1. UNCHANGED <<up, sent, block, acked>>
    BY <1>4 DEF AckAgain, taskVars
  <2>2. \A r \in Peer : Held(r)' = Held(r) /\ Sent(r)' = Sent(r)
    BY <2>1 DEF Held, Sent
  <2>3. /\ repeats'[p] = repeats[p] + 1
        /\ \A r \in Peer : r # p => repeats'[r] = repeats[r]
    BY <1>4, <1>p, <1>t DEF AckAgain, TypeOK
  <2>4. /\ acks'[p] <= acks[p] + 1
        /\ \A r \in Peer : r # p => acks'[r] = acks[r]
    BY <1>4, <1>p, <1>t, AckCounts DEF AckAgain
  <2>5. OnlySent'
    BY <2>1 DEF AckInv, OnlySent
  <2>6. AcksCovered'
    <3> SUFFICES ASSUME NEW r \in Peer
                 PROVE  acks'[r] + acked'[r] <= Cardinality(Held(r)') + repeats'[r]
      BY DEF AcksCovered
    <3>1. /\ acks[r] \in Nat /\ acked[r] \in Nat /\ repeats[r] \in Nat
          /\ acks'[r] \in Nat /\ Cardinality(Held(r)) \in Nat
      BY <1>t, TypeOK', HeldFinite DEF TypeOK
    <3>2. acks[r] + acked[r] <= Cardinality(Held(r)) + repeats[r]
      BY DEF AckInv, AcksCovered
    <3>3. \/ acks'[r] <= acks[r] + 1 /\ repeats'[r] = repeats[r] + 1
          \/ acks'[r] = acks[r] /\ repeats'[r] = repeats[r]
      BY <2>3, <2>4
    <3>4. acks'[r] + acked[r] <= Cardinality(Held(r)) + repeats'[r]
      BY <3>1, <3>2, <3>3
    <3> QED BY <3>4, <2>1, <2>2
  <2>7. NoEarlyLeave'
    <3> SUFFICES ASSUME NEW r \in Peer, up'[r] = "acked", repeats'[r] = 0
                 PROVE  Sent(r)' \subseteq Held(r)'
      BY DEF NoEarlyLeave
    <3>1. up[r] = "acked" /\ repeats[r] = 0
      BY <2>1, <2>3, <1>t DEF TypeOK
    <3> QED BY <3>1, <2>2 DEF AckInv, NoEarlyLeave
  <2> QED BY <2>5, <2>6, <2>7 DEF AckInv
<1> QED BY <1>1, <1>2, <1>3, <1>4 DEF Down

LEMMA NextAck == AckInv /\ [Next]_vars => AckInv'
<1> SUFFICES ASSUME AckInv, [Next]_vars PROVE AckInv'
  OBVIOUS
<1>t. TypeOK /\ TypeOK'
  BY NextType DEF AckInv
<1>1. CASE ConnectTarget \/ RefuseTarget \/ UNCHANGED vars
  <2>1. UNCHANGED <<sent, block, repeats, acks, acked>>
    BY <1>1 DEF ConnectTarget, RefuseTarget, vars, dataVars
  <2>2. \A p \in Peer : up'[p] = "acked" => up[p] = "acked"
    BY <1>1, <1>t DEF ConnectTarget, RefuseTarget, vars, taskVars, TypeOK
  <2> QED BY <2>1, <2>2, <1>t, QuietStep DEF TypeOK
<1>2. ASSUME NEW p \in Peer, Life(p) \/ Up(p) \/ Down(p) PROVE AckInv'
  BY <1>2, <1>t, LifeAck, UpAck, DownAck
<1> QED BY <1>1, <1>2 DEF Next

\* No upstream task leaves on the acknowledgement count while a block it sent is
\* missing on the other side, unless one was acknowledged twice (the down_done
\* and lifetime_tick arms of the post-EOF loop).
THEOREM NoEarlyLeaving == Spec => []NoEarlyLeave
<1>1. AckInv => NoEarlyLeave
  BY DEF AckInv
<1> QED BY <1>1, InitAck, NextAck, PTL DEF Spec

-----------------------------------------------------------------------------
(* Each direction is an ordered stream.                                    *)

\* The far socket has been shut down after a regular end of the stream.
Closed(p) == down[Other(p)] = "shut" /\ eof[p]

\* A count is announced, and an end of stream seen, only when the read loop is
\* over; the loop of the other side's task ends on the count, with everything.
StreamPart(p) ==
  /\ delivered[p] <= sent[p]
  /\ count[p] # "none" \/ eof[p] => up[p] # "reading"
  /\ down[Other(p)] = "shut" => count[p] = "known" /\ delivered[p] >= sent[p]

\* A server that still dials has not received anything.
NotBegun == run["server"] = "starting" => down["server"] = "open"

StreamInv == TypeOK /\ OnlySent /\ NotBegun /\ \A p \in Peer : StreamPart(p)

\* The steps of OrderedStream, for the blocks of p.
Wrote(p) ==
  /\ ~eof[p] /\ sent[p] < Blocks[p]
  /\ sent'[p] = sent[p] + 1 /\ eof'[p] = eof[p]
  /\ delivered'[p] = delivered[p] /\ Closed(p)' = Closed(p)

ClosedWrite(p) ==
  /\ ~eof[p] /\ eof'[p] = TRUE
  /\ sent'[p] = sent[p] /\ delivered'[p] = delivered[p] /\ Closed(p)' = Closed(p)

Delivers(p) ==
  /\ ~Closed(p)
  /\ delivered'[p] \in delivered[p] .. sent[p]
  /\ Closed(p)' => eof[p] /\ delivered'[p] = sent[p]
  /\ sent'[p] = sent[p] /\ eof'[p] = eof[p]

Stutters(p) ==
  /\ sent'[p] = sent[p] /\ eof'[p] = eof[p]
  /\ delivered'[p] = delivered[p] /\ Closed(p)' = Closed(p)

StreamStep(p) == Wrote(p) \/ ClosedWrite(p) \/ Delivers(p) \/ Stutters(p)

\* A step that leaves p's stream alone.
LEMMA StillStream ==
  ASSUME StreamInv, TypeOK', NEW p \in Peer,
         sent'[p] = sent[p], eof'[p] = eof[p], delivered'[p] = delivered[p],
         count'[p] = count[p],
         up'[p] = "reading" => up[p] = "reading",
         down'[Other(p)] = "shut" <=> down[Other(p)] = "shut"
  PROVE  StreamPart(p)' /\ StreamStep(p)
<1>1. StreamPart(p)
  BY DEF StreamInv
<1>2. StreamPart(p)'
  BY <1>1, Others DEF StreamPart
<1>3. Stutters(p)
  BY DEF Stutters, Closed
<1> QED BY <1>2, <1>3 DEF StreamStep

\* What an arm of the downstream loop may do: deliver a run of blocks that were
\* sent, and end on the count.
LEMMA DeliverStream ==
  ASSUME StreamInv, TypeOK', NEW q \in Peer, down[q] = "open",
         NEW floor \in Nat, delivered[Other(q)] <= floor, floor <= sent[Other(q)],
         delivered'[Other(q)] = floor,
         DownAfter(q, count'[Other(q)], floor),
         count'[Other(q)] # "none" => count[Other(q)] # "none",
         UNCHANGED <<sent, eof, up>>
  PROVE  StreamPart(Other(q))' /\ StreamStep(Other(q))
<1> DEFINE p == Other(q)
<1>p. p \in Peer /\ Other(p) = q
  BY Others
<1>1. StreamPart(p)
  BY <1>p DEF StreamInv
<1>2. down'[q] = IF count'[p] = "known" /\ floor >= sent[p] THEN "shut" ELSE "open"
  BY DEF DownAfter, AtEnd, StreamInv, TypeOK
<1>3. StreamPart(p)'
  BY <1>1, <1>2, <1>p DEF StreamPart
<1>4. sent[p] \in Nat /\ delivered[p] \in Nat
  BY <1>p DEF StreamInv, TypeOK
<1>5. Delivers(p)
  <2>1. ~Closed(p)
    BY <1>p DEF Closed
  <2>2. Closed(p)' => eof[p] /\ floor = sent[p]
    BY <1>2, <1>4, <1>p DEF Closed
  <2>3. floor \in delivered[p] .. sent[p]
    BY <1>4
  <2> QED BY <2>1, <2>2, <2>3 DEF Delivers
<1> QED BY <1>3, <1>5 DEF StreamStep

LEMMA InitStream == Init => StreamInv
<1> SUFFICES ASSUME Init PROVE StreamInv
  OBVIOUS
<1>1. TypeOK /\ OnlySent /\ NotBegun
  BY InitType, InitAck DEF AckInv, Init, NotBegun
<1>2. \A p \in Peer : StreamPart(p)
  BY Others DEF Init, StreamPart
<1> QED BY <1>1, <1>2 DEF StreamInv

LEMMA UpStream ==
  ASSUME StreamInv, TypeOK', NEW r \in Peer, Up(r), NEW p \in Peer
  PROVE  StreamPart(p)' /\ StreamStep(p)
<1>t. TypeOK /\ StreamPart(p)
  BY DEF StreamInv
<1>1. CASE EmitBlock(r) /\ r = p
  <2>1. Wrote(p)
    BY <1>1, <1>t DEF EmitBlock, Reading, StreamPart, TypeOK, Wrote, Closed, taskVars
  <2>2. StreamPart(p)'
    BY <1>1, <1>t DEF EmitBlock, Reading, StreamPart, TypeOK, taskVars
  <2> QED BY <2>1, <2>2 DEF StreamStep
<1>2. CASE ReadEof(r) /\ r = p
  <2>1. ClosedWrite(p)
    BY <1>2, <1>t DEF ReadEof, LeaveReadLoop, Reading, StreamPart, TypeOK,
                      ClosedWrite, Closed
  <2>2. StreamPart(p)'
    BY <1>2, <1>t DEF ReadEof, LeaveReadLoop, Reading, StreamPart, TypeOK
  <2> QED BY <2>1, <2>2 DEF StreamStep
<1>3. CASE UpStallAbort(r) /\ r = p
  <2>1. Stutters(p)
    BY <1>3, <1>t DEF UpStallAbort, LeaveReadLoop, TypeOK, Stutters, Closed
  <2>2. StreamPart(p)'
    BY <1>3, <1>t DEF UpStallAbort, LeaveReadLoop, Reading, StreamPart, TypeOK
  <2> QED BY <2>1, <2>2 DEF StreamStep
<1>4. CASE (EmitBlock(r) \/ ReadEof(r) \/ UpStallAbort(r)) /\ r # p
  BY <1>4, <1>t, StillStream
     DEF EmitBlock, ReadEof, UpStallAbort, LeaveReadLoop, TypeOK, taskVars
<1>5. CASE ReadFails(r) \/ FastBreak(r) \/ DrainStall(r)
  BY <1>5, <1>t, StillStream DEF ReadFails, FastBreak, DrainStall, UpEnds, TypeOK
<1>6. CASE TakeAck(r)
  BY <1>6, StillStream DEF TakeAck, taskVars
<1>7. CASE DownDone(r)
  BY <1>7, <1>t, StillStream DEF DownDone, UpEnds, TypeOK, dataVars
<1>8. ASSUME NEW b \in Block(r), Serve(r, b)
      PROVE  StreamPart(p)' /\ StreamStep(p)
  BY <1>8, StillStream DEF Serve, taskVars
<1> QED BY <1>1, <1>2, <1>3, <1>4, <1>5, <1>6, <1>7, <1>8 DEF Up

LEMMA DownStream ==
  ASSUME StreamInv, TypeOK', NEW q \in Peer, Down(q), NEW p \in Peer
  PROVE  StreamPart(p)' /\ StreamStep(p)
<1> DEFINE s == Other(q)
<1>s. s \in Peer /\ Other(s) = q /\ (p # s => Other(p) # q) /\ Other(p) \in Peer
  BY DEF Other
<1>t. TypeOK /\ OnlySent /\ StreamPart(p) /\ StreamPart(s)
  BY <1>s DEF StreamInv
<1>n. sent[s] \in Nat /\ delivered[s] \in Nat /\ delivered[s] <= sent[s] /\ Blocks[s] \in Nat
  BY <1>s, <1>t DEF TypeOK, StreamPart
<1>1. CASE CountArrives(q)
  <2>1. /\ down[q] = "open" /\ UNCHANGED <<sent, eof, up, delivered>>
        /\ DownAfter(q, "known", delivered[s])
        /\ count'[s] = "known" /\ count[s] = "wire"
        /\ p # s => count'[p] = count[p]
    BY <1>1, <1>s, <1>t DEF CountArrives, Receiving, TypeOK
  <2>2. CASE p = s
    BY <2>1, <2>2, <1>n, DeliverStream
  <2>3. CASE p # s
    <3>1. down'[Other(p)] = down[Other(p)]
      BY <2>1, <2>3, <1>s, <1>t DEF DownAfter, TypeOK
    <3> QED BY <2>1, <2>3, <3>1, StillStream
  <2> QED BY <2>2, <2>3
<1>2. CASE DownStall(q)
  BY <1>2, <1>s, <1>t, StillStream DEF DownStall, Receiving, TypeOK, dataVars
<1>3. ASSUME NEW b \in Block(s), BurstArrives(q, b)
      PROVE  StreamPart(p)' /\ StreamStep(p)
  <2>1. PICK floor \in delivered[s] .. Blocks[s] :
           /\ RunEnds(s, Held(s) \cup {b}, floor)
           /\ \/ /\ delivered' = [delivered EXCEPT ![s] = floor]
                 /\ DownAfter(q, count[s], floor)
              \/ /\ down' = [down EXCEPT ![q] = "failed"]
                 /\ UNCHANGED delivered
    BY <1>3, Arrival, <1>t
  <2>2. down[q] = "open" /\ UNCHANGED <<sent, eof, up, count>> /\ block[s][b] = "flying"
    BY <1>3 DEF BurstArrives, Receiving
  <2>3. floor \in Nat /\ delivered[s] <= floor
    BY <1>n
  <2>4. floor <= sent[s]
    <3> SUFFICES ASSUME floor > sent[s] PROVE FALSE
      BY <1>n, <2>3
    <3>1. sent[s] \in delivered[s] .. floor - 1
      BY <1>n, <2>3
    <3>2. sent[s] \in Held(s) \cup {b}
      BY <3>1, <2>1 DEF RunEnds
    <3>3. b \in Nat /\ b < sent[s]
      <4>1. b \in Nat
        BY DEF Block
      <4> QED BY <4>1, <2>2, <1>s, <1>t, <1>n DEF OnlySent
    <3>4. sent[s] \notin Sent(s)
      BY <1>n DEF Sent
    <3> QED BY <3>2, <3>3, <3>4, <1>s, <1>t, <1>n, HeldSent
  <2>5. CASE /\ delivered' = [delivered EXCEPT ![s] = floor]
             /\ DownAfter(q, count[s], floor)
    <3>1. delivered'[s] = floor /\ (p # s => delivered'[p] = delivered[p])
      BY <2>5, <1>s, <1>t DEF TypeOK
    <3>2. CASE p = s
      BY <2>2, <2>3, <2>4, <2>5, <3>1, <3>2, DeliverStream
    <3>3. CASE p # s
      <4>1. down'[Other(p)] = down[Other(p)]
        BY <2>5, <3>3, <1>s, <1>t DEF DownAfter, TypeOK
      <4> QED BY <2>2, <3>1, <3>3, <4>1, StillStream
    <3> QED BY <3>2, <3>3
  <2>6. CASE /\ down' = [down EXCEPT ![q] = "failed"]
             /\ UNCHANGED delivered
    BY <2>2, <2>6, <1>s, <1>t, StillStream DEF TypeOK
  <2> QED BY <2>1, <2>5, <2>6
<1>4. ASSUME NEW b \in Block(s), Ask(q, b)
      PROVE  StreamPart(p)' /\ StreamStep(p)
  BY <1>4, StillStream DEF Ask, taskVars
<1>5. ASSUME NEW b \in Block(s), AckAgain(q, b)
      PROVE  StreamPart(p)' /\ StreamStep(p)
  BY <1>5, StillStream DEF AckAgain, taskVars
<1> QED BY <1>1, <1>2, <1>3, <1>4, <1>5 DEF Down

LEMMA LifeStream ==
  ASSUME StreamInv, TypeOK', NEW r \in Peer, Life(r), NEW p \in Peer
  PROVE  StreamPart(p)' /\ StreamStep(p)
<1>t. TypeOK /\ Other(p) \in Peer
  BY Others DEF StreamInv
<1>1. CASE Abandon(r)
  <2>1. up'[p] = "reading" => up[p] = "reading"
    BY <1>1, <1>t DEF Abandon, TypeOK
  <2>2. down'[Other(p)] = "shut" <=> down[Other(p)] = "shut"
    BY <1>1, <1>t DEF Abandon, DownEnded, TypeOK
  <2>3. UNCHANGED <<eof, sent, delivered, count>>
    BY <1>1 DEF Abandon
  <2> QED BY <2>1, <2>2, <2>3, StillStream
<1>2. CASE WriterEnds(r) \/ Join(r)
  BY <1>2, StillStream DEF WriterEnds, Join, dataVars
<1> QED BY <1>1, <1>2 DEF Life, HearReset, LoseConnection, HearLoss

LEMMA StaysNotBegun ==
  ASSUME TypeOK, NotBegun, [Next]_vars
  PROVE  NotBegun'
<1>1. CASE ConnectTarget \/ RefuseTarget \/ UNCHANGED vars
  BY <1>1 DEF TypeOK, NotBegun, ConnectTarget, RefuseTarget, vars, taskVars
<1>2. ASSUME NEW p \in Peer, Abandon(p) PROVE NotBegun'
  BY <1>2 DEF TypeOK, NotBegun, Abandon, Running
<1>3. ASSUME NEW p \in Peer, Life(p), ~Abandon(p) PROVE NotBegun'
  BY <1>3 DEF TypeOK, NotBegun, Life, HearReset, LoseConnection, HearLoss,
              WriterEnds, Join, Running
<1>4. ASSUME NEW p \in Peer, Up(p) PROVE NotBegun'
  <2>1. UNCHANGED <<run, down>>
    BY <1>4 DEF Up, EmitBlock, ReadEof, UpStallAbort, LeaveReadLoop, ReadFails,
                TakeAck, DownDone, FastBreak, DrainStall, Serve, UpEnds, taskVars
  <2> QED BY <2>1 DEF NotBegun
<1>5. ASSUME NEW q \in Peer, Down(q) PROVE NotBegun'
  <2>1. run[q] = "running" /\ UNCHANGED run
    BY <1>5 DEF Down, CountArrives, DownStall, BurstArrives, Ask, AckAgain,
                Receiving, Running, taskVars
  <2>2. \A r \in Peer : r # q => down'[r] = down[r]
    <3>1. ASSUME NEW b \in Block(Other(q)), BurstArrives(q, b)
          PROVE  \A r \in Peer : r # q => down'[r] = down[r]
      <4>1. PICK floor : \/ DownAfter(q, count[Other(q)], floor)
                         \/ down' = [down EXCEPT ![q] = "failed"]
        BY <3>1, Arrival
      <4> QED BY <4>1 DEF TypeOK, DownAfter
    <3>2. CASE CountArrives(q) \/ DownStall(q)
      BY <3>2 DEF CountArrives, DownAfter, DownStall, TypeOK
    <3>3. CASE UNCHANGED down
      BY <3>3
    <3> QED BY <1>5, <3>1, <3>2, <3>3 DEF Down, Ask, AckAgain, taskVars
  <2> QED BY <2>1, <2>2 DEF NotBegun
<1> QED BY <1>1, <1>2, <1>3, <1>4, <1>5 DEF Next

LEMMA NextStream ==
  ASSUME StreamInv, AckInv, AckInv', [Next]_vars
  PROVE  StreamInv' /\ \A p \in Peer : StreamStep(p)
<1>t. TypeOK /\ TypeOK' /\ OnlySent' /\ NotBegun'
  BY StaysNotBegun DEF AckInv, StreamInv
<1> SUFFICES ASSUME NEW p \in Peer PROVE StreamPart(p)' /\ StreamStep(p)
  BY <1>t DEF StreamInv
<1>1. CASE ConnectTarget \/ UNCHANGED vars
  BY <1>1, <1>t, StillStream DEF ConnectTarget, vars, taskVars, dataVars
<1>2. CASE RefuseTarget
  <2>1. down'[Other(p)] = "shut" => down[Other(p)] = "shut"
    BY <1>2, <1>t, Others DEF RefuseTarget, TypeOK
  <2>2. down[Other(p)] = "shut" => down'[Other(p)] = "shut"
    BY <1>2, <1>t, Others DEF RefuseTarget, TypeOK, StreamInv, NotBegun
  <2>3. up'[p] = "reading" => up[p] = "reading"
    BY <1>2, <1>t DEF RefuseTarget, TypeOK
  <2>4. UNCHANGED <<eof, sent, delivered, count>>
    BY <1>2 DEF RefuseTarget, dataVars
  <2> QED BY <2>1, <2>2, <2>3, <2>4, <1>t, StillStream
<1>3. ASSUME NEW r \in Peer, Life(r) \/ Up(r) \/ Down(r)
      PROVE  StreamPart(p)' /\ StreamStep(p)
  BY <1>3, <1>t, LifeStream, UpStream, DownStream
<1> QED BY <1>1, <1>2, <1>3 DEF Next

\* A step of the tunnel is a step of the client's stream to the server and one
\* of the server's stream to the client, or leaves them alone.
LEMMA StreamSteps ==
  ASSUME StreamInv, \A p \in Peer : StreamStep(p)
  PROVE  /\ [Request!StreamNext]_(Request!streamVars)
         /\ [Response!StreamNext]_(Response!streamVars)
<1>1. TypeOK /\ StreamStep("client") /\ StreamStep("server")
  BY DEF StreamInv
<1>2. Other("client") = "server" /\ Other("server") = "client"
  BY DEF Other
<1>3. [Request!StreamNext]_(Request!streamVars)
  <2>1. CASE Wrote("client")
    BY <2>1, <1>2 DEF Wrote, Closed, Request!StreamNext, Request!Write
  <2>2. CASE ClosedWrite("client")
    BY <2>2, <1>2 DEF ClosedWrite, Closed, Request!StreamNext, Request!CloseWrite
  <2>3. CASE Delivers("client")
    BY <2>3, <1>1, <1>2 DEF Delivers, Closed, TypeOK, Request!StreamNext, Request!Deliver
  <2>4. CASE Stutters("client")
    BY <2>4, <1>2 DEF Stutters, Closed, Request!streamVars
  <2> QED BY <1>1, <2>1, <2>2, <2>3, <2>4 DEF StreamStep
<1>4. [Response!StreamNext]_(Response!streamVars)
  <2>1. CASE Wrote("server")
    BY <2>1, <1>2 DEF Wrote, Closed, Response!StreamNext, Response!Write
  <2>2. CASE ClosedWrite("server")
    BY <2>2, <1>2 DEF ClosedWrite, Closed, Response!StreamNext, Response!CloseWrite
  <2>3. CASE Delivers("server")
    BY <2>3, <1>1, <1>2 DEF Delivers, Closed, TypeOK, Response!StreamNext, Response!Deliver
  <2>4. CASE Stutters("server")
    BY <2>4, <1>2 DEF Stutters, Closed, Response!streamVars
  <2> QED BY <1>1, <2>1, <2>2, <2>3, <2>4 DEF StreamStep
<1> QED BY <1>3, <1>4

\* run_fec_tunnel on both ends implements OrderedStream in each direction, with
\* resets, stalls, failing sockets and lost connections: its steps are steps of
\* the abstract stream or leave it unchanged.
THEOREM ImplementsStreams == Spec => StreamContract
<1>1. Init => StreamInv /\ Request!StreamInit /\ Response!StreamInit
  BY InitStream DEF Init, Request!StreamInit, Response!StreamInit
<1>2. StreamInv /\ AckInv /\ AckInv' /\ [Next]_vars
        => /\ StreamInv'
           /\ [Request!StreamNext]_(Request!streamVars)
           /\ [Response!StreamNext]_(Response!streamVars)
  BY NextStream, StreamSteps
<1> QED BY <1>1, <1>2, InitAck, NextAck, PTL
        DEF Spec, StreamContract, Request!StreamSpec, Response!StreamSpec

=============================================================================
