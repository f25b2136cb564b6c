--------------------------- MODULE FecTunnelProofs ---------------------------
(***************************************************************************)
(* What holds of a tunnel direction for every number of blocks, every      *)
(* block size, retention window, loss, reordering and interleaving: the    *)
(* types, that the sender never forgets a block of its retention window    *)
(* that is still missing, that the tunnel implements the ordered stream,   *)
(* but for the end of a stream that a stall guard cuts short, and that a   *)
(* recovery once begun is only lost at a full channel.                     *)
(***************************************************************************)
EXTENDS FecTunnel, TLAPS

-----------------------------------------------------------------------------
(* Helpers.                                                                *)

LEMMA CappedType ==
  ASSUME NEW n \in Nat, NEW bound \in Nat
  PROVE  Capped(n, bound) \in 0 .. bound
  BY DEF Capped

\* Putting symbols on the wire keeps its type.
LEMMA TransmitType ==
  ASSUME TypeOK, NEW b \in Block, NEW s \in Nat, Transmit(b, s)
  PROVE  net' \in [Block -> 0 .. MaxSymbols]
<1>1. net[b] + s \in Nat /\ MaxSymbols \in Nat
  BY TunnelAssumption DEF TypeOK
<1>2. Capped(net[b] + s, MaxSymbols) \in 0 .. MaxSymbols
  BY <1>1, CappedType
<1>3. net' = [net EXCEPT ![b] = Capped(net[b] + s, MaxSymbols)]
  BY DEF Transmit
<1> QED
  BY <1>2, <1>3 DEF TypeOK

\* Queueing a signal keeps the channel's type, and the only channel entries
\* that can come into being are the ones queued.
LEMMA SignalType ==
  ASSUME NEW wire \in [Block -> 0 .. MaxSignals], NEW bs
  PROVE  /\ Signal(wire, bs) \in [Block -> 0 .. MaxSignals]
         /\ \A b \in Block : Signal(wire, bs)[b] > 0 => wire[b] > 0 \/ b \in bs
  BY TunnelAssumption DEF Signal, Capped

\* A completed block is held from now on, and nothing that was held is lost.
LEMMA CompleteType ==
  ASSUME TypeOK, NEW b \in Block, Complete(b)
  PROVE  /\ nextDeliver' \in nextDeliver .. MaxBlocks
         /\ ready' \subseteq Block
         /\ downPhase' \in {"open", "shut"}
         /\ acks' \in [Block -> 0 .. MaxSignals]
         /\ \A c \in Block : acks'[c] > 0 => acks[c] > 0 \/ c = b
         /\ \A c \in Block : Held(c) \/ c = b => Held(c)'
         /\ \A c \in nextDeliver .. nextDeliver' - 1 : c \in ready \cup {b}
         /\ ready' \subseteq ready \cup {b}
         /\ downPhase' = "shut" <=> AtEnd(total, nextDeliver')
<1> DEFINE held == ready \cup {b}
<1>1. PICK floor \in nextDeliver .. MaxBlocks + 1 :
        /\ RunEnds(held, floor)
        /\ nextDeliver' = floor
        /\ ready' = held \ (nextDeliver .. floor - 1)
        /\ downPhase' = IF AtEnd(total, floor) THEN "shut" ELSE "open"
  BY DEF Complete
<1>2. /\ MaxBlocks \in Nat /\ nextDeliver \in Nat /\ held \subseteq Block
  BY TunnelAssumption DEF TypeOK
<1>3. floor <= MaxBlocks
  <2> SUFFICES ASSUME floor = MaxBlocks + 1 PROVE FALSE
    BY <1>2
  <2>1. nextDeliver <= MaxBlocks
    BY <1>2 DEF TypeOK
  <2>2. MaxBlocks \in held
    BY <1>1, <1>2, <2>1 DEF RunEnds
  <2> QED
    BY <1>2, <2>2 DEF Block
<1>4. /\ acks' \in [Block -> 0 .. MaxSignals]
      /\ \A c \in Block : acks'[c] > 0 => acks[c] > 0 \/ c = b
  BY SignalType DEF Complete, Acknowledge, TypeOK
<1>5. \A c \in Block : c < nextDeliver \/ c \in held => c < floor \/ c \in ready'
  BY <1>1, <1>2 DEF Block
<1> QED
  BY <1>1, <1>2, <1>3, <1>4, <1>5 DEF Held, RunEnds

\* The blocks a tick finds lost are blocks.
LEMMA LostType ==
  ASSUME TypeOK
  PROVE  Lost \subseteq Block
<1>1. UpperBound \in 0 .. MaxBlocks
  BY TunnelAssumption
     DEF TypeOK, UpperBound, BySeen, ByTotal, Larger, Block, None
<1>2. nextDeliver \in Nat
  BY DEF TypeOK
<1> QED
  BY <1>1, <1>2, TunnelAssumption DEF Lost, Block

-----------------------------------------------------------------------------
(* Types.                                                                  *)

LEMMA InitTypes == Init => TypeOK
<1> SUFFICES ASSUME Init PROVE TypeOK
  OBVIOUS
<1>1. NoManager \in Manager
  BY DEF Manager, NoManager
<1>2. 0 \in Block /\ 0 \in 0 .. MaxSymbols /\ 0 \in 0 .. MaxSignals
      /\ 0 \in 0 .. K /\ 0 \in 0 .. TopupCap /\ 0 \in 0 .. MaxBlocks
  BY TunnelAssumption DEF Block
<1>3. /\ blockK \in [Block -> 0 .. K] /\ topups \in [Block -> 0 .. TopupCap]
      /\ net \in [Block -> 0 .. MaxSymbols] /\ nacks \in [Block -> 0 .. MaxSymbols]
      /\ relReqs \in [Block -> 0 .. MaxSignals]
      /\ relData \in [Block -> 0 .. MaxSignals]
      /\ acks \in [Block -> 0 .. MaxSignals]
      /\ mgr \in [Block -> Manager]
  BY <1>1, <1>2 DEF Init
<1> QED
  BY <1>2, <1>3 DEF Init, TypeOK

LEMMA UpTypes ==
  ASSUME TypeOK, Up
  PROVE  TypeOK'
<1> USE TunnelAssumption
<1>1. CASE EmitBlock
  <2>1. PICK k \in 1 .. K, repair \in MinRepair .. MaxRepair :
          /\ blockK' = [blockK EXCEPT ![nextBlock] = k]
          /\ \E s \in 0 .. k + repair : Transmit(nextBlock, s)
    BY <1>1 DEF EmitBlock
  <2>2. nextBlock \in Block
    BY <1>1 DEF EmitBlock, TypeOK, Block
  <2>3. net' \in [Block -> 0 .. MaxSymbols]
    <3>1. PICK s \in 0 .. k + repair : Transmit(nextBlock, s)
      BY <2>1
    <3>2. s \in Nat
      BY <3>1
    <3> QED
      BY <3>1, <3>2, <2>2, TransmitType
  <2>4. /\ nextBlock' \in 0 .. MaxBlocks
        /\ hwWire' \subseteq 1 .. MaxBlocks
    BY <1>1 DEF EmitBlock, TypeOK
  <2>5. blockK' \in [Block -> 0 .. K] /\ retained' \subseteq Block
    <3>1. retained \subseteq Block /\ blockK \in [Block -> 0 .. K] /\ k \in 0 .. K
      BY <2>1 DEF TypeOK
    <3>2. retained' \subseteq retained \cup {nextBlock}
      BY <1>1 DEF EmitBlock
    <3> QED
      BY <2>1, <2>2, <3>1, <3>2
  <2>6. topups' \in [Block -> 0 .. TopupCap]
    BY <1>1 DEF EmitBlock, TypeOK
  <2>7. UNCHANGED <<phase, eof, acked, countWire, nacks, relReqs, relData,
                    acks, downVars>>
    BY <1>1 DEF EmitBlock
  <2> QED
    BY <2>3, <2>4, <2>5, <2>6, <2>7 DEF TypeOK, downVars
<1>2. CASE ReadEof \/ UpStallAbort
  BY <1>2 DEF ReadEof, UpStallAbort, LeaveReadLoop, TypeOK, downVars
<1>3. CASE ProactiveTopup
  <2>1. PICK chosen \in SUBSET {b \in retained : topups[b] < TopupCap} :
          /\ \E survive \in [chosen -> 0 .. Larger(K \div 4, 1)] :
               net' = [b \in Block |-> IF b \in chosen
                                      THEN Capped(net[b] + survive[b], MaxSymbols)
                                      ELSE net[b]]
          /\ topups' = [b \in Block |-> IF b \in chosen THEN topups[b] + 1
                                        ELSE topups[b]]
    BY <1>3 DEF ProactiveTopup
  <2>2. PICK survive \in [chosen -> 0 .. Larger(K \div 4, 1)] :
          net' = [b \in Block |-> IF b \in chosen
                                 THEN Capped(net[b] + survive[b], MaxSymbols)
                                 ELSE net[b]]
    BY <2>1
  <2>3. \A b \in chosen : survive[b] \in Nat
    BY <2>2
  <2>4. \A b \in chosen \cap Block :
          Capped(net[b] + survive[b], MaxSymbols) \in 0 .. MaxSymbols
    <3>1. \A b \in chosen \cap Block : net[b] + survive[b] \in Nat
      BY <2>3 DEF TypeOK
    <3> QED
      BY <3>1, CappedType
  <2>5. net' \in [Block -> 0 .. MaxSymbols]
    BY <2>2, <2>4 DEF TypeOK
  <2>6. topups' \in [Block -> 0 .. TopupCap]
    BY <2>1 DEF TypeOK
  <2> QED
    BY <1>3, <2>5, <2>6 DEF ProactiveTopup, TypeOK, downVars
<1>4. CASE UpFinish
  BY <1>4 DEF UpFinish, TypeOK, downVars
<1>5. ASSUME NEW b \in Block, ServeNack(b)
      PROVE  TypeOK'
  <2>1. net' \in [Block -> 0 .. MaxSymbols]
    <3>1. CASE \E s \in 0 .. nacks[b] : Transmit(b, s)
      BY <3>1, TransmitType
    <3> QED
      BY <1>5, <3>1 DEF ServeNack, TypeOK
  <2>2. /\ nacks' \in [Block -> 0 .. MaxSymbols]
        /\ UNCHANGED <<upVars, hwWire, countWire, relReqs, relData, acks, downVars>>
    BY <1>5 DEF ServeNack, TypeOK
  <2> QED
    BY <2>1, <2>2 DEF TypeOK, upVars, downVars
<1>6. ASSUME NEW b \in Block, ServeReliable(b)
      PROVE  TypeOK'
  <2>1. relData' \in [Block -> 0 .. MaxSignals]
    <3>1. relData[b] + 1 \in Nat
      BY DEF TypeOK
    <3>2. Capped(relData[b] + 1, MaxSignals) \in 0 .. MaxSignals
      BY <3>1, CappedType
    <3>3. \/ UNCHANGED relData
          \/ relData' = [relData EXCEPT ![b] = Capped(relData[b] + 1, MaxSignals)]
      BY <1>6 DEF ServeReliable, TypeOK
    <3> QED
      BY <3>2, <3>3 DEF TypeOK
  <2>2. relReqs' \in [Block -> 0 .. MaxSignals]
    BY <1>6 DEF ServeReliable, TypeOK
  <2> QED
    BY <1>6, <2>1, <2>2 DEF ServeReliable, TypeOK, upVars, downVars
<1>7. ASSUME NEW b \in Block, TakeAck(b)
      PROVE  TypeOK'
  <2>1. acked' \in 0 .. MaxBlocks
    BY <1>7, CappedType DEF TakeAck, TypeOK
  <2> QED
    BY <1>7, <2>1 DEF TakeAck, TypeOK, downVars
<1> QED
  BY <1>1, <1>2, <1>3, <1>4, <1>5, <1>6, <1>7 DEF Up

LEMMA TickTypes ==
  ASSUME TypeOK, Tick
  PROVE  TypeOK'
<1> USE TunnelAssumption
<1>1. PICK expired \in SUBSET {b \in Block : Short(b)}, congested \in BOOLEAN,
           granted \in SUBSET {b \in Block : Short(b)} :
        TickWith(expired, granted, congested)
  BY DEF Tick
<1> DEFINE nacked == IF congested THEN {} ELSE granted
           request == ((expired \ nacked) \ relRequested) \cup Lost
<1>2. mgr' \in [Block -> Manager]
  <2>1. \A b \in Block, s \in {"nackSent", "degraded"} :
          [mgr[b] EXCEPT !.st = s] \in Manager
    BY DEF TypeOK, Manager
  <2> QED
    BY <1>1, <2>1 DEF TickWith, TypeOK
<1>3. nacks' \in [Block -> 0 .. MaxSymbols]
  <2>1. \A b \in granted : /\ b \in Block
                           /\ nacks[b] + blockK[b] - mgr[b].recv \in Nat
    BY <1>1 DEF Short, TypeOK, Manager
  <2>2. \A b \in granted :
          Capped(nacks[b] + blockK[b] - mgr[b].recv, MaxSymbols) \in 0 .. MaxSymbols
    BY <2>1, CappedType
  <2> QED
    BY <1>1, <2>2 DEF TickWith, TypeOK
<1>4. relRequested' \subseteq Block
  BY <1>1, LostType DEF TickWith, TypeOK
<1>5. relReqs' \in [Block -> 0 .. MaxSignals]
  BY <1>1, SignalType DEF TickWith, TypeOK
<1> QED
  BY <1>1, <1>2, <1>3, <1>4, <1>5 DEF TickWith, TypeOK, upVars

LEMMA DownTypes ==
  ASSUME TypeOK, Down
  PROVE  TypeOK'
<1> USE TunnelAssumption
<1>1. CASE CountArrives
  BY <1>1 DEF CountArrives, TypeOK, upVars
<1>2. CASE HighWaterArrives
  BY <1>2 DEF HighWaterArrives, Larger, TypeOK, upVars
<1>3. CASE Tick
  BY <1>3, TickTypes
<1>4. CASE DownStall
  BY <1>4 DEF DownStall, TypeOK, upVars, wireVars
<1>5. ASSUME NEW b \in Block, SymbolArrives(b)
      PROVE  TypeOK'
  <2>1. /\ net' \in [Block -> 0 .. MaxSymbols]
        /\ UNCHANGED <<upVars, hwWire, countWire, nacks, relReqs, relData>>
    BY <1>5 DEF SymbolArrives, TypeOK
  <2>2. CASE SymbolLate(b)
    BY <2>1, <2>2 DEF SymbolLate, TypeOK, upVars, downVars
  <2>3. CASE SymbolCounts(b)
    <3>1. /\ highestSeen' \in Block
          /\ UNCHANGED <<highWater, total, relRequested>>
      BY <2>3 DEF SymbolCounts, Larger, TypeOK, Block
    <3>2. mgr' \in [Block -> Manager]
      <4>1. /\ NoManager \in Manager
            /\ [st |-> "filling", recv |-> mgr[b].recv + 1] \in Manager
        BY DEF TypeOK, Manager, NoManager
      <4>2. \/ mgr' = mgr
            \/ \E m \in Manager : mgr' = [mgr EXCEPT ![b] = m]
        BY <2>3, <4>1 DEF SymbolCounts
      <4> QED
        BY <4>2 DEF TypeOK
    <3>3. \/ Complete(b)
          \/ UNCHANGED <<ready, nextDeliver, acks, downPhase>>
      BY <2>3 DEF SymbolCounts
    <3>4. /\ ready' \subseteq Block /\ nextDeliver' \in 0 .. MaxBlocks
          /\ downPhase' \in {"open", "shut", "stalled"}
          /\ acks' \in [Block -> 0 .. MaxSignals]
      BY <3>3, CompleteType DEF TypeOK
    <3> QED
      BY <2>1, <3>1, <3>2, <3>4 DEF TypeOK, upVars
  <2> QED
    BY <1>5, <2>2, <2>3 DEF SymbolArrives
<1>6. ASSUME NEW b \in Block, ReliableDataArrives(b)
      PROVE  TypeOK'
  <2>1. /\ relData' \in [Block -> 0 .. MaxSignals]
        /\ mgr' \in [Block -> Manager]
        /\ relRequested' \subseteq Block
        /\ UNCHANGED <<upVars, net, hwWire, countWire, nacks, relReqs,
                       highestSeen, highWater, total>>
    BY <1>6 DEF ReliableDataArrives, TypeOK, Manager, NoManager
  <2>2. \/ Complete(b)
        \/ UNCHANGED <<ready, nextDeliver, acks, downPhase>>
    BY <1>6 DEF ReliableDataArrives
  <2>3. /\ ready' \subseteq Block /\ nextDeliver' \in 0 .. MaxBlocks
        /\ downPhase' \in {"open", "shut", "stalled"}
        /\ acks' \in [Block -> 0 .. MaxSignals]
    BY <2>2, CompleteType DEF TypeOK
  <2> QED
    BY <2>1, <2>3 DEF TypeOK, upVars
<1>7. ASSUME NEW b \in StrayBlocks, StrayUnmark(b)
      PROVE  TypeOK'
  BY <1>7 DEF StrayUnmark, TypeOK, upVars, wireVars
<1> QED
  BY <1>1, <1>2, <1>3, <1>4, <1>5, <1>6, <1>7 DEF Down

LEMMA StepTypes == TypeOK /\ [Next]_vars => TypeOK'
<1>1. TypeOK /\ UNCHANGED vars => TypeOK'
  BY DEF TypeOK, vars, upVars, wireVars, downVars
<1> QED
  BY <1>1, UpTypes, DownTypes DEF Next

\* Every variable keeps its type; in particular next_deliver never runs past
\* the blocks of the stream, and the scan for lost blocks never names a block
\* that cannot exist (FecReceiver::drain_ready, FecReceiver::tick).
THEOREM TypeCorrect == Spec => []TypeOK
  BY InitTypes, StepTypes, PTL DEF Spec

-----------------------------------------------------------------------------
(* Nothing forgotten.                                                      *)

\* An acknowledgement in flight is about a block the receiver holds.
AcksMeanHeld == \A b \in Block : acks[b] > 0 => Held(b)

ForgetInv == TypeOK /\ AcksMeanHeld /\ NothingForgotten

\* A step that sends, evicts and retires nothing, and after which the receiver
\* holds whatever it held or acknowledges, forgets nothing.
LEMMA ReceivingForgetsNothing ==
  ASSUME ForgetInv, UNCHANGED <<nextBlock, retained>>, TypeOK',
         \A b \in Block : Held(b) => Held(b)',
         \A b \in Block : acks'[b] > 0 => acks[b] > 0 \/ Held(b)'
  PROVE  ForgetInv'
<1>1. Emitted' = Emitted /\ Emitted \subseteq Block
  BY TunnelAssumption DEF ForgetInv, TypeOK, Emitted, Block
<1>2. AcksMeanHeld'
  BY DEF ForgetInv, AcksMeanHeld
<1>3. NothingForgotten'
  BY <1>1 DEF ForgetInv, NothingForgotten
<1> QED
  BY <1>2, <1>3 DEF ForgetInv

LEMMA ForgetStep == ForgetInv /\ [Next]_vars => ForgetInv'
<1> SUFFICES ASSUME ForgetInv, [Next]_vars PROVE ForgetInv'
  OBVIOUS
<1> USE TunnelAssumption
<1>0. TypeOK /\ TypeOK'
  BY StepTypes DEF ForgetInv
<1>1. CASE \/ UNCHANGED vars \/ ReadEof \/ UpStallAbort \/ ProactiveTopup
           \/ CountArrives \/ HighWaterArrives \/ Tick \/ DownStall
           \/ \E b \in Block : ServeNack(b) \/ ServeReliable(b)
           \/ \E b \in StrayBlocks : StrayUnmark(b)
  <2>1. UNCHANGED <<nextBlock, retained, nextDeliver, ready, acks>>
    BY <1>1 DEF vars, upVars, wireVars, downVars, ReadEof, UpStallAbort,
                LeaveReadLoop, ProactiveTopup, CountArrives, HighWaterArrives,
                Tick, TickWith, DownStall, ServeNack, ServeReliable, StrayUnmark
  <2> QED
    BY <2>1, <1>0, ReceivingForgetsNothing DEF Held
<1>2. CASE EmitBlock
  <2>1. /\ nextBlock' = nextBlock + 1
        /\ retained' = (retained \cup {nextBlock})
                        \ (0 .. Cutoff(nextBlock + 1) - 1)
        /\ UNCHANGED <<nextDeliver, ready, acks>>
    BY <1>2 DEF EmitBlock, downVars
  <2>2. nextBlock \in Nat /\ RetainBlocks \in Nat
    BY <1>0 DEF TypeOK
  <2>3. ASSUME NEW b \in 0 .. nextBlock, b + RetainBlocks >= nextBlock + 1
        PROVE  b \in retained' \/ Held(b)'
    <3>1. b \notin 0 .. Cutoff(nextBlock + 1) - 1
      BY <2>2, <2>3 DEF Cutoff
    <3>2. b \in retained \/ b = nextBlock \/ Held(b)
      BY <2>2, <2>3 DEF ForgetInv, NothingForgotten, Emitted
    <3> QED
      BY <2>1, <3>1, <3>2 DEF Held
  <2>4. NothingForgotten'
    BY <2>1, <2>2, <2>3 DEF NothingForgotten, Emitted
  <2>5. AcksMeanHeld'
    BY <2>1 DEF ForgetInv, AcksMeanHeld, Held
  <2> QED
    BY <1>0, <2>4, <2>5 DEF ForgetInv
<1>3. CASE UpFinish
  <2>1. /\ UNCHANGED <<nextBlock, retained, nextDeliver, ready>>
        /\ \A b \in Block : acks'[b] = 0
    BY <1>3 DEF UpFinish, downVars
  <2> QED
    BY <2>1, <1>0, ReceivingForgetsNothing DEF Held
<1>4. ASSUME NEW b \in Block, TakeAck(b)
      PROVE  ForgetInv'
  <2>1. /\ acks[b] > 0
        /\ acks' = [acks EXCEPT ![b] = @ - 1]
        /\ retained' = retained \ {b}
        /\ UNCHANGED <<nextBlock, nextDeliver, ready>>
    BY <1>4 DEF TakeAck, downVars
  <2>2. Held(b)
    BY <2>1 DEF ForgetInv, AcksMeanHeld
  <2>3. NothingForgotten'
    BY <2>1, <2>2 DEF ForgetInv, NothingForgotten, Emitted, Held
  <2>4. AcksMeanHeld'
    BY <1>0, <2>1 DEF ForgetInv, AcksMeanHeld, Held, TypeOK
  <2> QED
    BY <1>0, <2>3, <2>4 DEF ForgetInv
<1>5. ASSUME NEW b \in Block, SymbolArrives(b) \/ ReliableDataArrives(b)
      PROVE  ForgetInv'
  <2>1. UNCHANGED <<nextBlock, retained>>
    BY <1>5 DEF SymbolArrives, ReliableDataArrives, upVars
  <2>2. Complete(b) \/ UNCHANGED <<ready, nextDeliver, acks>>
    BY <1>5 DEF SymbolArrives, SymbolLate, SymbolCounts, ReliableDataArrives,
                downVars
  <2>3. /\ \A c \in Block : Held(c) => Held(c)'
        /\ \A c \in Block : acks'[c] > 0 => acks[c] > 0 \/ Held(c)'
    <3>1. CASE Complete(b)
      BY <3>1, <1>0, CompleteType
    <3>2. CASE UNCHANGED <<ready, nextDeliver, acks>>
      BY <3>2 DEF Held
    <3> QED
      BY <2>2, <3>1, <3>2
  <2> QED
    BY <2>1, <2>3, <1>0, ReceivingForgetsNothing
<1> QED
  BY <1>1, <1>2, <1>3, <1>4, <1>5 DEF Next, Up, Down

\* A block inside the retention window that the receiver does not hold is
\* still retained, whatever the order of acknowledgements, evictions and the
\* end of the stream (FecSender::retire_block, evict_old_blocks).
THEOREM NeverForgotten == Spec => []NothingForgotten
<1>1. Init => ForgetInv
  BY InitTypes DEF Init, ForgetInv, AcksMeanHeld, NothingForgotten, Emitted
<1>2. ForgetInv => NothingForgotten
  BY DEF ForgetInv
<1> QED
  BY <1>1, <1>2, ForgetStep, PTL DEF Spec

-----------------------------------------------------------------------------
(* The ordered stream.                                                     *)

\* Everything the receiver may come to hold was emitted.
OnlyEmitted ==
  /\ nextDeliver <= nextBlock
  /\ ready \subseteq Emitted
  /\ retained \subseteq Emitted
  /\ \A b \in Block : net[b] > 0 \/ relData[b] > 0 => b \in Emitted

\* A total is announced once no more blocks are emitted, is the right one, and
\* shuts the socket down.
TotalsTrue ==
  /\ phase = "reading" => ~eof
  /\ countWire # None => phase # "reading" /\ countWire = nextBlock
  /\ total # None => phase # "reading" /\ total = nextBlock
  /\ downPhase = "shut" => phase # "reading"

StreamInv == TypeOK /\ OnlyEmitted /\ TotalsTrue

LEMMA StreamInit == Init => StreamInv /\ Stream!StreamInit
  BY InitTypes
     DEF Init, StreamInv, OnlyEmitted, TotalsTrue, Emitted, Truncated,
         Stream!StreamInit, None

\* A run that ends past its start and stays below a bound ends by the bound.
LEMMA RunEndsBelow ==
  ASSUME NEW first \in Nat, NEW last \in Nat, NEW bound \in Nat,
         first < last, \A c \in first .. last - 1 : c \in 0 .. bound - 1
  PROVE  last <= bound
<1>1. last - 1 \in first .. last - 1
  OBVIOUS
<1>2. last - 1 <= bound - 1
  BY <1>1
<1> QED
  BY <1>2

\* Completing an emitted block delivers a run of emitted blocks, and shuts the
\* socket only when that was the last one.
LEMMA CompleteDelivers ==
  ASSUME StreamInv, NEW b \in Block, b \in Emitted, Complete(b),
         downPhase = "open", UNCHANGED <<nextBlock, eof, phase>>
  PROVE  /\ Stream!Deliver
         /\ nextDeliver' <= nextBlock /\ ready' \subseteq Emitted
         /\ downPhase' = "shut" => phase # "reading"
<1>1. /\ nextDeliver' \in nextDeliver .. MaxBlocks
      /\ downPhase' \in {"open", "shut"}
      /\ \A c \in nextDeliver .. nextDeliver' - 1 : c \in ready \cup {b}
      /\ ready' \subseteq ready \cup {b}
      /\ downPhase' = "shut" <=> AtEnd(total, nextDeliver')
  BY CompleteType DEF StreamInv
<1>2. /\ nextDeliver \in Nat /\ nextBlock \in Nat /\ nextDeliver <= nextBlock
      /\ nextDeliver' \in Nat /\ nextDeliver <= nextDeliver'
  BY <1>1, TunnelAssumption DEF StreamInv, TypeOK, OnlyEmitted
<1>3. ready \cup {b} \subseteq Emitted
  BY DEF StreamInv, OnlyEmitted
<1>4. nextDeliver' <= nextBlock
  <2>1. CASE nextDeliver' = nextDeliver
    BY <2>1, <1>2
  <2>2. CASE nextDeliver' > nextDeliver
    <3>1. \A c \in nextDeliver .. nextDeliver' - 1 : c \in 0 .. nextBlock - 1
      BY <1>1, <1>3 DEF Emitted
    <3> QED
      BY <3>1, <2>2, <1>2, RunEndsBelow
  <2> QED
    BY <2>1, <2>2, <1>1, <1>2
<1>5. nextDeliver' \in nextDeliver .. nextBlock
  BY <1>1, <1>2, <1>4
<1>6. downPhase' = "shut" => phase # "reading" /\ nextDeliver' = nextBlock
  BY <1>1, <1>2, <1>4, <1>5 DEF AtEnd, StreamInv, TotalsTrue
<1>7. (downPhase' = "shut" /\ ~Truncated')
        \in {FALSE, eof /\ nextDeliver' = nextBlock}
  BY <1>6 DEF Truncated
<1> QED
  BY <1>1, <1>3, <1>4, <1>5, <1>6, <1>7 DEF Stream!Deliver

\* A step of the receiver that delivers nothing and decides nothing.
LEMMA QuietStep ==
  ASSUME StreamInv, TypeOK',
         UNCHANGED <<phase, eof, nextBlock, nextDeliver, ready, countWire, total,
                     downPhase>>,
         retained' \subseteq retained,
         \A b \in Block : net'[b] > 0 \/ relData'[b] > 0 => b \in Emitted
  PROVE  StreamInv'
  BY DEF StreamInv, OnlyEmitted, TotalsTrue, Emitted

\* Every step is a step of the ordered stream or leaves it alone.
LEMMA StreamStep ==
  ASSUME StreamInv, [Next]_vars
  PROVE  StreamInv' /\ [Stream!StreamNext]_(Stream!streamVars)
<1> USE TunnelAssumption DEF Truncated
<1>0. TypeOK /\ TypeOK'
  BY StepTypes DEF StreamInv
<1>1. CASE UNCHANGED vars
  BY <1>1, <1>0, QuietStep
     DEF vars, upVars, wireVars, downVars, StreamInv, OnlyEmitted,
         Stream!streamVars
<1>2. CASE EmitBlock
  <2>1. /\ nextBlock < MaxBlocks /\ nextBlock \in Block
        /\ nextBlock' = nextBlock + 1
        /\ retained' \subseteq retained \cup {nextBlock}
        /\ \A b \in Block : net'[b] > 0 => net[b] > 0 \/ b = nextBlock
        /\ UNCHANGED <<phase, eof, nextDeliver, ready, countWire, total, relData,
                       downPhase>>
        /\ phase = "reading"
    <3>1. nextBlock \in Nat /\ net \in [Block -> 0 .. MaxSymbols]
      BY <1>0 DEF TypeOK
    <3>2. \E s : Transmit(nextBlock, s)
      BY <1>2 DEF EmitBlock
    <3>3. \A b \in Block : b # nextBlock => net'[b] = net[b]
      BY <3>1, <3>2 DEF Transmit
    <3> QED
      BY <1>2, <3>1, <3>3 DEF EmitBlock, downVars, Block
  <2>2. Emitted' = Emitted \cup {nextBlock}
    BY <2>1, <1>0 DEF Emitted, TypeOK
  <2>3. ~eof /\ countWire = None /\ total = None
    BY <2>1 DEF StreamInv, TotalsTrue
  <2>4. OnlyEmitted'
    BY <2>1, <2>2, <1>0 DEF StreamInv, OnlyEmitted, TypeOK
  <2>5. TotalsTrue'
    BY <2>1, <2>3 DEF StreamInv, TotalsTrue
  <2>6. Stream!Write
    BY <2>1, <2>3 DEF Stream!Write
  <2> QED
    BY <1>0, <2>4, <2>5, <2>6 DEF StreamInv, Stream!StreamNext
<1>3. CASE ReadEof
  <2>1. /\ phase = "reading" /\ phase' = "postEof" /\ eof' = TRUE
        /\ countWire' = nextBlock
        /\ UNCHANGED <<nextBlock, retained, net, relData, downVars>>
    BY <1>3 DEF ReadEof, LeaveReadLoop
  <2>2. ~eof /\ total = None /\ downPhase # "shut"
    BY <2>1 DEF StreamInv, TotalsTrue
  <2>3. StreamInv'
    BY <2>1, <2>2, <1>0
       DEF StreamInv, OnlyEmitted, TotalsTrue, Emitted, downVars
  <2>4. Stream!CloseWrite
    BY <2>1, <2>2 DEF Stream!CloseWrite, downVars
  <2> QED
    BY <2>3, <2>4 DEF Stream!StreamNext
<1>4. CASE UpStallAbort
  <2>1. /\ phase = "reading" /\ phase' = "postEof" /\ countWire' = nextBlock
        /\ UNCHANGED <<eof, nextBlock, retained, net, relData, downVars>>
    BY <1>4 DEF UpStallAbort, LeaveReadLoop
  <2>2. ~eof /\ total = None /\ downPhase # "shut"
    BY <2>1 DEF StreamInv, TotalsTrue
  <2>3. StreamInv'
    BY <2>1, <2>2, <1>0
       DEF StreamInv, OnlyEmitted, TotalsTrue, Emitted, downVars
  <2> QED
    BY <2>1, <2>2, <2>3 DEF downVars, Stream!streamVars
<1>11. CASE DownStall
  <2>1. /\ downPhase = "open" /\ downPhase' = "stalled"
        /\ UNCHANGED <<upVars, wireVars, ready, nextDeliver, total>>
    BY <1>11 DEF DownStall
  <2> QED
    BY <2>1, <1>0
       DEF StreamInv, OnlyEmitted, TotalsTrue, Emitted, upVars, wireVars,
           Stream!streamVars
<1>5. CASE ProactiveTopup
  <2>1. /\ \A b \in Block : net'[b] > 0 => net[b] > 0 \/ b \in retained
        /\ UNCHANGED <<phase, eof, nextBlock, retained, countWire, relData, downVars>>
    BY <1>5, <1>0 DEF ProactiveTopup, TypeOK
  <2> QED
    BY <2>1, <1>0, QuietStep
       DEF StreamInv, OnlyEmitted, downVars, Stream!streamVars
<1>6. CASE UpFinish
  <2>1. /\ phase = "postEof" /\ phase' = "done"
        /\ UNCHANGED <<eof, nextBlock, retained, net, countWire, relData, downVars>>
    BY <1>6 DEF UpFinish
  <2> QED
    BY <2>1, <1>0
       DEF StreamInv, OnlyEmitted, TotalsTrue, Emitted, downVars, Stream!streamVars
<1>7. ASSUME NEW b \in Block, ServeNack(b) \/ ServeReliable(b) \/ TakeAck(b)
      PROVE  StreamInv' /\ UNCHANGED Stream!streamVars
  <2>1. UNCHANGED <<phase, eof, nextBlock, countWire, downVars>>
    BY <1>7 DEF ServeNack, ServeReliable, TakeAck, upVars
  <2>2. retained' \subseteq retained
    BY <1>7 DEF ServeNack, ServeReliable, TakeAck, upVars
  <2>3. \A c \in Block : net'[c] > 0 => net[c] > 0 \/ c \in retained
    BY <1>7, <1>0 DEF ServeNack, ServeReliable, TakeAck, Transmit, TypeOK
  <2>4. \A c \in Block : relData'[c] > 0 => relData[c] > 0 \/ c \in retained
    BY <1>7, <1>0 DEF ServeNack, ServeReliable, TakeAck, Answerable, TypeOK
  <2> QED
    BY <2>1, <2>2, <2>3, <2>4, <1>0, QuietStep
       DEF StreamInv, OnlyEmitted, downVars, Stream!streamVars
<1>8. CASE CountArrives
  <2>1. /\ downPhase = "open" /\ countWire # None
        /\ total' = countWire /\ countWire' = None
        /\ downPhase' = IF AtEnd(countWire, nextDeliver) THEN "shut" ELSE "open"
        /\ UNCHANGED <<phase, eof, nextBlock, retained, net, relData, ready, nextDeliver>>
    BY <1>8 DEF CountArrives, upVars
  <2>2. phase # "reading" /\ countWire = nextBlock
    BY <2>1 DEF StreamInv, TotalsTrue
  <2>3. StreamInv'
    BY <2>1, <2>2, <1>0 DEF StreamInv, OnlyEmitted, TotalsTrue, Emitted
  <2>4. nextDeliver \in Nat /\ nextBlock \in Nat /\ nextDeliver <= nextBlock
    BY <1>0 DEF StreamInv, OnlyEmitted, TypeOK
  <2>5. downPhase' = "shut" => nextDeliver = nextBlock
    BY <2>1, <2>2, <2>4 DEF AtEnd
  <2>6. (downPhase' = "shut" /\ ~Truncated')
          \in {FALSE, eof /\ nextDeliver' = nextBlock}
    BY <2>1, <2>2, <2>5
  <2>7. nextDeliver' \in nextDeliver .. nextBlock
    BY <2>1, <2>4
  <2>8. Stream!Deliver
    BY <2>1, <2>6, <2>7 DEF Stream!Deliver
  <2> QED
    BY <2>3, <2>8 DEF Stream!StreamNext
<1>9. CASE HighWaterArrives \/ Tick \/ \E b \in StrayBlocks : StrayUnmark(b)
  <2>1. UNCHANGED <<phase, eof, nextBlock, retained, net, countWire, relData,
                    nextDeliver, ready, total, downPhase>>
    BY <1>9 DEF HighWaterArrives, Tick, TickWith, StrayUnmark, upVars, wireVars
  <2> QED
    BY <2>1, <1>0, QuietStep DEF StreamInv, OnlyEmitted, Stream!streamVars
<1>10. ASSUME NEW b \in Block, SymbolArrives(b) \/ ReliableDataArrives(b)
       PROVE  StreamInv' /\ [Stream!StreamNext]_(Stream!streamVars)
  <2>1. /\ downPhase = "open"
        /\ b \in Emitted
        /\ UNCHANGED <<phase, eof, nextBlock, retained, countWire, total>>
        /\ \A c \in Block : net'[c] > 0 => net[c] > 0
        /\ \A c \in Block : relData'[c] > 0 => relData[c] > 0
    BY <1>10, <1>0
       DEF SymbolArrives, ReliableDataArrives, SymbolLate, SymbolCounts, upVars,
           downVars, StreamInv, OnlyEmitted, TypeOK
  <2>2. Complete(b) \/ UNCHANGED <<ready, nextDeliver, downPhase>>
    BY <1>10 DEF SymbolArrives, SymbolLate, SymbolCounts, ReliableDataArrives,
                 downVars
  <2>3. CASE Complete(b)
    <3>1. /\ Stream!Deliver
          /\ nextDeliver' <= nextBlock /\ ready' \subseteq Emitted
          /\ downPhase' = "shut" => phase # "reading"
      BY <2>1, <2>3, CompleteDelivers
    <3>2. StreamInv'
      BY <2>1, <3>1, <1>0 DEF StreamInv, OnlyEmitted, TotalsTrue, Emitted
    <3> QED
      BY <3>1, <3>2 DEF Stream!StreamNext
  <2>4. CASE UNCHANGED <<ready, nextDeliver, downPhase>>
    BY <2>1, <2>4, <1>0, QuietStep DEF StreamInv, OnlyEmitted, Stream!streamVars
  <2> QED
    BY <2>2, <2>3, <2>4
<1> QED
  BY <1>1, <1>2, <1>3, <1>4, <1>5, <1>6, <1>7, <1>8, <1>9, <1>10, <1>11
     DEF Next, Up, Down

\* A direction of a tunnel implements the ordered stream: the far application
\* gets the blocks in order, without gap or repeat, and end of stream only at
\* the end, or when a 120 s guard has fired (run_fec_tunnel).
THEOREM ImplementsStream == Spec => StreamContract
<1>1. Init => StreamInv /\ Stream!StreamInit
  BY StreamInit
<1>2. StreamInv /\ [Next]_vars =>
        StreamInv' /\ [Stream!StreamNext]_(Stream!streamVars)
  BY StreamStep
<1> QED
  BY <1>1, <1>2, PTL DEF Spec, StreamContract, Stream!StreamSpec

-----------------------------------------------------------------------------
(* Recovery.                                                               *)

\* No signal finds the channel it ends in full.
NeverFull == ~Full(relReqs, RelReqQueue) /\ ~Full(relData, RelDataQueue)

\* The receiver only knows of blocks that were emitted.
OnlyKnown ==
  /\ highWater <= nextBlock /\ \A mark \in hwWire : mark <= nextBlock
  /\ highestSeen < nextBlock \/ highestSeen = 0
  /\ \A b \in Block : mgr[b].st # "none" \/ b \in relRequested => b \in Emitted

\* So the scan for lost blocks, which takes the best of three bounds, only finds
\* emitted ones.
LEMMA LostWasEmitted ==
  ASSUME StreamInv, OnlyKnown
  PROVE  Lost \subseteq Emitted
<1>1. /\ nextBlock \in Nat /\ highestSeen \in Nat /\ highWater \in Nat
      /\ total \in Nat \cup {None} /\ nextDeliver \in Nat
  BY DEF StreamInv, TypeOK, Block
<1>2. Managed # {} => nextBlock >= 1
  BY <1>1 DEF OnlyKnown, Managed, Emitted
<1>3. BySeen \in Nat /\ BySeen <= nextBlock
  BY <1>1, <1>2 DEF OnlyKnown, BySeen
<1>4. ByTotal \in Nat /\ ByTotal <= nextBlock
  BY <1>1 DEF StreamInv, TotalsTrue, ByTotal, None
<1>5. UpperBound \in Nat /\ UpperBound <= nextBlock
  BY <1>1, <1>3, <1>4 DEF OnlyKnown, UpperBound, Larger
<1> QED
  BY <1>1, <1>5 DEF Lost, Emitted

LEMMA KnownStep == StreamInv /\ OnlyKnown /\ [Next]_vars => OnlyKnown'
<1> SUFFICES ASSUME StreamInv, OnlyKnown, [Next]_vars PROVE OnlyKnown'
  OBVIOUS
<1> USE TunnelAssumption
<1>0. TypeOK /\ nextBlock \in Nat
  BY DEF StreamInv, TypeOK
<1>1. CASE \/ UNCHANGED vars \/ ReadEof \/ UpStallAbort \/ ProactiveTopup \/ UpFinish
           \/ CountArrives \/ DownStall
           \/ \E b \in Block : ServeNack(b) \/ ServeReliable(b) \/ TakeAck(b)
           \/ \E b \in StrayBlocks : StrayUnmark(b)
  <2>1. /\ UNCHANGED <<nextBlock, hwWire, highWater, highestSeen, mgr>>
        /\ relRequested' \subseteq relRequested
    BY <1>1 DEF vars, upVars, wireVars, downVars, ReadEof, UpStallAbort, LeaveReadLoop,
                ProactiveTopup, UpFinish, CountArrives, DownStall, ServeNack,
                ServeReliable, TakeAck, StrayUnmark
  <2> QED
    BY <2>1 DEF OnlyKnown, Emitted
<1>2. CASE EmitBlock
  <2>1. /\ nextBlock' = nextBlock + 1 /\ hwWire' = hwWire \cup {nextBlock + 1}
        /\ UNCHANGED <<highWater, highestSeen, mgr, relRequested>>
    BY <1>2 DEF EmitBlock, downVars
  <2>2. hwWire \subseteq Nat /\ highWater \in Nat /\ highestSeen \in Nat
    BY <1>0 DEF TypeOK, Block
  <2> QED
    BY <1>0, <2>1, <2>2 DEF OnlyKnown, Emitted
<1>3. CASE HighWaterArrives
  <2>1. PICK mark \in hwWire : /\ highWater' = Larger(highWater, mark)
                               /\ hwWire' = hwWire \ {mark}
    BY <1>3 DEF HighWaterArrives
  <2>2. UNCHANGED <<nextBlock, highestSeen, mgr, relRequested>>
    BY <1>3 DEF HighWaterArrives, upVars
  <2> QED
    BY <2>1, <2>2 DEF OnlyKnown, Emitted, Larger
<1>4. CASE Tick
  <2>1. PICK expired \in SUBSET {b \in Block : Short(b)}, congested \in BOOLEAN,
             granted \in SUBSET {b \in Block : Short(b)} :
          TickWith(expired, granted, congested)
    BY <1>4 DEF Tick
  <2>2. /\ UNCHANGED <<nextBlock, hwWire, highWater, highestSeen>>
        /\ relRequested' \subseteq relRequested \cup expired \cup Lost
        /\ mgr' = [b \in Block |->
              IF b \in (IF congested THEN {} ELSE granted)
              THEN [mgr[b] EXCEPT !.st = "nackSent"]
              ELSE IF b \in expired \ (IF congested THEN {} ELSE granted)
              THEN [mgr[b] EXCEPT !.st = "degraded"] ELSE mgr[b]]
    BY <2>1 DEF TickWith, upVars
  <2>3. \A b \in expired \cup granted : b \in Block /\ mgr[b].st # "none"
    BY DEF Short
  <2>4. \A b \in Block : mgr'[b] = mgr[b] \/ b \in expired \cup granted
    BY <2>2
  <2> QED
    BY <2>2, <2>3, <2>4, LostWasEmitted DEF OnlyKnown, Emitted
<1>5. ASSUME NEW b \in Block, SymbolArrives(b)
      PROVE  OnlyKnown'
  <2>1. b \in Emitted /\ highestSeen \in Nat /\ b \in Nat
    BY <1>5, <1>0 DEF SymbolArrives, StreamInv, OnlyEmitted, TypeOK, Block
  <2>2. /\ UNCHANGED <<nextBlock, hwWire, highWater, relRequested>>
        /\ highestSeen' = highestSeen \/ highestSeen' = Larger(highestSeen, b)
        /\ \A c \in Block \ {b} : mgr'[c] = mgr[c]
    BY <1>5, <1>0 DEF SymbolArrives, SymbolLate, SymbolCounts, upVars, downVars, TypeOK
  <2> QED
    BY <1>0, <2>1, <2>2 DEF OnlyKnown, Emitted, Larger
<1>6. ASSUME NEW b \in Block, ReliableDataArrives(b)
      PROVE  OnlyKnown'
  <2>1. /\ UNCHANGED <<nextBlock, hwWire, highWater, highestSeen>>
        /\ relRequested' \subseteq relRequested
        /\ mgr' = mgr \/ mgr' = [mgr EXCEPT ![b] = NoManager]
    BY <1>6 DEF ReliableDataArrives, upVars
  <2> QED
    BY <1>0, <2>1 DEF OnlyKnown, Emitted, NoManager, TypeOK
<1> QED
  BY <1>1, <1>2, <1>3, <1>4, <1>5, <1>6 DEF Next, Up, Down

RecoveryInv == StreamInv /\ OnlyKnown /\ RecoveryInProgress

\* What a step must not do: ask again for nothing, or lose an answer.
LEMMA RecoveryKept ==
  ASSUME RecoveryInv, UNCHANGED nextBlock,
         phase' = "reading" => phase = "reading",
         retained' \subseteq retained,
         \A b \in Block : Held(b) => Held(b)',
         \A b \in Block : phase = "reading" /\ Outstanding(b) /\ b \in retained
                            => Outstanding(b)' \/ Held(b)',
         \A b \in Block : phase = "reading" /\ (b \in relRequested' \/ mgr'[b].st = "degraded")
                            => \/ b \in relRequested \/ mgr[b].st = "degraded"
                               \/ Outstanding(b)' \/ Held(b)'
  PROVE  RecoveryInProgress'
<1>1. Emitted' = Emitted /\ Emitted \subseteq Block
  BY TunnelAssumption DEF RecoveryInv, StreamInv, TypeOK, Emitted, Block
<1> SUFFICES ASSUME NEW b \in Emitted, phase' = "reading", b \in retained', ~Held(b)',
                    b \in relRequested' \/ mgr'[b].st = "degraded"
             PROVE  Outstanding(b)'
  BY <1>1 DEF RecoveryInProgress
<1>2. b \in Block /\ phase = "reading" /\ b \in retained /\ ~Held(b)
  BY <1>1
<1>3. b \in relRequested \/ mgr[b].st = "degraded" => Outstanding(b)
  BY <1>2 DEF RecoveryInv, RecoveryInProgress
<1> QED
  BY <1>2, <1>3

LEMMA RecoveryStep ==
  ASSUME RecoveryInv, [Next]_vars, NeverFull, NeverFull'
  PROVE  RecoveryInv'
<1> USE TunnelAssumption
<1>0. /\ TypeOK /\ StreamInv' /\ OnlyKnown' /\ nextBlock \in Nat
      /\ relReqs \in [Block -> Nat] /\ relData \in [Block -> Nat]
  BY StreamStep, KnownStep DEF RecoveryInv, StreamInv, TypeOK
<1> SUFFICES RecoveryInProgress'
  BY <1>0 DEF RecoveryInv
<1>1. CASE \/ UNCHANGED vars \/ ReadEof \/ UpStallAbort \/ ProactiveTopup
           \/ UpFinish \/ CountArrives \/ HighWaterArrives \/ DownStall
           \/ \E b \in Block : ServeNack(b) \/ TakeAck(b)
           \/ \E b \in StrayBlocks : StrayUnmark(b)
  <2>1. /\ UNCHANGED <<nextBlock, mgr, ready, nextDeliver, relData>>
        /\ relRequested' \subseteq relRequested /\ retained' \subseteq retained
        /\ phase' = "reading" => phase = "reading" /\ relReqs' = relReqs
        /\ phase = "reading" => relReqs' = relReqs
    BY <1>1 DEF vars, upVars, wireVars, downVars, ReadEof, UpStallAbort, LeaveReadLoop,
                ProactiveTopup, UpFinish, CountArrives, HighWaterArrives, DownStall,
                ServeNack, TakeAck, StrayUnmark
  <2>2. \A b \in Block : /\ Held(b) => Held(b)'
                         /\ phase = "reading" /\ Outstanding(b) => Outstanding(b)'
    BY <2>1 DEF Held, Outstanding
  <2> QED
    BY <2>1, <2>2, RecoveryKept
<1>2. CASE EmitBlock
  <2>1. /\ nextBlock' = nextBlock + 1 /\ phase' = phase
        /\ retained' \subseteq retained \cup {nextBlock}
        /\ UNCHANGED <<relReqs, relData, mgr, relRequested, ready, nextDeliver>>
        /\ nextBlock \in Block
    BY <1>0, <1>2 DEF EmitBlock, downVars, Block
  <2>2. nextBlock \notin relRequested /\ mgr[nextBlock].st = "none"
    BY <1>0, <2>1 DEF RecoveryInv, OnlyKnown, Emitted
  <2>3. \A b \in Emitted' : b = nextBlock \/ b \in Emitted
    BY <1>0, <2>1 DEF Emitted
  <2> QED
    BY <1>2, <2>1, <2>2, <2>3
       DEF EmitBlock, RecoveryInv, RecoveryInProgress, Held, Outstanding
<1>3. ASSUME NEW b \in Block, ServeReliable(b)
      PROVE  RecoveryInProgress'
  <2>1. /\ UNCHANGED <<phase, nextBlock, retained, mgr, relRequested, ready, nextDeliver>>
        /\ relReqs' = [relReqs EXCEPT ![b] = @ - 1]
        /\ relData' = relData \/ relData' = [relData EXCEPT ![b] = Capped(@ + 1, MaxSignals)]
        /\ b \in retained => relData' = [relData EXCEPT ![b] = Capped(@ + 1, MaxSignals)]
    BY <1>3 DEF ServeReliable, Answerable, NeverFull, upVars, downVars
  <2>2. Capped(relData[b] + 1, MaxSignals) > 0
    BY <1>0 DEF Capped
  <2>3. \A c \in Block : Outstanding(c) /\ c \in retained => Outstanding(c)'
    BY <1>0, <2>1, <2>2 DEF Outstanding
  <2> QED
    BY <2>1, <2>3, RecoveryKept DEF Held
<1>4. CASE Tick
  <2>1. PICK expired \in SUBSET {b \in Block : Short(b)}, congested \in BOOLEAN,
             granted \in SUBSET {b \in Block : Short(b)} :
          TickWith(expired, granted, congested)
    BY <1>4 DEF Tick
  <2> DEFINE nacked   == IF congested THEN {} ELSE granted
             degraded == expired \ nacked
             request  == (degraded \ relRequested) \cup Lost
  <2>2. /\ UNCHANGED <<phase, nextBlock, retained, ready, nextDeliver, relData>>
        /\ mgr' = [b \in Block |->
               IF b \in nacked THEN [mgr[b] EXCEPT !.st = "nackSent"]
               ELSE IF b \in degraded THEN [mgr[b] EXCEPT !.st = "degraded"]
               ELSE mgr[b]]
        /\ relRequested' = relRequested \cup request
        /\ relReqs' = Signal(relReqs, request)
    BY <2>1 DEF TickWith, NeverFull, upVars
  <2>3. \A b \in Block : mgr[b] \in Manager
    BY <1>0 DEF TypeOK
  <2>4. \A b \in Block : mgr'[b].st = "degraded" => mgr[b].st = "degraded" \/ b \in degraded
    BY <2>2, <2>3 DEF Manager
  <2> HIDE DEF request, degraded, nacked
  <2>5. phase = "reading" => \A b \in Block : /\ relReqs[b] > 0 => relReqs'[b] > 0
                                              /\ b \in request => relReqs'[b] > 0
    BY <1>0, <2>2 DEF Signal, Capped
  <2>6. \A b \in degraded : b \in relRequested \/ b \in request
    BY DEF request
  <2>7. \A b \in Block : phase = "reading" /\ Outstanding(b) => Outstanding(b)'
    BY <2>2, <2>5 DEF Outstanding
  <2>8. \A b \in Block : phase = "reading" /\ (b \in relRequested' \/ mgr'[b].st = "degraded")
          => b \in relRequested \/ mgr[b].st = "degraded" \/ Outstanding(b)'
    BY <2>2, <2>4, <2>5, <2>6 DEF Outstanding
  <2> QED
    BY <2>2, <2>7, <2>8, RecoveryKept DEF Held
<1>5. ASSUME NEW b \in Block, SymbolArrives(b)
      PROVE  RecoveryInProgress'
  <2>1. UNCHANGED <<phase, nextBlock, retained, relReqs, relData, relRequested>>
    BY <1>5 DEF SymbolArrives, SymbolLate, SymbolCounts, upVars, downVars
  <2>2. \A c \in Block : mgr'[c].st = "degraded" => mgr[c].st = "degraded"
    BY <1>5, <1>0
       DEF SymbolArrives, SymbolLate, SymbolCounts, downVars, TypeOK, NoManager
  <2>3. \A c \in Block : Held(c) => Held(c)'
    <3>1. CASE Complete(b)
      BY <3>1, <1>0, CompleteType
    <3>2. CASE UNCHANGED <<ready, nextDeliver>>
      BY <3>2 DEF Held
    <3> QED
      BY <1>5, <3>1, <3>2 DEF SymbolArrives, SymbolLate, SymbolCounts, downVars
  <2> QED
    BY <2>1, <2>2, <2>3, RecoveryKept DEF Outstanding
<1>6. ASSUME NEW b \in Block, ReliableDataArrives(b)
      PROVE  RecoveryInProgress'
  <2>1. /\ UNCHANGED <<phase, nextBlock, retained, relReqs>>
        /\ relRequested' \subseteq relRequested
        /\ mgr' = mgr \/ mgr' = [mgr EXCEPT ![b] = NoManager]
        /\ relData' = [relData EXCEPT ![b] = @ - 1]
    BY <1>6 DEF ReliableDataArrives, upVars
  <2>2. \A c \in Block : mgr'[c].st = "degraded" => mgr[c].st = "degraded"
    BY <1>0, <2>1 DEF TypeOK, NoManager
  <2>3. Held(b)' /\ \A c \in Block : Held(c) => Held(c)'
    <3>1. CASE b < nextDeliver /\ UNCHANGED <<ready, nextDeliver>>
      BY <3>1 DEF Held
    <3>2. CASE Complete(b)
      BY <3>2, <1>0, CompleteType
    <3> QED
      BY <1>6, <3>1, <3>2 DEF ReliableDataArrives
  <2>4. \A c \in Block : Outstanding(c) => Outstanding(c)' \/ c = b
    BY <1>0, <2>1 DEF Outstanding
  <2> QED
    BY <2>1, <2>2, <2>3, <2>4, RecoveryKept
<1> QED
  BY <1>1, <1>2, <1>3, <1>4, <1>5, <1>6 DEF Next, Up, Down

\* Unless a signal finds its channel full, a block that was given up on or asked
\* for always has its answer on the way: dropping at a full channel is the only
\* way to lose a recovery (FecReceiver::tick, reliable_payload, and the readers'
\* try_send).
THEOREM RecoveryUnderWay == Spec /\ []NeverFull => []RecoveryInProgress
<1>1. Init => RecoveryInv
  <2> SUFFICES ASSUME Init PROVE RecoveryInv
    OBVIOUS
  <2>1. StreamInv
    BY StreamInit
  <2>2. OnlyKnown
    BY DEF Init, OnlyKnown, NoManager
  <2>3. RecoveryInProgress
    BY DEF Init, RecoveryInProgress
  <2> QED
    BY <2>1, <2>2, <2>3 DEF RecoveryInv
<1>2. RecoveryInv => RecoveryInProgress
  BY DEF RecoveryInv
<1>3. RecoveryInv /\ [Next]_vars /\ NeverFull /\ NeverFull' => RecoveryInv'
  BY RecoveryStep
<1> QED
  BY <1>1, <1>2, <1>3, PTL DEF Spec
=============================================================================
