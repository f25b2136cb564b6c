------------------------- MODULE RepairBudgetProofs -------------------------
(***************************************************************************)
(* For every set of blocks, every K and every sequence of ceilings: repair *)
(* in flight never exceeds the highest ceiling published, a block has a    *)
(* reservation exactly while its NACK is outstanding, the counter covers   *)
(* every reservation and so never goes below zero, and the two drift apart *)
(* only where no release is called.                                        *)
(***************************************************************************)
EXTENDS RepairBudget, FiniteSetTheorems, TLAPS

-----------------------------------------------------------------------------
(* How the total of a function changes with one of its values.             *)

\* The units of a bounded function on a finite set can be counted.
LEMMA UnitsFinite ==
  ASSUME NEW S, IsFiniteSet(S), NEW n \in Nat, NEW f \in [S -> 0 .. n]
  PROVE  IsFiniteSet(Units(f)) /\ Total(f) \in Nat
<1>1. IsFiniteSet(1 .. n)
  BY FS_Interval
<1>2. IsFiniteSet(S \X (1 .. n))
  BY <1>1, FS_Product
<1>3. Units(f) \in SUBSET (S \X (1 .. n))
  BY DEF Units
<1> QED
  BY <1>2, <1>3, FS_Subset, FS_CardinalityType DEF Total

\* A function that is zero everywhere has none.
LEMMA ZeroTotal ==
  ASSUME NEW S, NEW f \in [S -> Nat], \A x \in S : f[x] = 0
  PROVE  Total(f) = 0
<1>1. Units(f) = {}
  BY DEF Units
<1> QED
  BY <1>1, FS_EmptySet DEF Total

\* n units of one x.
LEMMA RowTotal ==
  ASSUME NEW x, NEW n \in Nat
  PROVE  IsFiniteSet({x} \X (1 .. n)) /\ Cardinality({x} \X (1 .. n)) = n
<1>1. IsFiniteSet({x}) /\ Cardinality({x}) = 1
  BY FS_Singleton
<1>2. IsFiniteSet(1 .. n) /\ Cardinality(1 .. n) = n
  BY FS_Interval
<1>3. /\ IsFiniteSet({x} \X (1 .. n))
      /\ Cardinality({x} \X (1 .. n)) = Cardinality({x}) * Cardinality(1 .. n)
  BY <1>1, <1>2, FS_Product
<1> QED
  BY <1>1, <1>2, <1>3

\* What x adds to the total is its value.
LEMMA TotalWithout ==
  ASSUME NEW S, IsFiniteSet(S), NEW n \in Nat, NEW f \in [S -> 0 .. n], NEW x \in S
  PROVE  Total(f) = Total([y \in S \ {x} |-> f[y]]) + f[x]
<1> DEFINE rest == [y \in S \ {x} |-> f[y]]
           row  == {x} \X (1 .. f[x])
<1>1. rest \in [S \ {x} -> 0 .. n] /\ IsFiniteSet(S \ {x})
  BY FS_RemoveElement
<1>2. IsFiniteSet(Units(rest)) /\ Cardinality(Units(rest)) \in Nat
  BY <1>1, UnitsFinite DEF Total
<1>3. IsFiniteSet(row) /\ Cardinality(row) = f[x] /\ f[x] \in Nat
  <2>1. f[x] \in Nat
    OBVIOUS
  <2> QED
    BY <2>1, RowTotal
<1>4. Units(f) = Units(rest) \cup row
  BY DEF Units
<1>5. Units(rest) \cap row = {}
  BY DEF Units
<1> HIDE DEF rest, row
<1>6. Cardinality(Units(rest) \cup row)
        = Cardinality(Units(rest)) + Cardinality(row) - Cardinality(Units(rest) \cap row)
  BY <1>2, <1>3, FS_Union
<1>7. Total(f) = Total(rest) + f[x]
  <2>1. Cardinality(Units(rest) \cap row) = 0
    BY <1>5, FS_EmptySet
  <2>2. Cardinality(Units(f)) = Cardinality(Units(rest)) + f[x]
    BY <1>2, <1>3, <1>4, <1>6, <2>1
  <2> QED
    BY <2>2 DEF Total
<1> QED
  BY <1>7 DEF rest

\* A value is no more than the total.
LEMMA ValueInTotal ==
  ASSUME NEW S, IsFiniteSet(S), NEW n \in Nat, NEW f \in [S -> 0 .. n], NEW x \in S
  PROVE  f[x] <= Total(f)
<1>1. [y \in S \ {x} |-> f[y]] \in [S \ {x} -> 0 .. n] /\ IsFiniteSet(S \ {x})
  BY FS_RemoveElement
<1>2. Total([y \in S \ {x} |-> f[y]]) \in Nat
  BY <1>1, UnitsFinite
<1> QED
  BY <1>2, TotalWithout

\* When one value changes, the total moves by the difference.
LEMMA TotalMoves ==
  ASSUME NEW S, IsFiniteSet(S), NEW n \in Nat, NEW f \in [S -> 0 .. n],
         NEW g \in [S -> 0 .. n], NEW x \in S, \A y \in S \ {x} : g[y] = f[y]
  PROVE  Total(g) = Total(f) - f[x] + g[x]
<1> DEFINE rest == [y \in S \ {x} |-> f[y]]
<1>1. [y \in S \ {x} |-> g[y]] = rest
  OBVIOUS
<1>2. rest \in [S \ {x} -> 0 .. n] /\ IsFiniteSet(S \ {x})
  BY FS_RemoveElement
<1>3. Total(rest) \in Nat
  BY <1>2, UnitsFinite
<1>4. Total(f) = Total(rest) + f[x]
  BY TotalWithout
<1>5. Total(g) = Total(rest) + g[x]
  BY <1>1, TotalWithout
<1> QED
  BY <1>3, <1>4, <1>5

\* The part of TypeOK that the first argument needs.  That inFlight is not
\* negative comes from what the reservations add up to, below.
Types ==
  /\ inFlight \in Int
  /\ ceiling \in Nat /\ peak \in Nat
  /\ mgr \in [Block -> MgrStates]
  /\ recv \in [Block -> Nat]
  /\ reserved \in [Block -> Nat]
  /\ snap \in [Block -> Nat \cup {None}]
  /\ topup \in Nat \cup {None}

\* Every ceiling anybody still works with was published once.
CeilingsPublished ==
  /\ ceiling <= peak
  /\ \A b \in Block : snap[b] <= peak
  /\ topup <= peak

\* tick_stalled asks for at least one symbol.
ReservingShort == \A b \in Block : mgr[b] = "reserving" => recv[b] < K

IInv ==
  /\ Types
  /\ CeilingsPublished
  /\ ReservingShort
  /\ ReservedWhileNacked
  /\ WithinPeak

\* The invariant holds of a fresh budget without managers.
LEMMA InitInvariant == Init => IInv
  BY BudgetAssumption
     DEF Init, IInv, Types, CeilingsPublished, ReservingShort, None,
         ReservedWhileNacked, WithinPeak, MgrStates

\* Giving a reservation back only lowers the counter.
LEMMA ReleaseLowers ==
  ASSUME Types, NEW b \in Block, Release(b)
  PROVE  /\ inFlight' \in Int /\ inFlight' <= inFlight
         /\ reserved' \in [Block -> Nat]
         /\ reserved' = [reserved EXCEPT ![b] = 0]
  BY DEF Types, Release

\* Every step keeps the invariant.
LEMMA StepInvariant == IInv /\ [Next]_vars => IInv'
<1> SUFFICES ASSUME IInv, [Next]_vars PROVE IInv'
  OBVIOUS
<1> USE BudgetAssumption
<1>1. CASE UNCHANGED vars
  BY <1>1 DEF vars, IInv, Types, CeilingsPublished, ReservingShort,
              ReservedWhileNacked, WithinPeak
<1>2. CASE Refresh
  BY <1>2 DEF Refresh, clockVars, IInv, Types, CeilingsPublished,
              ReservingShort, ReservedWhileNacked, WithinPeak, None
<1>3. CASE TopupLoad
  BY <1>3 DEF TopupLoad, clockVars, IInv, Types, CeilingsPublished,
              ReservingShort, ReservedWhileNacked, WithinPeak
<1>4. CASE TopupReserve
  BY <1>4 DEF TopupReserve, Fits, clockVars, IInv, Types, CeilingsPublished,
              ReservingShort, ReservedWhileNacked, WithinPeak, None
<1>5. ASSUME NEW b \in Block, Older(b) \/ LaterBlockSeen(b)
      PROVE  IInv'
  BY <1>5 DEF Older, LaterBlockSeen, budgetVars, IInv, Types,
              CeilingsPublished, ReservingShort, ReservedWhileNacked, WithinPeak
<1>6. ASSUME NEW b \in Block, Symbol(b)
      PROVE  IInv'
  <2>1. /\ inFlight' \in Int /\ inFlight' <= inFlight
        /\ reserved' \in [Block -> Nat]
        /\ reserved' = [reserved EXCEPT ![b] = 0]
    BY <1>6, ReleaseLowers DEF Symbol, IInv
  <2>2. /\ mgr' \in [Block -> MgrStates]
        /\ mgr'[b] \in {"gone", "filling"}
        /\ \A c \in Block \ {b} : mgr'[c] = mgr[c]
        /\ recv' \in [Block -> Nat]
        /\ \A c \in Block \ {b} : recv'[c] = recv[c]
    BY <1>6 DEF Symbol, IInv, Types, MgrStates
  <2>3. UNCHANGED <<ceiling, peak, topup, snap>>
    BY <1>6 DEF Symbol, budgetVars
  <2>4. Types' /\ CeilingsPublished' /\ WithinPeak'
    <3>1. Types'
      BY <2>1, <2>2, <2>3 DEF IInv, Types
    <3>2. CeilingsPublished' /\ WithinPeak'
      BY <2>1, <2>3 DEF IInv, Types, CeilingsPublished, WithinPeak
    <3> QED
      BY <3>1, <3>2
  <2>5. ReservingShort' /\ ReservedWhileNacked'
    BY <2>1, <2>2 DEF IInv, Types, ReservingShort, ReservedWhileNacked
  <2> QED
    BY <2>4, <2>5 DEF IInv
<1>7. ASSUME NEW b \in Block, TickStalled(b)
      PROVE  IInv'
  <2>1. /\ inFlight' \in Int /\ inFlight' <= inFlight
        /\ reserved' \in [Block -> Nat]
        /\ reserved' = [reserved EXCEPT ![b] = 0]
    BY <1>7, ReleaseLowers DEF TickStalled, IInv
  <2>2. /\ mgr' \in [Block -> MgrStates]
        /\ mgr'[b] \in {"degraded", "reserving"}
        /\ \A c \in Block \ {b} : mgr'[c] = mgr[c]
        /\ recv[b] < K
        /\ snap' = snap \/ snap' = [snap EXCEPT ![b] = ceiling]
        /\ UNCHANGED <<ceiling, peak, topup, recv>>
    BY <1>7 DEF TickStalled, Stalled, budgetVars, IInv, Types, MgrStates
  <2>3. Types' /\ CeilingsPublished' /\ WithinPeak'
    <3>1. Types'
      BY <2>1, <2>2 DEF IInv, Types
    <3>2. \A c \in Block : snap'[c] = snap[c] \/ snap'[c] = ceiling
      BY <2>2 DEF IInv, Types
    <3>3. CeilingsPublished' /\ WithinPeak'
      BY <2>1, <2>2, <3>2 DEF IInv, Types, CeilingsPublished, WithinPeak
    <3> QED
      BY <3>1, <3>3
  <2>4. ReservingShort' /\ ReservedWhileNacked'
    BY <2>1, <2>2 DEF IInv, Types, ReservingShort, ReservedWhileNacked
  <2> QED
    BY <2>3, <2>4 DEF IInv
<1>8. ASSUME NEW b \in Block, Reserve(b)
      PROVE  IInv'
  <2> DEFINE need == K - recv[b]
  <2>1. need \in Nat /\ need > 0
    BY <1>8 DEF Reserve, IInv, Types, ReservingShort
  <2>2. CASE Fits(need, snap[b])
    <3>1. /\ inFlight' = inFlight + need
          /\ reserved' = [reserved EXCEPT ![b] = need]
          /\ mgr' = [mgr EXCEPT ![b] = "nackSent"]
          /\ snap' = [snap EXCEPT ![b] = None]
          /\ UNCHANGED <<ceiling, peak, topup, recv>>
      BY <1>8, <2>2 DEF Reserve, budgetVars
    <3>2. inFlight' <= peak
      BY <2>2, <3>1 DEF Fits, IInv, Types, CeilingsPublished, None
    <3>3. Types' /\ CeilingsPublished' /\ WithinPeak'
      BY <2>1, <3>1, <3>2
         DEF IInv, Types, CeilingsPublished, WithinPeak, MgrStates, None
    <3>4. ReservingShort' /\ ReservedWhileNacked'
      BY <2>1, <3>1 DEF IInv, Types, ReservingShort, ReservedWhileNacked
    <3> QED
      BY <3>3, <3>4 DEF IInv
  <2>3. CASE ~Fits(need, snap[b])
    <3>1. /\ mgr[b] = "reserving"
          /\ mgr' = [mgr EXCEPT ![b] = "degraded"]
          /\ snap' = [snap EXCEPT ![b] = None]
          /\ UNCHANGED <<ceiling, peak, topup, recv, inFlight, reserved>>
      BY <1>8, <2>3 DEF Reserve, budgetVars
    <3> QED
      BY <3>1 DEF IInv, Types, CeilingsPublished, WithinPeak, MgrStates, None,
                  ReservingShort, ReservedWhileNacked
  <2> QED
    BY <2>2, <2>3
<1>9. ASSUME NEW b \in Block, ReliableBlock(b) \/ TearDown(b)
      PROVE  IInv'
  BY <1>9 DEF ReliableBlock, TearDown, budgetVars, clockVars, IInv, Types,
              CeilingsPublished, ReservingShort, ReservedWhileNacked, WithinPeak,
              MgrStates
<1> QED
  BY <1>1, <1>2, <1>3, <1>4, <1>5, <1>6, <1>7, <1>8, <1>9 DEF Next

\* The invariant holds throughout.
LEMMA Invariant == Spec => []IInv
  BY InitInvariant, StepInvariant, PTL DEF Spec

\* Repair in flight never exceeds the highest ceiling published, although
\* try_reserve compares against a ceiling it loaded some time before
\* (RepairBudget::try_reserve).
THEOREM BudgetWithinPeak == Spec => []WithinPeak
<1>1. IInv => WithinPeak
  BY DEF IInv
<1> QED
  BY Invariant, <1>1, PTL

\* A manager holds a reservation exactly while its NACK is outstanding
\* (BlockManager.reserved).
THEOREM ReservationTracksNack == Spec => []ReservedWhileNacked
<1>1. IInv => ReservedWhileNacked
  BY DEF IInv
<1> QED
  BY Invariant, <1>1, PTL

-----------------------------------------------------------------------------
(* What the reservations add up to.                                        *)

\* TypeOK without the counter.  A top-up is loaded only below their bound.
Clocks ==
  /\ reserved \in [Block -> 0 .. K]
  /\ age \in [Block -> Ages]
  /\ behind \in [Block -> BOOLEAN] /\ waited \in [Block -> BOOLEAN]
  /\ topups \in 0 .. MaxTopups
  /\ topup # None => topups < MaxTopups

TallyInv == IInv /\ Clocks /\ ReservationsCovered

LEMMA TallyTotal ==
  ASSUME TallyInv
  PROVE  Total(reserved) \in Nat /\ \A b \in Block : reserved[b] <= Total(reserved)
BY BudgetAssumption, UnitsFinite, ValueInTotal DEF TallyInv, Clocks

\* A block's reservation is set to m.
LEMMA Rereserve ==
  ASSUME TallyInv, NEW b \in Block, NEW m \in 0 .. K, reserved' = [reserved EXCEPT ![b] = m]
  PROVE  /\ Total(reserved') = Total(reserved) - reserved[b] + m
         /\ reserved' \in [Block -> 0 .. K]
<1>1. reserved \in [Block -> 0 .. K] /\ K \in Nat /\ IsFiniteSet(Block)
  BY BudgetAssumption DEF TallyInv, Clocks
<1>2. /\ reserved' \in [Block -> 0 .. K] /\ reserved'[b] = m
      /\ \A c \in Block \ {b} : reserved'[c] = reserved[c]
  BY <1>1
<1>3. \A f, g \in [Block -> 0 .. K] :
        (\A c \in Block \ {b} : g[c] = f[c]) => Total(g) = Total(f) - f[b] + g[b]
  BY <1>1, TotalMoves
<1> QED
  BY <1>1, <1>2, <1>3

\* A release takes the same from both.
LEMMA ReleaseTogether ==
  ASSUME TallyInv, NEW b \in Block, Release(b)
  PROVE  /\ inFlight' - Total(reserved') = inFlight - Total(reserved)
         /\ inFlight' \in Int /\ Total(reserved') \in Int
         /\ reserved' \in [Block -> 0 .. K]
<1>1. /\ Total(reserved') = Total(reserved) - reserved[b] + 0
      /\ reserved' \in [Block -> 0 .. K]
  <2>1. 0 \in 0 .. K /\ reserved' = [reserved EXCEPT ![b] = 0]
    BY BudgetAssumption DEF Release
  <2> QED
    BY <2>1, Rereserve
<1>2. inFlight' = inFlight - reserved[b]
  BY DEF Release
<1>3. inFlight \in Int /\ reserved[b] \in Nat
  BY DEF TallyInv, IInv, Types
<1> QED
  BY <1>1, <1>2, <1>3, TallyTotal

Balanced == inFlight' - Total(reserved') = inFlight - Total(reserved)

\* A block's exit without a release.
Bypass == \E b \in Block : mgr[b] = "nackSent" /\ (ReliableBlock(b) \/ TearDown(b))

\* What one step does to the counter and to the reservations.
LEMMA StepTally ==
  ASSUME TallyInv, [Next]_vars
  PROVE  /\ Clocks' /\ ReservationsCovered'
         /\ Balanced \/ TopupReserve \/ Bypass
<1> USE BudgetAssumption
<1>0. inFlight \in Int /\ Total(reserved) \in Nat /\ Total(reserved) <= inFlight
  BY TallyTotal DEF TallyInv, IInv, Types, ReservationsCovered
<1>1. CASE UNCHANGED vars \/ Refresh \/ TopupLoad
  <2>1. /\ UNCHANGED <<inFlight, reserved, age, behind, waited, topups>>
        /\ UNCHANGED topup \/ topups < MaxTopups
    BY <1>1 DEF vars, Refresh, TopupLoad, clockVars
  <2> QED
    BY <1>0, <2>1 DEF TallyInv, Clocks, ReservationsCovered, Balanced
<1>2. CASE TopupReserve
  <2>1. /\ UNCHANGED <<reserved, age, behind, waited>>
        /\ topup # None /\ topup' = None
        /\ \/ inFlight' = inFlight + Desired /\ topups' = topups + 1
           \/ UNCHANGED <<inFlight, topups>>
    BY <1>2 DEF TopupReserve, clockVars
  <2> QED
    BY <1>0, <1>2, <2>1 DEF TallyInv, Clocks, ReservationsCovered
<1>3. ASSUME NEW b \in Block, Older(b) \/ LaterBlockSeen(b)
      PROVE  Clocks' /\ ReservationsCovered' /\ Balanced
  <2>1. UNCHANGED <<inFlight, reserved, topup, topups>>
    BY <1>3 DEF Older, LaterBlockSeen, budgetVars
  <2>2. Clocks'
    BY <1>3, <2>1 DEF Older, LaterBlockSeen, TallyInv, Clocks, Ages
  <2> QED
    BY <1>0, <2>1, <2>2 DEF TallyInv, ReservationsCovered, Balanced
<1>4. ASSUME NEW b \in Block, Symbol(b) \/ TickStalled(b)
      PROVE  Clocks' /\ ReservationsCovered' /\ Balanced
  <2>1. Release(b)
    BY <1>4 DEF Symbol, TickStalled
  <2>2. /\ waited' = [waited EXCEPT ![b] = FALSE]
        /\ UNCHANGED <<age, behind, topup, topups>>
    BY <1>4 DEF Symbol, TickStalled, budgetVars
  <2> QED
    BY <1>0, <2>1, <2>2, ReleaseTogether
       DEF TallyInv, Clocks, ReservationsCovered, Balanced
<1>5. ASSUME NEW b \in Block, Reserve(b)
      PROVE  Clocks' /\ ReservationsCovered' /\ Balanced
  <2> DEFINE need == K - recv[b]
  <2>1. need \in 0 .. K /\ reserved[b] = 0
    BY <1>5 DEF Reserve, TallyInv, IInv, Types, Clocks, ReservingShort, ReservedWhileNacked
  <2>2. UNCHANGED <<age, behind, waited, topup, topups>>
    BY <1>5 DEF Reserve, budgetVars, clockVars
  <2>3. CASE inFlight' = inFlight + need /\ reserved' = [reserved EXCEPT ![b] = need]
    <3>1. /\ Total(reserved') = Total(reserved) - reserved[b] + need
          /\ reserved' \in [Block -> 0 .. K]
      BY <2>1, <2>3, Rereserve
    <3> QED
      BY <1>0, <2>1, <2>2, <2>3, <3>1 DEF TallyInv, Clocks, ReservationsCovered, Balanced
  <2>4. CASE UNCHANGED <<inFlight, reserved>>
    BY <1>0, <2>2, <2>4 DEF TallyInv, Clocks, ReservationsCovered, Balanced
  <2> QED
    BY <1>5, <2>3, <2>4 DEF Reserve
<1>6. ASSUME NEW b \in Block, ReliableBlock(b) \/ TearDown(b)
      PROVE  Clocks' /\ ReservationsCovered' /\ (Balanced \/ Bypass)
  <2>1. /\ reserved' = [reserved EXCEPT ![b] = 0]
        /\ UNCHANGED <<inFlight, age, behind, waited, topup, topups>>
    BY <1>6 DEF ReliableBlock, TearDown, budgetVars, clockVars
  <2>2. /\ Total(reserved') = Total(reserved) - reserved[b] + 0
        /\ reserved' \in [Block -> 0 .. K]
    <3>1. 0 \in 0 .. K
      OBVIOUS
    <3> QED
      BY <2>1, <3>1, Rereserve
  <2>3. reserved[b] \in Nat
    BY DEF TallyInv, Clocks
  <2>4. mgr[b] # "nackSent" => reserved[b] = 0
    BY <2>3 DEF TallyInv, IInv, ReservedWhileNacked
  <2>5. Balanced \/ Bypass
    BY <1>0, <1>6, <2>1, <2>2, <2>3, <2>4 DEF Balanced, Bypass
  <2> QED
    BY <1>0, <2>1, <2>2, <2>3, <2>5 DEF TallyInv, Clocks, ReservationsCovered
<1> QED
  BY <1>1, <1>2, <1>3, <1>4, <1>5, <1>6 DEF Next

LEMMA InitTally == Init => TallyInv
<1> SUFFICES ASSUME Init PROVE TallyInv
  OBVIOUS
<1>1. reserved \in [Block -> Nat] /\ \A b \in Block : reserved[b] = 0
  BY DEF Init
<1>2. Total(reserved) = 0
  BY <1>1, ZeroTotal
<1> QED
  BY <1>2, InitInvariant, BudgetAssumption
     DEF Init, TallyInv, Clocks, ReservationsCovered, Ages

LEMMA TallyInvariant == Spec => []TallyInv
<1>1. TallyInv /\ [Next]_vars => TallyInv'
  BY StepInvariant, StepTally DEF TallyInv
<1> QED
  BY <1>1, InitTally, PTL DEF Spec

\* Nothing is given back twice: the counter covers every reservation that a
\* manager still records (RepairBudget::release).
THEOREM CounterCovers == Spec => []ReservationsCovered
<1>1. TallyInv => ReservationsCovered
  BY DEF TallyInv
<1> QED
  BY <1>1, TallyInvariant, PTL

\* The counter of a usize never wraps below zero, with the other types
\* (RepairBudget::release's fetch_sub).
THEOREM TypeCorrect == Spec => []TypeOK
<1>1. TallyInv => TypeOK
  <2> SUFFICES ASSUME TallyInv PROVE TypeOK
    OBVIOUS
  <2>1. inFlight \in Nat
    BY TallyTotal DEF TallyInv, IInv, Types, ReservationsCovered
  <2> QED
    BY <2>1 DEF TallyInv, IInv, Types, Clocks, TypeOK
<1> QED
  BY <1>1, TallyInvariant, PTL

\* The counter and the recorded reservations drift apart only in a top-up, or
\* when a block leaves NackSent by a reliable copy or its tunnel's end
\* (FecReceiver::on_reliable_block and drop, FecSender::proactive_topups).
THEOREM DriftConfined == Spec => DriftOnlyByBypass
<1>1. TallyInv /\ [Next]_vars =>
        [ inFlight' - Total(reserved') # inFlight - Total(reserved)
            => \/ TopupReserve
               \/ \E b \in Block : mgr[b] = "nackSent" /\ (ReliableBlock(b) \/ TearDown(b))
        ]_vars
  BY StepTally DEF Balanced, Bypass
<1> QED
  BY <1>1, TallyInvariant, PTL DEF Spec, DriftOnlyByBypass
=============================================================================
