----------------------------- MODULE RepairBudget -----------------------------
(***************************************************************************)
(* The connection-wide RepairBudget of crates/raptun-fec (budget.rs) and   *)
(* everyone who draws on it: the BlockManagers (decoder.rs) of the blocks  *)
(* being received, and the proactive top-ups of the sender (fec.rs).       *)
(*                                                                         *)
(* Each manager is driven by the downstream task of its tunnel, and the    *)
(* tasks run on several threads: the ceiling is loaded once at the start   *)
(* of try_reserve and the reservation commits in a later step, by a        *)
(* compare-and-swap on in_flight.                                          *)
(*                                                                         *)
(* A block's clocks are the phases its stall test tells apart.             *)
(***************************************************************************)
EXTENDS Integers, Tally

CONSTANTS
  Block,         \* blocks being received, each by one tunnel
  K,             \* source symbols of a block
  Ceilings,      \* ceilings refresh_ceiling computes from the cwnd
  Desired,       \* symbols of one proactive top-up
  MaxTopups,     \* bound: top-ups (PROACTIVE_TOPUP_CAP for every block sent)
  Failures       \* decoding may fail although K symbols arrived

ASSUME BudgetAssumption ==
  /\ IsFiniteSet(Block)
  /\ K \in Nat \ {0} /\ Desired \in Nat \ {0} /\ MaxTopups \in Nat
  /\ Ceilings \subseteq Nat
  /\ Failures \in BOOLEAN

None == -1

VARIABLES
  inFlight,   \* RepairBudget.in_flight
  ceiling,    \* RepairBudget.ceiling
  peak,       \* history: the highest ceiling published so far
  mgr,        \* state of each block's manager
  recv,       \* received
  reserved,   \* reserved
  age,        \* time since the first symbol, against the two stall deadlines
  behind,     \* a later block of the stream has been seen
  waited,     \* one RTT has passed since the NACK
  snap,       \* the ceiling a try_reserve in progress has loaded
  topup,      \* the ceiling a proactive try_reserve has loaded
  topups      \* top-ups granted so far

vars == <<inFlight, ceiling, peak, mgr, recv, reserved, age, behind, waited,
          snap, topup, topups>>

\* "none": no symbol yet; "reserving": tick_stalled between the load of the
\* ceiling and the outcome; "gone": decoded, completed reliably or torn down.
\* Stalled never outlives the tick that enters it.
MgrStates == {"none", "filling", "reserving", "nackSent", "degraded", "gone"}
Ages == {"fresh", "pastGrace", "pastHard"}

TypeOK ==
  /\ inFlight \in Nat
  /\ ceiling \in Nat /\ peak \in Nat
  /\ mgr \in [Block -> MgrStates]
  /\ recv \in [Block -> Nat]
  /\ reserved \in [Block -> 0 .. K]
  /\ age \in [Block -> Ages]
  /\ behind \in [Block -> BOOLEAN]
  /\ waited \in [Block -> BOOLEAN]
  /\ snap \in [Block -> Nat \cup {None}]
  /\ topup \in Nat \cup {None}
  /\ topups \in 0 .. MaxTopups

Init ==
  /\ inFlight = 0 /\ ceiling = 0 /\ peak = 0
  /\ mgr = [b \in Block |-> "none"]
  /\ recv = [b \in Block |-> 0]
  /\ reserved = [b \in Block |-> 0]
  /\ age = [b \in Block |-> "fresh"]
  /\ behind = [b \in Block |-> FALSE]
  /\ waited = [b \in Block |-> FALSE]
  /\ snap = [b \in Block |-> None]
  /\ topup = None /\ topups = 0

budgetVars == <<ceiling, peak, topup, topups>>
clockVars == <<age, behind, waited>>

-----------------------------------------------------------------------------
\* refresh_ceiling, from any tunnel's tick or the adaptive controller.
Refresh ==
  /\ ceiling' \in Ceilings
  /\ peak' = IF ceiling' > peak THEN ceiling' ELSE peak
  /\ UNCHANGED <<inFlight, mgr, recv, reserved, clockVars, snap, topup, topups>>

\* Time passes for a block.
Older(b) ==
  /\ mgr[b] \in {"filling", "nackSent"}
  /\ \/ /\ age[b] # "pastHard"
        /\ age' = [age EXCEPT ![b] = IF @ = "fresh" THEN "pastGrace"
                                     ELSE "pastHard"]
        /\ UNCHANGED waited
     \/ /\ mgr[b] = "nackSent"
        /\ waited' = [waited EXCEPT ![b] = TRUE]
        /\ UNCHANGED age
  /\ UNCHANGED <<inFlight, budgetVars, mgr, recv, reserved, behind, snap>>

\* A symbol of a higher block arrives: highest_seen > block_id from now on.
LaterBlockSeen(b) ==
  /\ mgr[b] \in {"filling", "nackSent"}
  /\ ~behind[b]
  /\ behind' = [behind EXCEPT ![b] = TRUE]
  /\ UNCHANGED <<inFlight, budgetVars, mgr, recv, reserved, age, waited, snap>>

\* release_reservation
NoRelease(b) == \* slip: the reservation is cleared but not given back
  /\ reserved' = [reserved EXCEPT ![b] = 0]
  /\ UNCHANGED inFlight
ReleaseKept(b) == \* slip: given back, and still recorded
  /\ inFlight' = inFlight - reserved[b]
  /\ UNCHANGED reserved
Release(b) ==
  /\ inFlight' = inFlight - reserved[b]
  /\ reserved' = [reserved EXCEPT ![b] = 0]

\* on_symbol of a manager that is not terminal: any symbol ends a NACK's
\* wait and gives its reservation back, whether or not the block decodes.
Symbol(b) ==
  /\ mgr[b] \in {"none", "filling", "nackSent"}
  /\ recv[b] <= K
  /\ recv' = [recv EXCEPT ![b] = @ + 1]
  /\ \/ /\ recv[b] + 1 >= K
        /\ mgr' = [mgr EXCEPT ![b] = "gone"]
     \/ /\ recv[b] + 1 < K \/ Failures
        /\ mgr' = [mgr EXCEPT ![b] = "filling"]
  /\ Release(b)
  /\ waited' = [waited EXCEPT ![b] = FALSE]
  /\ UNCHANGED <<budgetVars, age, behind, snap>>

\* The three-way stall test of tick_filling, and the timeout of a NACK.
StalledAnyAge(b) == mgr[b] \in {"filling", "nackSent"} \* slip: no still_short
                    /\ age[b] = "pastHard"
Stalled(b) ==
  /\ recv[b] < K
  /\ \/ /\ mgr[b] = "filling"
        /\ age[b] = "pastHard" \/ (behind[b] /\ age[b] = "pastGrace")
     \/ mgr[b] = "nackSent" /\ waited[b]

\* tick of a stalled block gives a reservation back first, then arbitrates:
\* degrade under congestion, ask the budget otherwise.
TickStalled(b) ==
  /\ Stalled(b)
  /\ Release(b)
  /\ \/ mgr' = [mgr EXCEPT ![b] = "degraded"] /\ UNCHANGED snap
     \/ /\ mgr' = [mgr EXCEPT ![b] = "reserving"]
        /\ snap' = [snap EXCEPT ![b] = ceiling]
  /\ waited' = [waited EXCEPT ![b] = FALSE]
  /\ UNCHANGED <<budgetVars, recv, age, behind>>

\* try_reserve's compare-and-swap.
FitsBelow(n, bound) == inFlight <= bound \* slip: n is not counted
Fits(n, bound) == inFlight + n <= bound

Reserve(b) ==
  LET need == K - recv[b] IN
  /\ mgr[b] = "reserving"
  /\ \/ /\ Fits(need, snap[b])
        /\ inFlight' = inFlight + need
        /\ reserved' = [reserved EXCEPT ![b] = need]
        /\ mgr' = [mgr EXCEPT ![b] = "nackSent"]
     \/ /\ ~Fits(need, snap[b])
        /\ mgr' = [mgr EXCEPT ![b] = "degraded"]
        /\ UNCHANGED <<inFlight, reserved>>
  /\ snap' = [snap EXCEPT ![b] = None]
  /\ UNCHANGED <<budgetVars, recv, clockVars>>

\* FecReceiver::on_reliable_block removes the manager, whatever its state.
ReliableBlock(b) ==
  /\ mgr[b] \in {"none", "filling", "nackSent", "degraded"}
  /\ mgr' = [mgr EXCEPT ![b] = "gone"]
  /\ reserved' = [reserved EXCEPT ![b] = 0]
  /\ UNCHANGED <<inFlight, budgetVars, recv, clockVars, snap>>

\* The tunnel ends and its managers are dropped with the receiver.
TearDown(b) ==
  /\ mgr[b] # "gone" /\ mgr[b] # "reserving"
  /\ mgr' = [mgr EXCEPT ![b] = "gone"]
  /\ reserved' = [reserved EXCEPT ![b] = 0]
  /\ UNCHANGED <<inFlight, budgetVars, recv, clockVars, snap>>

\* proactive_topups: a reservation nobody releases.
TopupLoad ==
  /\ topup = None
  /\ topups < MaxTopups
  /\ topup' = ceiling
  /\ UNCHANGED <<inFlight, ceiling, peak, mgr, recv, reserved, clockVars, snap,
                 topups>>

TopupReserve ==
  /\ topup # None
  /\ topup' = None
  /\ \/ /\ Fits(Desired, topup)
        /\ inFlight' = inFlight + Desired
        /\ topups' = topups + 1
     \/ /\ ~Fits(Desired, topup)
        /\ UNCHANGED <<inFlight, topups>>
  /\ UNCHANGED <<ceiling, peak, mgr, recv, reserved, clockVars, snap>>

Next ==
  \/ Refresh \/ TopupLoad \/ TopupReserve
  \/ \E b \in Block :
       \/ Older(b) \/ LaterBlockSeen(b) \/ Symbol(b) \/ TickStalled(b)
       \/ Reserve(b) \/ ReliableBlock(b) \/ TearDown(b)

Spec == Init /\ [][Next]_vars

-----------------------------------------------------------------------------
\* Repair in flight never exceeds the highest ceiling published, even though
\* try_reserve works with a ceiling that may already be stale.
WithinPeak == inFlight <= peak

\* Nothing is given back twice: every reservation still recorded by a manager
\* is covered by the counter, so release never wraps it below zero.
ReservationsCovered == Total(reserved) <= inFlight

\* A manager holds a reservation exactly while its NACK is outstanding, and
\* then for at least one symbol (BlockManager.reserved).
ReservedWhileNacked == \A b \in Block : reserved[b] > 0 <=> mgr[b] = "nackSent"

\* Losing a reservation for ever is confined to the exits that skip on_symbol
\* and tick: while none was taken and no top-up granted, the counter is exactly
\* what the managers hold.  (Stated as a step: the two never drift apart in a
\* step of Refresh, the clocks, a symbol, a tick or a reservation.)
DriftOnlyByBypass ==
  [][ inFlight' - Total(reserved') # inFlight - Total(reserved)
      => \/ TopupReserve
         \/ \E b \in Block : mgr[b] = "nackSent" /\ (ReliableBlock(b) \/ TearDown(b))
    ]_vars
=============================================================================
