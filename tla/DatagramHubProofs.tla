-------------------------- MODULE DatagramHubProofs --------------------------
(***************************************************************************)
(* For every set of streams and every capacity: the hub's buffers keep     *)
(* their bounds, no symbol is left in the pending map of a stream that has *)
(* its route, and a tunnel takes its symbols in the order of arrival.      *)
(***************************************************************************)
EXTENDS DatagramHub, FiniteSetTheorems, TLAPS

-----------------------------------------------------------------------------
(* Types and bounds.                                                       *)

\* What is appended to a sequence, and what a sequence loses at its head.
LEMMA Appended ==
  ASSUME NEW S, NEW q \in Seq(S), NEW x \in S
  PROVE  /\ Append(q, x) \in Seq(S) /\ Len(Append(q, x)) = Len(q) + 1
         /\ Append(q, x)[Len(q) + 1] = x
         /\ \A i \in 1 .. Len(q) : Append(q, x)[i] = q[i]
OBVIOUS

LEMMA TailOf ==
  ASSUME NEW S, NEW q \in Seq(S), q # <<>>
  PROVE  /\ Tail(q) \in Seq(S) /\ Len(Tail(q)) = Len(q) - 1 /\ Head(q) \in S
         /\ Head(q) = q[1] /\ Len(q) \in Nat /\ Len(q) >= 1
         /\ \A i \in 1 .. Len(q) - 1 : Tail(q)[i] = q[i + 1]
OBVIOUS

\* What register replays is the beginning of what was buffered.
LEMMA ReplayBegins ==
  ASSUME NEW S, NEW q \in Seq(S)
  PROVE  /\ Replay(q) \in Seq(S)
         /\ Len(Replay(q)) <= Len(q) /\ Len(Replay(q)) <= RouteCapacity
         /\ \A i \in 1 .. Len(Replay(q)) : Replay(q)[i] = q[i]
<1> USE HubAssumption
<1>1. CASE Len(q) <= RouteCapacity
  BY <1>1 DEF Replay
<1>2. CASE ~(Len(q) <= RouteCapacity)
  <2>1. Replay(q) = SubSeq(q, 1, RouteCapacity) /\ RouteCapacity \in 1 .. Len(q)
    BY <1>2 DEF Replay
  <2>2. /\ SubSeq(q, 1, RouteCapacity) \in Seq(S)
        /\ Len(SubSeq(q, 1, RouteCapacity)) = RouteCapacity
        /\ \A i \in 1 .. RouteCapacity : SubSeq(q, 1, RouteCapacity)[i] = q[i]
    BY <2>1
  <2> QED
    BY <2>1, <2>2
<1> QED
  BY <1>1, <1>2

\* The symbol the reader holds is the stream's last arrival.
Held(s) == reader[1] # "idle" /\ reader[2] = {s}
HeldArrived == \A s \in Stream : Held(s) => arrivals[s] >= 1

TypeInv == TypeOK /\ HeldArrived

\* The streams with buffered symbols are finitely many.
LEMMA PendingFinite == IsFiniteSet(PendingStreams)
  BY HubAssumption, FS_Subset DEF PendingStreams

\* Emptying buffers keeps their number within its bound.
LEMMA FewerPending ==
  ASSUME TypeOK, NEW s \in Stream, pending' = [pending EXCEPT ![s] = <<>>]
  PROVE  /\ pending' \in [Stream -> Seq(Symbol)]
         /\ \A r \in Stream : Len(pending'[r]) <= MaxPending
         /\ Cardinality(PendingStreams') <= MaxPendingStreams
<1>1. /\ pending' \in [Stream -> Seq(Symbol)]
      /\ \A r \in Stream : pending'[r] = IF r = s THEN <<>> ELSE pending[r]
  BY DEF TypeOK
<1>2. PendingStreams' \subseteq PendingStreams
  BY <1>1 DEF PendingStreams
<1>3. Cardinality(PendingStreams') <= Cardinality(PendingStreams)
  BY <1>2, PendingFinite, FS_Subset
<1>4. Cardinality(PendingStreams) \in Nat /\ Cardinality(PendingStreams') \in Nat
  BY <1>2, PendingFinite, FS_Subset, FS_CardinalityType
<1> QED
  BY <1>1, <1>3, <1>4, HubAssumption DEF TypeOK

LEMMA LookupType ==
  ASSUME TypeInv, NEW s \in Stream, Lookup(s)
  PROVE  TypeInv'
<1>1. /\ arrivals[s] \in Nat /\ arrivals[s] + 1 \in 0 .. MaxArrivals
      /\ arrivals' = [arrivals EXCEPT ![s] = @ + 1]
      /\ UNCHANGED <<tunnel, routes, pending, channel, taken>>
  BY HubAssumption DEF Lookup, TypeInv, TypeOK
<1>2. reader' \in Reader /\ reader'[2] = {s}
  BY DEF Lookup, Reader
<1>3. TypeOK'
  BY <1>1, <1>2 DEF TypeInv, TypeOK, PendingStreams
<1>4. arrivals'[s] >= 1
  BY <1>1 DEF TypeInv, TypeOK
<1>5. HeldArrived'
  BY <1>2, <1>4 DEF HeldArrived, Held
<1> QED
  BY <1>3, <1>5 DEF TypeInv

LEMMA SendType ==
  ASSUME TypeInv, NEW s \in Stream, SendToRoute(s)
  PROVE  TypeInv'
<1>1. /\ reader' = Idle /\ arrivals[s] \in Symbol
      /\ UNCHANGED <<tunnel, routes, pending, arrivals, taken>>
  BY HubAssumption DEF SendToRoute, TypeInv, TypeOK, HeldArrived, Held, Symbol
<1>2. /\ channel' \in [Stream -> Seq(Symbol)]
      /\ \A r \in Stream : Len(channel'[r]) <= RouteCapacity
  <2>1. CASE channel' = channel
    BY <2>1 DEF TypeInv, TypeOK
  <2>2. CASE /\ Len(channel[s]) < RouteCapacity
             /\ channel' = [channel EXCEPT ![s] = Append(@, arrivals[s])]
    <3>1. channel[s] \in Seq(Symbol) /\ Len(channel[s]) \in Nat
      BY DEF TypeInv, TypeOK
    <3>2. /\ Append(channel[s], arrivals[s]) \in Seq(Symbol)
          /\ Len(Append(channel[s], arrivals[s])) <= RouteCapacity
      BY <1>1, <2>2, <3>1, Appended, HubAssumption
    <3> QED
      BY <2>2, <3>2 DEF TypeInv, TypeOK
  <2> QED
    BY <2>1, <2>2 DEF SendToRoute
<1>3. reader' \in Reader /\ reader'[1] = "idle"
  BY <1>1 DEF Reader, Idle
<1> QED
  BY <1>1, <1>2, <1>3 DEF TypeInv, TypeOK, HeldArrived, Held, PendingStreams

LEMMA DispatchType ==
  ASSUME TypeInv, NEW s \in Stream, DispatchSkips(s) \/ DispatchBuffers(s)
  PROVE  TypeInv'
<1>0. /\ reader = <<"buffer", {s}>> /\ reader' = Idle
      /\ UNCHANGED <<tunnel, routes, channel, arrivals, taken>>
  BY DEF DispatchSkips, DispatchBuffers
<1>1. arrivals[s] \in Symbol
  BY <1>0, HubAssumption DEF TypeInv, TypeOK, HeldArrived, Held, Symbol
<1>2. reader' \in Reader /\ reader'[1] = "idle"
  BY <1>0 DEF Reader, Idle
<1>3. /\ pending' \in [Stream -> Seq(Symbol)]
      /\ \A r \in Stream : Len(pending'[r]) <= MaxPending
      /\ Cardinality(PendingStreams') <= MaxPendingStreams
  <2>1. CASE pending' = pending
    BY <2>1 DEF TypeInv, TypeOK, PendingStreams
  <2>2. CASE Buffered(s) /\ pending' = [pending EXCEPT ![s] = Append(@, arrivals[s])]
    <3>1. pending[s] \in Seq(Symbol) /\ Len(pending[s]) \in Nat
      BY DEF TypeInv, TypeOK
    <3>2. /\ Append(pending[s], arrivals[s]) \in Seq(Symbol)
          /\ Len(Append(pending[s], arrivals[s])) <= MaxPending
      BY <1>1, <2>2, <3>1, Appended, HubAssumption DEF Buffered
    <3>3. /\ pending' \in [Stream -> Seq(Symbol)]
          /\ \A r \in Stream : Len(pending'[r]) <= MaxPending
          /\ PendingStreams' \subseteq PendingStreams \cup {s}
      BY <2>2, <3>2 DEF TypeInv, TypeOK, PendingStreams
    <3>4. Cardinality(PendingStreams \cup {s}) <= MaxPendingStreams
      <4>1. Cardinality(PendingStreams) \in Nat
        BY PendingFinite, FS_CardinalityType
      <4>2. CASE s \in PendingStreams
        <5>1. PendingStreams \cup {s} = PendingStreams
          BY <4>2
        <5> QED
          BY <5>1 DEF TypeInv, TypeOK
      <4>3. CASE s \notin PendingStreams
        <5>1. Cardinality(PendingStreams \cup {s}) = Cardinality(PendingStreams) + 1
          BY <4>3, PendingFinite, FS_AddElement
        <5>2. Cardinality(PendingStreams) < MaxPendingStreams
          BY <2>2, <4>3 DEF Buffered
        <5> QED
          BY <4>1, <5>1, <5>2, HubAssumption
      <4> QED
        BY <4>2, <4>3
    <3>5. /\ Cardinality(PendingStreams') <= Cardinality(PendingStreams \cup {s})
          /\ Cardinality(PendingStreams') \in Nat
          /\ Cardinality(PendingStreams \cup {s}) \in Nat
      BY <3>3, PendingFinite, FS_AddElement, FS_Subset, FS_CardinalityType
    <3> QED
      BY <3>3, <3>4, <3>5, HubAssumption
  <2>3. CASE DispatchSkips(s)
    BY <2>1, <2>3 DEF DispatchSkips
  <2>4. CASE DispatchBuffers(s) /\ Buffered(s)
    <3>1. pending' = [pending EXCEPT ![s] = Append(@, arrivals[s])]
      BY <2>4 DEF DispatchBuffers
    <3> QED
      BY <2>2, <2>4, <3>1
  <2>5. CASE DispatchBuffers(s) /\ ~Buffered(s)
    BY <2>1, <2>5 DEF DispatchBuffers
  <2> QED
    BY <2>3, <2>4, <2>5
<1> QED
  BY <1>0, <1>2, <1>3 DEF TypeInv, TypeOK, HeldArrived, Held

LEMMA RegisterType ==
  ASSUME TypeInv, NEW s \in Stream, Register(s)
  PROVE  TypeInv'
<1>1. /\ tunnel' = [tunnel EXCEPT ![s] = "open"] /\ routes' = routes \cup {s}
      /\ channel' = [channel EXCEPT ![s] = Replay(pending[s])]
      /\ pending' = [pending EXCEPT ![s] = <<>>]
      /\ UNCHANGED <<reader, arrivals, taken>>
  BY DEF Register
<1>2. Replay(pending[s]) \in Seq(Symbol) /\ Len(Replay(pending[s])) <= RouteCapacity
  BY ReplayBegins DEF TypeInv, TypeOK
<1>3. /\ tunnel' \in [Stream -> {"new", "open", "ended", "closed"}]
      /\ routes' = {r \in Stream : tunnel'[r] \in {"open", "ended"}}
  BY <1>1 DEF TypeInv, TypeOK
<1>4. /\ channel' \in [Stream -> Seq(Symbol)]
      /\ \A r \in Stream : Len(channel'[r]) <= RouteCapacity
  BY <1>1, <1>2 DEF TypeInv, TypeOK
<1> QED
  BY <1>1, <1>3, <1>4, FewerPending DEF TypeInv, TypeOK, HeldArrived, Held

LEMMA TunnelType ==
  ASSUME TypeInv, NEW s \in Stream, Take(s) \/ DropReceiver(s) \/ DropGuard(s)
  PROVE  TypeInv'
<1>1. CASE Take(s)
  <2>1. /\ channel[s] \in Seq(Symbol) /\ channel[s] # <<>>
        /\ channel' = [channel EXCEPT ![s] = Tail(@)]
        /\ taken' = [taken EXCEPT ![s] = Head(channel[s])]
        /\ UNCHANGED <<tunnel, routes, pending, reader, arrivals>>
    BY <1>1 DEF Take, TypeInv, TypeOK
  <2>2. /\ Tail(channel[s]) \in Seq(Symbol) /\ Head(channel[s]) \in Symbol
        /\ Len(Tail(channel[s])) <= Len(channel[s])
        /\ Len(Tail(channel[s])) \in Nat /\ Len(channel[s]) \in Nat
    BY <2>1, TailOf
  <2>3. Len(Tail(channel[s])) <= RouteCapacity
    BY <2>2, HubAssumption DEF TypeInv, TypeOK
  <2>4. /\ channel' \in [Stream -> Seq(Symbol)]
        /\ \A r \in Stream : Len(channel'[r]) <= RouteCapacity
    BY <2>1, <2>2, <2>3 DEF TypeInv, TypeOK
  <2>5. taken' \in [Stream -> 0 .. MaxArrivals]
    BY <2>1, <2>2 DEF TypeInv, TypeOK, Symbol
  <2> QED
    BY <2>1, <2>4, <2>5 DEF TypeInv, TypeOK, HeldArrived, Held, PendingStreams
<1>2. CASE DropReceiver(s)
  <2>1. /\ tunnel[s] = "open" /\ tunnel' = [tunnel EXCEPT ![s] = "ended"]
        /\ channel' = [channel EXCEPT ![s] = <<>>]
        /\ UNCHANGED <<routes, pending, reader, arrivals, taken>>
    BY <1>2 DEF DropReceiver
  <2>2. /\ channel' \in [Stream -> Seq(Symbol)]
        /\ \A r \in Stream : Len(channel'[r]) <= RouteCapacity
    BY <2>1, HubAssumption DEF TypeInv, TypeOK
  <2> QED
    BY <2>1, <2>2 DEF TypeInv, TypeOK, HeldArrived, Held, PendingStreams
<1>3. CASE DropGuard(s)
  <2>1. /\ tunnel' = [tunnel EXCEPT ![s] = "closed"] /\ routes' = routes \ {s}
        /\ pending' = [pending EXCEPT ![s] = <<>>]
        /\ UNCHANGED <<channel, reader, arrivals, taken>>
    BY <1>3 DEF DropGuard, RoutesWithout
  <2>2. /\ tunnel' \in [Stream -> {"new", "open", "ended", "closed"}]
        /\ routes' = {r \in Stream : tunnel'[r] \in {"open", "ended"}}
    BY <2>1 DEF TypeInv, TypeOK
  <2> QED
    BY <2>1, <2>2, FewerPending DEF TypeInv, TypeOK, HeldArrived, Held
<1> QED
  BY <1>1, <1>2, <1>3

LEMMA StepType == TypeInv /\ [Next]_vars => TypeInv'
<1> SUFFICES ASSUME TypeInv, [Next]_vars PROVE TypeInv'
  OBVIOUS
<1>1. CASE UNCHANGED vars
  BY <1>1 DEF vars, TypeInv, TypeOK, HeldArrived, Held, PendingStreams
<1>2. CASE Next
  BY <1>2, LookupType, SendType, DispatchType, RegisterType, TunnelType DEF Next
<1> QED
  BY <1>1, <1>2

LEMMA InitType == Init => TypeInv
<1> SUFFICES ASSUME Init PROVE TypeInv
  OBVIOUS
<1>1. PendingStreams = {}
  BY DEF Init, PendingStreams
<1>2. Cardinality(PendingStreams) <= MaxPendingStreams
  BY <1>1, FS_EmptySet, HubAssumption
<1>3. reader \in Reader /\ reader[1] = "idle"
  BY DEF Init, Reader, Idle
<1> QED
  BY <1>2, <1>3, HubAssumption DEF Init, TypeInv, TypeOK, HeldArrived, Held, Symbol

LEMMA TypeInvariant == Spec => []TypeInv
  BY InitType, StepType, PTL DEF Spec

\* The routes are those of the live tunnels, and the pending map and the route
\* channels never outgrow MAX_PENDING_STREAMS, MAX_PENDING_PER_STREAM and
\* ROUTE_CAPACITY (DatagramHub::dispatch, register).
THEOREM TypeCorrect == Spec => []TypeOK
<1>1. TypeInv => TypeOK
  BY DEF TypeInv
<1> QED
  BY <1>1, TypeInvariant, PTL

-----------------------------------------------------------------------------
(* The pending map and the routes.                                         *)

\* Every step keeps the pending map clear of the streams with a route.
LEMMA StepStranded == TypeInv /\ NoneStranded /\ [Next]_vars => NoneStranded'
<1> SUFFICES ASSUME TypeInv, NoneStranded, [Next]_vars PROVE NoneStranded'
  OBVIOUS
<1> USE DEF TypeInv, TypeOK, NoneStranded, PendingStreams
<1>1. CASE UNCHANGED vars
  BY <1>1 DEF vars
<1>2. ASSUME NEW s \in Stream,
             \/ Lookup(s) \/ SendToRoute(s) \/ DispatchSkips(s) \/ Take(s)
             \/ DropReceiver(s)
      PROVE  NoneStranded'
  <2>1. UNCHANGED <<routes, pending>>
    BY <1>2 DEF Lookup, SendToRoute, DispatchSkips, Take, DropReceiver
  <2> QED
    BY <2>1
<1>3. ASSUME NEW s \in Stream, DispatchBuffers(s)
      PROVE  NoneStranded'
  <2>1. /\ s \notin routes /\ UNCHANGED routes
        /\ \/ pending' = pending
           \/ pending' = [pending EXCEPT ![s] = Append(@, arrivals[s])]
    BY <1>3 DEF DispatchBuffers, Skipped
  <2>2. \A r \in Stream \ {s} : pending'[r] = pending[r]
    BY <2>1
  <2> QED
    BY <2>1, <2>2
<1>4. ASSUME NEW s \in Stream, Register(s) \/ DropGuard(s)
      PROVE  NoneStranded'
  <2>1. /\ routes' = routes \cup {s} \/ routes' = routes \ {s}
        /\ pending' = [pending EXCEPT ![s] = <<>>]
    BY <1>4 DEF Register, DropGuard, RoutesWithout
  <2> QED
    BY <2>1
<1> QED
  BY <1>1, <1>2, <1>3, <1>4 DEF Next

\* The pending map never holds symbols of a stream with a route, where nothing
\* would replay them: registration may come between the reader's two looks at
\* the routes (DatagramHub::dispatch_route, register, dispatch).
THEOREM NothingStranded == Spec => []NoneStranded
<1>1. Init => NoneStranded
  BY DEF Init, NoneStranded, PendingStreams
<1> QED
  BY <1>1, TypeInvariant, StepStranded, PTL DEF Spec

-----------------------------------------------------------------------------
(* The order of the symbols.                                               *)

\* The symbols of a sequence rise from above lo, and stay below hi or at it.
Rising(q, lo, hi) ==
  /\ \A i \in 1 .. Len(q) : lo < q[i] /\ q[i] <= hi
  /\ \A i, j \in 1 .. Len(q) : i < j => q[i] < q[j]

\* The newest arrival that is not still in the reader's hands.
Newest(s) == IF Held(s) THEN arrivals[s] - 1 ELSE arrivals[s]

\* A stream's symbols are in the channel or in the pending buffer, never in both.
OrderInv ==
  \A s \in Stream :
    /\ taken[s] <= Newest(s)
    /\ Rising(channel[s], taken[s], Newest(s))
    /\ Rising(pending[s], taken[s], Newest(s))
    /\ channel[s] # <<>> => tunnel[s] = "open"

HubInv == TypeInv /\ NoneStranded /\ OrderInv

LEMMA RisingAppend ==
  ASSUME NEW q \in Seq(Symbol), NEW lo \in Nat, NEW x \in Symbol,
         Rising(q, lo, x - 1), lo <= x - 1
  PROVE  Rising(Append(q, x), lo, x)
<1> DEFINE a == Append(q, x)
<1>1. /\ Len(a) = Len(q) + 1 /\ Len(q) \in Nat /\ a[Len(q) + 1] = x
      /\ \A i \in 1 .. Len(q) : a[i] = q[i] /\ q[i] \in Symbol
  BY Appended
<1>2. /\ x \in Nat /\ \A i \in 1 .. Len(q) : a[i] \in Nat /\ lo < a[i] /\ a[i] <= x - 1
      /\ \A i, j \in 1 .. Len(q) : i < j => a[i] < a[j]
  BY <1>1, HubAssumption DEF Symbol, Rising
<1> HIDE DEF a
<1>3. ASSUME NEW i \in 1 .. Len(a) PROVE lo < a[i] /\ a[i] <= x
  <2>1. i \in 1 .. Len(q) \/ i = Len(q) + 1
    BY <1>1
  <2> QED
    BY <1>1, <1>2, <2>1
<1>4. ASSUME NEW i \in 1 .. Len(a), NEW j \in 1 .. Len(a), i < j PROVE a[i] < a[j]
  <2>1. i \in 1 .. Len(q) /\ (j \in 1 .. Len(q) \/ j = Len(q) + 1)
    BY <1>1, <1>4
  <2> QED
    BY <1>1, <1>2, <1>4, <2>1
<1>5. Rising(a, lo, x)
  BY <1>3, <1>4 DEF Rising
<1> QED
  BY <1>5 DEF a

LEMMA RisingTail ==
  ASSUME NEW q \in Seq(Symbol), NEW lo \in Nat, NEW hi \in Nat, q # <<>>, Rising(q, lo, hi)
  PROVE  Rising(Tail(q), Head(q), hi) /\ Head(q) <= hi /\ lo < Head(q)
<1>1. /\ Len(Tail(q)) = Len(q) - 1 /\ Len(q) \in Nat /\ Len(q) >= 1 /\ Head(q) = q[1]
      /\ \A i \in 1 .. Len(q) - 1 : Tail(q)[i] = q[i + 1]
  BY TailOf
<1> QED
  BY <1>1 DEF Rising

LEMMA RisingReplay ==
  ASSUME NEW q \in Seq(Symbol), NEW lo, NEW hi, Rising(q, lo, hi)
  PROVE  Rising(Replay(q), lo, hi)
<1>1. /\ Len(Replay(q)) <= Len(q) /\ Len(q) \in Nat /\ Len(Replay(q)) \in Nat
      /\ \A i \in 1 .. Len(Replay(q)) : Replay(q)[i] = q[i]
  BY ReplayBegins
<1> QED
  BY <1>1 DEF Rising

\* Where nothing of a stream changes but the newest arrival, the order is kept.
LEMMA OrderKept ==
  ASSUME HubInv, TypeInv', NEW s \in Stream,
         tunnel'[s] = tunnel[s], channel'[s] = channel[s], pending'[s] = pending[s],
         taken'[s] = taken[s], Newest(s)' >= Newest(s)
  PROVE  /\ taken'[s] <= Newest(s)'
         /\ Rising(channel'[s], taken'[s], Newest(s)')
         /\ Rising(pending'[s], taken'[s], Newest(s)')
         /\ channel'[s] # <<>> => tunnel'[s] = "open"
<1>1. Newest(s) \in Int /\ Newest(s)' \in Int /\ taken[s] \in Int
  BY HubAssumption DEF HubInv, TypeInv, TypeOK, Newest
<1>2. \A i \in 1 .. Len(channel[s]) : channel[s][i] \in Int
  BY HubAssumption DEF HubInv, TypeInv, TypeOK, Symbol
<1>3. \A i \in 1 .. Len(pending[s]) : pending[s][i] \in Int
  BY HubAssumption DEF HubInv, TypeInv, TypeOK, Symbol
<1> QED
  BY <1>1, <1>2, <1>3 DEF HubInv, OrderInv, Rising

\* A step of the reader on s leaves the other streams' order alone: it holds a
\* symbol of no other stream, before or after.
LEMMA ReaderStep ==
  ASSUME HubInv, TypeInv', NEW s \in Stream,
         reader = Idle \/ reader[2] = {s}, reader' = Idle \/ reader'[2] = {s},
         UNCHANGED <<tunnel, taken>>,
         \A r \in Stream \ {s} : /\ channel'[r] = channel[r] /\ pending'[r] = pending[r]
                                 /\ arrivals'[r] = arrivals[r],
         taken'[s] <= Newest(s)', Rising(channel'[s], taken'[s], Newest(s)'),
         Rising(pending'[s], taken'[s], Newest(s)'), channel'[s] # <<>> => tunnel'[s] = "open"
  PROVE  OrderInv'
<1>1. \A r \in Stream \ {s} : ~Held(r) /\ ~Held(r)'
  BY DEF Held, Idle
<1>2. ASSUME NEW r \in Stream \ {s} PROVE Newest(r)' >= Newest(r)
  BY <1>1, HubAssumption DEF Newest, HubInv, TypeInv, TypeOK
<1> QED
  BY <1>2, OrderKept DEF OrderInv

\* What the order says of one stream, with the numbers in it.
LEMMA OrderOf ==
  ASSUME HubInv, NEW s \in Stream
  PROVE  /\ taken[s] \in Nat /\ arrivals[s] \in Nat /\ taken[s] <= Newest(s)
         /\ channel[s] \in Seq(Symbol) /\ pending[s] \in Seq(Symbol)
         /\ Rising(channel[s], taken[s], Newest(s))
         /\ Rising(pending[s], taken[s], Newest(s))
         /\ channel[s] # <<>> => tunnel[s] = "open"
         /\ Newest(s) \in Int /\ Newest(s) <= arrivals[s]
         /\ Held(s) => Newest(s) = arrivals[s] - 1 /\ arrivals[s] \in Symbol
BY HubAssumption
   DEF HubInv, TypeInv, TypeOK, OrderInv, HeldArrived, Newest, Symbol

\* A symbol that the reader hands over, or drops, is newer than all before it.
LEMMA ReaderOrder ==
  ASSUME HubInv, TypeInv', NEW s \in Stream,
         SendToRoute(s) \/ DispatchSkips(s) \/ DispatchBuffers(s)
  PROVE  OrderInv'
<1> DEFINE now == arrivals[s]
<1>1. /\ reader[1] # "idle" /\ reader[2] = {s} /\ reader' = Idle
      /\ UNCHANGED <<tunnel, routes, arrivals, taken>>
  BY DEF SendToRoute, DispatchSkips, DispatchBuffers
<1>2. /\ Held(s) /\ Newest(s) = now - 1 /\ Newest(s)' = now /\ now \in Symbol
      /\ now \in Nat
  BY <1>1, OrderOf, HubAssumption DEF Held, Newest, Idle
<1>3. /\ taken[s] \in Nat /\ taken[s] <= now - 1
      /\ channel[s] \in Seq(Symbol) /\ pending[s] \in Seq(Symbol)
      /\ Rising(channel[s], taken[s], now - 1) /\ Rising(pending[s], taken[s], now - 1)
      /\ channel[s] # <<>> => tunnel[s] = "open"
  BY <1>2, OrderOf
<1>4. /\ Rising(channel[s], taken[s], now) /\ Rising(pending[s], taken[s], now)
  <2>1. /\ \A i \in 1 .. Len(channel[s]) : channel[s][i] \in Nat
        /\ \A i \in 1 .. Len(pending[s]) : pending[s][i] \in Nat
    BY <1>3, HubAssumption DEF Symbol
  <2> QED
    BY <1>2, <1>3, <2>1 DEF Rising
<1>5. /\ Rising(Append(channel[s], now), taken[s], now)
      /\ Rising(Append(pending[s], now), taken[s], now)
  BY <1>2, <1>3, RisingAppend
<1>6. \/ UNCHANGED <<channel, pending>>
      \/ /\ tunnel[s] = "open" /\ channel' = [channel EXCEPT ![s] = Append(@, arrivals[s])]
         /\ pending' = pending
      \/ channel' = channel /\ pending' = [pending EXCEPT ![s] = Append(@, arrivals[s])]
  <2>1. CASE DispatchSkips(s)
    BY <2>1 DEF DispatchSkips
  <2>2. CASE SendToRoute(s)
    BY <2>2, Zenon DEF SendToRoute
  <2>3. CASE DispatchBuffers(s)
    BY <2>3, Zenon DEF DispatchBuffers
  <2> QED
    BY <2>1, <2>2, <2>3
<1>7. /\ DOMAIN channel = Stream /\ DOMAIN pending = Stream
  BY DEF HubInv, TypeInv, TypeOK
<1>8. CASE UNCHANGED <<channel, pending>>
  BY <1>1, <1>2, <1>3, <1>4, <1>8, ReaderStep
<1>9. CASE /\ tunnel[s] = "open" /\ channel' = [channel EXCEPT ![s] = Append(@, arrivals[s])]
           /\ pending' = pending
  <2>1. /\ channel'[s] = Append(channel[s], now)
        /\ \A r \in Stream \ {s} : channel'[r] = channel[r]
    BY <1>7, <1>9
  <2> QED
    BY <1>1, <1>2, <1>3, <1>4, <1>5, <1>9, <2>1, ReaderStep
<1>10. CASE channel' = channel /\ pending' = [pending EXCEPT ![s] = Append(@, arrivals[s])]
  <2>1. /\ pending'[s] = Append(pending[s], now)
        /\ \A r \in Stream \ {s} : pending'[r] = pending[r]
    BY <1>7, <1>10
  <2> QED
    BY <1>1, <1>2, <1>3, <1>4, <1>5, <1>10, <2>1, ReaderStep
<1> QED
  BY <1>6, <1>8, <1>9, <1>10

LEMMA LookupOrder ==
  ASSUME HubInv, TypeInv', NEW s \in Stream, Lookup(s)
  PROVE  OrderInv'
<1>1. /\ reader = Idle /\ reader'[1] # "idle" /\ reader'[2] = {s}
      /\ arrivals' = [arrivals EXCEPT ![s] = @ + 1]
      /\ UNCHANGED <<tunnel, routes, pending, channel, taken>>
  BY DEF Lookup
<1>2. ~Held(s) /\ Held(s)' /\ arrivals'[s] = arrivals[s] + 1
  BY <1>1 DEF Held, Idle, HubInv, TypeInv, TypeOK
<1>3. Newest(s)' = Newest(s)
  BY <1>2, OrderOf DEF Newest
<1>4. \A r \in Stream \ {s} : arrivals'[r] = arrivals[r]
  BY <1>1 DEF HubInv, TypeInv, TypeOK
<1> QED
  BY <1>1, <1>3, <1>4, OrderOf, ReaderStep

\* A tunnel's step leaves the reader and the other streams alone.
LEMMA TunnelStep ==
  ASSUME HubInv, TypeInv', NEW s \in Stream, UNCHANGED <<reader, arrivals>>,
         \A r \in Stream \ {s} : /\ channel'[r] = channel[r] /\ pending'[r] = pending[r]
                                 /\ tunnel'[r] = tunnel[r] /\ taken'[r] = taken[r],
         taken'[s] <= Newest(s), Rising(channel'[s], taken'[s], Newest(s)),
         Rising(pending'[s], taken'[s], Newest(s)), channel'[s] # <<>> => tunnel'[s] = "open"
  PROVE  OrderInv'
<1>1. \A r \in Stream : Newest(r)' = Newest(r)
  BY DEF Newest, Held
<1> QED
  BY <1>1, OrderOf DEF OrderInv

LEMMA TunnelOrder ==
  ASSUME HubInv, TypeInv', NEW s \in Stream,
         Register(s) \/ Take(s) \/ DropReceiver(s) \/ DropGuard(s)
  PROVE  OrderInv'
<1>1. /\ DOMAIN channel = Stream /\ DOMAIN pending = Stream
      /\ DOMAIN tunnel = Stream /\ DOMAIN taken = Stream
      /\ routes = {r \in Stream : tunnel[r] \in {"open", "ended"}}
  BY DEF HubInv, TypeInv, TypeOK
<1>2. \A lo, hi : Rising(<<>>, lo, hi)
  BY DEF Rising
<1>3. CASE Register(s)
  <2>1. /\ tunnel' = [tunnel EXCEPT ![s] = "open"]
        /\ channel' = [channel EXCEPT ![s] = Replay(pending[s])]
        /\ pending' = [pending EXCEPT ![s] = <<>>]
        /\ UNCHANGED <<reader, arrivals, taken>>
    BY <1>3 DEF Register
  <2>2. Rising(Replay(pending[s]), taken[s], Newest(s))
    BY OrderOf, RisingReplay
  <2> QED
    BY <1>1, <1>2, <2>1, <2>2, OrderOf, TunnelStep
<1>4. CASE Take(s)
  <2>1. /\ tunnel[s] = "open" /\ channel[s] # <<>>
        /\ taken' = [taken EXCEPT ![s] = Head(channel[s])]
        /\ channel' = [channel EXCEPT ![s] = Tail(@)]
        /\ UNCHANGED <<tunnel, routes, pending, reader, arrivals>>
    BY <1>4 DEF Take
  <2>2. pending[s] = <<>>
    BY <1>1, <2>1 DEF HubInv, NoneStranded, PendingStreams
  <2>3. Newest(s) \in Nat
    BY OrderOf
  <2>4. /\ Rising(Tail(channel[s]), Head(channel[s]), Newest(s))
        /\ Head(channel[s]) <= Newest(s)
    BY <2>1, <2>3, OrderOf, RisingTail
  <2> QED
    BY <1>1, <1>2, <2>1, <2>2, <2>4, TunnelStep
<1>5. CASE DropReceiver(s)
  <2>1. /\ tunnel' = [tunnel EXCEPT ![s] = "ended"]
        /\ channel' = [channel EXCEPT ![s] = <<>>]
        /\ UNCHANGED <<routes, pending, reader, arrivals, taken>>
    BY <1>5 DEF DropReceiver
  <2> QED
    BY <1>1, <1>2, <2>1, OrderOf, TunnelStep
<1>6. CASE DropGuard(s)
  <2>1. /\ tunnel[s] = "ended" /\ tunnel' = [tunnel EXCEPT ![s] = "closed"]
        /\ pending' = [pending EXCEPT ![s] = <<>>]
        /\ UNCHANGED <<channel, reader, arrivals, taken>>
    BY <1>6 DEF DropGuard
  <2> QED
    BY <1>1, <1>2, <2>1, OrderOf, TunnelStep
<1> QED
  BY <1>3, <1>4, <1>5, <1>6

\* Every step keeps the order.
LEMMA StepHub == HubInv /\ [Next]_vars => HubInv'
<1> SUFFICES ASSUME HubInv, [Next]_vars PROVE HubInv'
  OBVIOUS
<1>1. TypeInv' /\ NoneStranded'
  BY StepType, StepStranded DEF HubInv
<1>2. OrderInv'
  <2>1. CASE UNCHANGED vars
    BY <2>1 DEF vars, HubInv, OrderInv, Rising, Newest, Held
  <2>2. CASE Next
    BY <1>1, <2>2, LookupOrder, ReaderOrder, TunnelOrder DEF Next
  <2> QED
    BY <2>1, <2>2
<1> QED
  BY <1>1, <1>2 DEF HubInv

LEMMA InitHub == Init => HubInv
<1> SUFFICES ASSUME Init PROVE HubInv
  OBVIOUS
<1>1. TypeInv
  BY InitType
<1>2. NoneStranded
  BY DEF Init, NoneStranded, PendingStreams
<1>3. OrderInv
  BY DEF Init, OrderInv, Rising, Newest, Held, Idle
<1> QED
  BY <1>1, <1>2, <1>3 DEF HubInv

\* A rising sequence and what it rises from are rising together.
LEMMA FirstThenRising ==
  ASSUME NEW q \in Seq(Symbol), NEW x \in Nat, NEW hi, Rising(q, x, hi),
         NEW i \in 1 .. Len(<<x>> \o q) - 1
  PROVE  (<<x>> \o q)[i] < (<<x>> \o q)[i + 1]
<1> DEFINE due == <<x>> \o q
<1>1. /\ Len(due) = Len(q) + 1 /\ Len(q) \in Nat
      /\ due[1] = x
      /\ \A j \in 2 .. Len(q) + 1 : due[j] = q[j - 1]
  OBVIOUS
<1>2. i \in 1 .. Len(q)
  BY <1>1
<1>3. due[i + 1] = q[i]
  BY <1>1, <1>2
<1>4. CASE i = 1
  BY <1>1, <1>2, <1>3, <1>4 DEF Rising
<1>5. CASE i # 1
  <2>1. due[i] = q[i - 1] /\ i - 1 \in 1 .. Len(q) /\ i - 1 < i
    BY <1>1, <1>2, <1>5
  <2> QED
    BY <1>2, <1>3, <2>1 DEF Rising
<1> QED
  BY <1>4, <1>5

\* What is due to a tunnel, taken, in its channel and in the pending buffer, rises.
LEMMA DueRises == HubInv => ArrivalOrder
<1> SUFFICES ASSUME HubInv, NEW s \in Stream
             PROVE  \A i \in 1 .. Len(<<taken[s]>> \o channel[s] \o pending[s]) - 1 :
                      (<<taken[s]>> \o channel[s] \o pending[s])[i]
                        < (<<taken[s]>> \o channel[s] \o pending[s])[i + 1]
  BY DEF ArrivalOrder
<1>1. channel[s] = <<>> \/ pending[s] = <<>>
  BY OrderOf DEF HubInv, TypeInv, TypeOK, NoneStranded, PendingStreams
<1>2. CASE channel[s] = <<>>
  <2>1. <<taken[s]>> \o channel[s] = <<taken[s]>>
    BY <1>2
  <2> QED
    BY <2>1, OrderOf, FirstThenRising
<1>3. CASE pending[s] = <<>>
  <2>1. <<taken[s]>> \o channel[s] \o pending[s] = <<taken[s]>> \o channel[s]
    BY <1>3, OrderOf
  <2> QED
    BY <2>1, OrderOf, FirstThenRising
<1> QED
  BY <1>1, <1>2, <1>3

\* A tunnel takes its symbols in the order they arrived, across the hand-over
\* from the pending buffer to the route's channel, although the reader looks at
\* the routes and acts on what it saw in two steps (DatagramHub::dispatch_route,
\* register, dispatch).
THEOREM InArrivalOrder == Spec => []ArrivalOrder
<1> QED
  BY InitHub, StepHub, DueRises, PTL DEF Spec
=============================================================================
