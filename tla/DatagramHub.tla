---------------------------- MODULE DatagramHub ----------------------------
(***************************************************************************)
(* The DatagramHub of one QUIC connection (crates/raptun-core/src/fec.rs)  *)
(* with the task that feeds it (spawn_datagram_reader) and the tunnels     *)
(* that register their stream with it and drop their HubGuard.             *)
(*                                                                         *)
(* The reader looks a datagram's route up and, without the hub's lock,     *)
(* sends it to the route or goes back to buffer it: two steps, between     *)
(* which a tunnel may register or end.  Symbols are told apart by the      *)
(* order in which they arrived.                                            *)
(***************************************************************************)
EXTENDS Integers, FiniteSets, Sequences, SequencesExt

CONSTANTS
  Stream,             \* stream ids, each opened once
  MaxArrivals,        \* bound: datagrams arriving for one stream
  MaxPendingStreams,  \* MAX_PENDING_STREAMS
  MaxPending,         \* MAX_PENDING_PER_STREAM
  RouteCapacity       \* ROUTE_CAPACITY

ASSUME HubAssumption ==
  /\ IsFiniteSet(Stream)
  /\ MaxArrivals \in Nat /\ MaxPendingStreams \in Nat
  /\ MaxPending \in Nat \ {0} /\ RouteCapacity \in Nat \ {0}

VARIABLES
  tunnel,    \* "new", "open", "ended" (receiver dropped), "closed"
  routes,    \* HubInner.routes
  pending,   \* HubInner.pending: an entry is a nonempty sequence
  channel,   \* the symbols in each route's channel
  reader,    \* what the reader is about to do, with which stream's symbol
  arrivals,  \* datagrams of each stream so far
  taken      \* the last symbol each tunnel's receiver has taken

vars == <<tunnel, routes, pending, channel, reader, arrivals, taken>>

Symbol == 1 .. MaxArrivals
Reader == {"idle"} \X {{}} \cup {"send", "buffer"} \X {{s} : s \in Stream}
Idle == <<"idle", {}>>
PendingStreams == {s \in Stream : pending[s] # <<>>}

TypeOK ==
  /\ tunnel \in [Stream -> {"new", "open", "ended", "closed"}]
  /\ routes = {s \in Stream : tunnel[s] \in {"open", "ended"}}
  /\ pending \in [Stream -> Seq(Symbol)] /\ channel \in [Stream -> Seq(Symbol)]
  /\ \A s \in Stream : Len(pending[s]) <= MaxPending /\ Len(channel[s]) <= RouteCapacity
  /\ Cardinality(PendingStreams) <= MaxPendingStreams
  /\ reader \in Reader
  /\ arrivals \in [Stream -> 0 .. MaxArrivals]
  /\ taken \in [Stream -> 0 .. MaxArrivals]

Init ==
  /\ tunnel = [s \in Stream |-> "new"]
  /\ routes = {}
  /\ pending = [s \in Stream |-> <<>>]
  /\ channel = [s \in Stream |-> <<>>]
  /\ reader = Idle
  /\ arrivals = [s \in Stream |-> 0]
  /\ taken = [s \in Stream |-> 0]

-----------------------------------------------------------------------------
(* The datagram reader.                                                    *)

\* read_datagram and dispatch_route.  The peer sends before the stream's route
\* is known here, and its last repair symbols after the tunnel has ended.
Lookup(s) ==
  /\ reader = Idle
  /\ arrivals[s] < MaxArrivals
  /\ arrivals' = [arrivals EXCEPT ![s] = @ + 1]
  /\ reader' = <<IF s \in routes THEN "send" ELSE "buffer", {s}>>
  /\ UNCHANGED <<tunnel, routes, pending, channel, taken>>

\* try_send fails when the channel is full or its receiver is gone.
SendToRoute(s) ==
  /\ reader = <<"send", {s}>>
  /\ reader' = Idle
  /\ IF tunnel[s] = "open" /\ Len(channel[s]) < RouteCapacity
     THEN channel' = [channel EXCEPT ![s] = Append(@, arrivals[s])]
     ELSE UNCHANGED channel
  /\ UNCHANGED <<tunnel, routes, pending, arrivals, taken>>

\* dispatch: a stream registered meanwhile is skipped, a full buffer drops.
SkippedNever(s) == FALSE \* slip: no second look at the routes
Skipped(s) == s \in routes
Buffered(s) ==
  /\ s \in PendingStreams \/ Cardinality(PendingStreams) < MaxPendingStreams
  /\ Len(pending[s]) < MaxPending

DispatchSkips(s) ==
  /\ reader = <<"buffer", {s}>> /\ Skipped(s)
  /\ reader' = Idle
  /\ UNCHANGED <<tunnel, routes, pending, channel, arrivals, taken>>

DispatchBuffers(s) ==
  /\ reader = <<"buffer", {s}>> /\ ~Skipped(s)
  /\ reader' = Idle
  /\ IF Buffered(s)
     THEN pending' = [pending EXCEPT ![s] = Append(@, arrivals[s])]
     ELSE UNCHANGED pending
  /\ UNCHANGED <<tunnel, routes, channel, arrivals, taken>>

-----------------------------------------------------------------------------
(* A tunnel.                                                               *)

\* register replays what was buffered, as far as the channel holds it, and
\* publishes the route, all under the lock.
ReplayNewest(buffer) == Reverse(buffer) \* slip: the last symbol first
Replay(buffer) == IF Len(buffer) <= RouteCapacity THEN buffer
                  ELSE SubSeq(buffer, 1, RouteCapacity)
Register(s) ==
  /\ tunnel[s] = "new"
  /\ tunnel' = [tunnel EXCEPT ![s] = "open"]
  /\ routes' = routes \cup {s}
  /\ channel' = [channel EXCEPT ![s] = Replay(pending[s])]
  /\ pending' = [pending EXCEPT ![s] = <<>>]
  /\ UNCHANGED <<reader, arrivals, taken>>

Take(s) ==
  /\ tunnel[s] = "open"
  /\ channel[s] # <<>>
  /\ taken' = [taken EXCEPT ![s] = Head(channel[s])]
  /\ channel' = [channel EXCEPT ![s] = Tail(@)]
  /\ UNCHANGED <<tunnel, routes, pending, reader, arrivals>>

\* The downstream task is over and its receiver dropped; the guard goes later,
\* with the whole tunnel.
DropReceiver(s) ==
  /\ tunnel[s] = "open"
  /\ tunnel' = [tunnel EXCEPT ![s] = "ended"]
  /\ channel' = [channel EXCEPT ![s] = <<>>]
  /\ UNCHANGED <<routes, pending, reader, arrivals, taken>>

\* HubGuard's Drop: unregister.
RoutesKept(s) == routes \* slip: the route outlives the tunnel
RoutesWithout(s) == routes \ {s}
DropGuard(s) ==
  /\ tunnel[s] = "ended"
  /\ tunnel' = [tunnel EXCEPT ![s] = "closed"]
  /\ routes' = RoutesWithout(s)
  /\ pending' = [pending EXCEPT ![s] = <<>>]
  /\ UNCHANGED <<channel, reader, arrivals, taken>>

Next ==
  \E s \in Stream :
    \/ Lookup(s) \/ SendToRoute(s) \/ DispatchSkips(s) \/ DispatchBuffers(s)
    \/ Register(s) \/ Take(s) \/ DropReceiver(s) \/ DropGuard(s)

Spec == Init /\ [][Next]_vars

-----------------------------------------------------------------------------
\* No symbol is stranded in the pending map of a stream that has its route:
\* nothing would ever replay it (DatagramHub::dispatch looks at the routes a
\* second time, under the lock register takes).
NoneStranded == routes \cap PendingStreams = {}

\* A tunnel takes its symbols in the order they arrived, across the hand-over
\* from the pending buffer to the channel.
ArrivalOrder ==
  \A s \in Stream :
    LET due == <<taken[s]>> \o channel[s] \o pending[s] IN
    \A i \in 1 .. Len(due) - 1 : due[i] < due[i + 1]
=============================================================================
