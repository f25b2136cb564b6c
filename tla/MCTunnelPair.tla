---------------------------- MODULE MCTunnelPair ----------------------------
(***************************************************************************)
(* TunnelPair for the model checker: a request of one block and a response *)
(* of two.                                                                 *)
(***************************************************************************)
EXTENDS TunnelPair

PairBlocks == [p \in Peer |-> IF p = "client" THEN 1 ELSE 2]
=============================================================================
