---------------------------- MODULE MCDatagramHub ----------------------------
(***************************************************************************)
(* DatagramHub for the model checker.  Stream ids are model values.        *)
(***************************************************************************)
EXTENDS DatagramHub, TLC

\* Every action treats the streams alike.
StreamSymmetry == Permutations(Stream)
=============================================================================
