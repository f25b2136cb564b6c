---------------------------- MODULE MCSendWindow ----------------------------
(***************************************************************************)
(* SendWindow for the model checker.  Tunnels are model values.            *)
(***************************************************************************)
EXTENDS SendWindow
=============================================================================
