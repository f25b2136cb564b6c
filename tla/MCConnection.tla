---- MODULE MCConnection ----
(* A small instance of Connection. *)
EXTENDS Connection

MCClientFec == [symbol |-> 1200, block |-> 0]
MCServerConfigs ==
  {[symbol |-> 1200, psk |-> "secret"], [symbol |-> 700, psk |-> "secret"],
   [symbol |-> 1200, psk |-> "other"]}
=============================
