-------------------------------- MODULE Tally --------------------------------
(***************************************************************************)
(* The sum of a function with natural values, as the number of its units:  *)
(* the shared counters of a connection are compared with what the tunnels  *)
(* and blocks hold of them.  Counting a set, unlike folding a function,    *)
(* is something the prover's library knows about.                          *)
(***************************************************************************)
EXTENDS Naturals, FiniteSets

\* f[x] units for each x.
Units(f) == UNION {{x} \X (1 .. f[x]) : x \in DOMAIN f}

Total(f) == Cardinality(Units(f))
=============================================================================
