--------------------------- MODULE MCRepairBudget ---------------------------
(***************************************************************************)
(* RepairBudget for the model checker.  Blocks are model values, and only  *)
(* the budget tells them apart by what they hold.                          *)
(***************************************************************************)
EXTENDS RepairBudget, TLC

\* Every action treats the blocks alike.
BlockSymmetry == Permutations(Block)
=============================================================================
