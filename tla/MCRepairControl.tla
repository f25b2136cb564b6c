--------------------------- MODULE MCRepairControl ---------------------------
(* Intervals of a clean link, of a link with random loss of 5 and 20 percent, *)
(* of a drowning one, of a stalled one on which losses are declared though   *)
(* nothing was sent, and of one whose congestion window was cut or grows.    *)
EXTENDS RepairControl

MCSamples == {[sent |-> 100, lost |-> 0, cwnd |-> 80],
              [sent |-> 100, lost |-> 5, cwnd |-> 80],
              [sent |-> 50, lost |-> 10, cwnd |-> 100],
              [sent |-> 40, lost |-> 60, cwnd |-> 100],
              [sent |-> 0, lost |-> 3, cwnd |-> 80]}
=============================================================================
