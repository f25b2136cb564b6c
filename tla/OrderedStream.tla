---------------------------- MODULE OrderedStream ----------------------------
(***************************************************************************)
(* What one direction of a raptun tunnel promises the two applications     *)
(* behind it: the blocks cut from the byte stream reach the other side in  *)
(* order, without gaps and without repeats, and the far TCP socket is shut *)
(* down only when the near one was, after everything has been delivered.   *)
(* It is the contract of a TCP relay, and the module FecTunnel implements  *)
(* it.                                                                     *)
(***************************************************************************)
EXTENDS Naturals

CONSTANT MaxBlocks    \* bound: blocks the application may write

VARIABLES
  written,     \* blocks the sending application has handed over
  eof,         \* the sending application has closed its side
  delivered,   \* blocks handed to the receiving application
  closed       \* the receiving application has seen end of stream

streamVars == <<written, eof, delivered, closed>>

StreamInit ==
  /\ written = 0
  /\ eof = FALSE
  /\ delivered = 0
  /\ closed = FALSE

Write ==
  /\ ~eof
  /\ written < MaxBlocks
  /\ written' = written + 1
  /\ UNCHANGED <<eof, delivered, closed>>

CloseWrite ==
  /\ ~eof
  /\ eof' = TRUE
  /\ UNCHANGED <<written, delivered, closed>>

\* A run of blocks is delivered at once; the stream is shut down in the same
\* step when the run was the last one.
Deliver ==
  /\ ~closed
  /\ delivered' \in delivered .. written
  /\ closed' \in {FALSE, eof /\ delivered' = written}
  /\ UNCHANGED <<written, eof>>

StreamNext == Write \/ CloseWrite \/ Deliver

StreamSpec == StreamInit /\ [][StreamNext]_streamVars
=============================================================================
