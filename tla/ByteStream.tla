------------------------------ MODULE ByteStream ------------------------------
(***************************************************************************)
(* What one direction of a raptun tunnel promises in bytes: what the far   *)
(* application reads is, at every moment, a beginning of what the near one *)
(* wrote, and it is told that the stream ended only when the near one      *)
(* closed its side and everything it wrote has been handed over.           *)
(* OrderedStream is the same contract in blocks, which FecTunnel keeps;    *)
(* here it does not mention them, and the module Transfer implements it.   *)
(***************************************************************************)
EXTENDS SequencesExt

VARIABLES
  sent,      \* bytes the near application has written
  eof,       \* it has closed its side
  received,  \* bytes handed to the far application
  closed     \* the far application may be told that the stream ended

byteVars == <<sent, eof, received, closed>>

StreamInit ==
  /\ sent = <<>> /\ received = <<>>
  /\ eof = FALSE /\ closed = FALSE

Write ==
  /\ ~eof
  /\ IsPrefix(sent, sent')
  /\ UNCHANGED <<eof, received, closed>>

CloseWrite ==
  /\ ~eof
  /\ eof' = TRUE
  /\ UNCHANGED <<sent, received, closed>>

Deliver ==
  /\ ~closed
  /\ IsPrefix(received, received') /\ IsPrefix(received', sent)
  /\ closed' \in {FALSE, eof /\ received' = sent}
  /\ UNCHANGED <<sent, eof>>

StreamSpec == StreamInit /\ [][Write \/ CloseWrite \/ Deliver]_byteVars
=============================================================================
