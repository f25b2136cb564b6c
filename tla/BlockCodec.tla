------------------------------ MODULE BlockCodec ------------------------------
(***************************************************************************)
(* One source block (crates/raptun-fec/src/codec.rs and encoder.rs): how   *)
(* many symbols a payload takes, its padding with a length prefix, the     *)
(* symbols that carry it and how they become the payload again.            *)
(*                                                                         *)
(* RaptorQ is a library.  Its symbol of an index is kept as that index and *)
(* the padded block it was computed from; the properties the code relies   *)
(* on are that the first k symbols are the block itself, that symbols of   *)
(* different indices are different, and that any k of them decode as a     *)
(* rule.                                                                   *)
(***************************************************************************)
EXTENDS WireFormat, FiniteSets

LEN_PREFIX == W32

AtLeast(n, m) == IF n >= m THEN n ELSE m
AtMost(n, m) == IF n <= m THEN n ELSE m

\* actual_k_for
ActualKBare(len, size, maxK) == \* slip: the prefix is not counted
  IF len = 0 THEN 1 ELSE AtLeast(AtMost(AtLeast((len + size - 1) \div size, 1), maxK), 1)
ActualK(len, size, maxK) ==
  IF len = 0 THEN 1
  ELSE AtLeast(AtMost(AtLeast((len + LEN_PREFIX + size - 1) \div size, 1), maxK), 1)

MaxPayload(size, k) == size * k - LEN_PREFIX

\* pad_block; resize cuts as well as it pads.
PadBlock(payload, size, k) ==
  LET all == Put(Len(payload), W32) \o payload
  IN  [i \in 1 .. size * k |-> IF i <= Len(all) THEN all[i] ELSE 0]

\* unpad_block: a sequence of one payload, or of none.
UnpadBlock(block) ==
  IF Len(block) < LEN_PREFIX THEN <<>>
  ELSE LET end == LEN_PREFIX + Get(SubSeq(block, 1, LEN_PREFIX))
       IN  IF end > Len(block) THEN <<>> ELSE <<SubSeq(block, LEN_PREFIX + 1, end)>>

\* frame_from_packet and frame_symbol
Symbol(stream, b, k, esi, padded) ==
  [header |-> EncodeHeader(stream, b, k, esi, IF esi >= k THEN REPAIR ELSE 0),
   data   |-> [esi |-> esi, of |-> padded]]

\* emit and emit_additional_repair: the symbols with indices first .. last.
Symbols(stream, b, payload, size, k, first, last) ==
  {Symbol(stream, b, k, esi, PadBlock(payload, size, k)) : esi \in first .. last}

\* What SourceBlockDecoder may make of the symbols it was given, each with the
\* index in its header: nothing, or a sequence of one block.  Symbols that do not
\* belong together make a wrong block.
WrongBlock(size, k) == [i \in 1 .. size * k |-> IF i = LEN_PREFIX THEN 1 ELSE 0]
RaptorQ(symbols, size, k) ==
  LET esis   == {s.esi : s \in symbols}
      blocks == {s.data.of : s \in symbols}
      sound  == /\ Cardinality(blocks) = 1
                /\ \A s \in symbols : s.esi = s.data.esi /\ Len(s.data.of) = size * k
      block  == IF sound THEN CHOOSE x \in blocks : TRUE ELSE WrongBlock(size, k)
  IN  IF 0 .. k - 1 \subseteq esis THEN {<<block>>}
      ELSE IF Cardinality(esis) >= k THEN {<<>>, <<block>>}
      ELSE {<<>>}

\* add_symbol: a block that does not unpad counts as not decoded.
Payloads(symbols, size, k) ==
  {IF block = <<>> THEN <<>> ELSE UnpadBlock(block[1]) : block \in RaptorQ(symbols, size, k)}
=============================================================================
