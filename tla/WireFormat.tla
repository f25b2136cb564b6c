------------------------------ MODULE WireFormat ------------------------------
(***************************************************************************)
(* The bytes of raptun's three kinds of messages (crates/raptun-proto and  *)
(* TunnelSignal in crates/raptun-core/src/fec.rs): signals on a tunnel's   *)
(* own stream, control messages on stream 0, and the header of a symbol    *)
(* datagram.  All are a tag or nothing, followed by big-endian integers    *)
(* and length-prefixed byte strings, so a layout is a sequence of fields.  *)
(*                                                                         *)
(* The widths of the integers and the base are parameters: what can go     *)
(* wrong (an order, a cut, a length, a tag among the payload) does not     *)
(* depend on them.  A cast truncates, as `as u16' does.                    *)
(***************************************************************************)
EXTENDS Integers, Sequences, SequencesExt

CONSTANTS
  Base,               \* values of a byte
  W64, W32, W24, W16, \* bytes of a u64, u32, u24 and u16
  MaxField,           \* MAX_FIELD
  MaxReliableData,    \* MAX_RELIABLE_DATA
  MaxControlMsg       \* MAX_CONTROL_MSG

Byte == 0 .. Base - 1

\* to_be_bytes and put_u64, put_u32, ..., from_be_bytes and get_u64, ...  Shifts(n, w)[i]
\* is n without its i lowest bytes; of a number of w bytes the first w are all.
Shifts(n, w) ==
  LET shift[i \in 0 .. w] == IF i = 0 THEN n ELSE shift[i - 1] \div Base
  IN  shift
Word(w) == {n \in Nat : Shifts(n, w)[w] = 0}
Put(n, w) == [i \in 1 .. w |-> Shifts(n, w)[w - i] % Base]
Get(s) ==
  LET value[i \in 0 .. Len(s)] == IF i = 0 THEN 0 ELSE Base * value[i - 1] + s[i]
  IN  value[Len(s)]

\* Tags are bytes, and the lengths that either end accepts have room in the
\* 32 bits that carry them.
ASSUME WireAssumption ==
  /\ Base \in Nat /\ Base > 10
  /\ {W64, W32, W24, W16} \subseteq Nat \ {0}
  /\ {MaxField, MaxReliableData, MaxControlMsg} \subseteq Nat \ {0}
  /\ 0 .. MaxField \subseteq Word(W32)
  /\ 0 .. MaxReliableData \subseteq Word(W32)
  /\ 0 .. MaxControlMsg \subseteq Word(W32)

From(s, n) == SubSeq(s, n, Len(s))

Width(type) ==
  CASE type = "u64" -> W64 [] type = "u32" -> W32 [] type = "u24" -> W24
    [] type = "u16" -> W16 [] type = "u8" -> 1 [] type = "bytes" -> W32

\* put_bytes
PutField(type, v) == IF type = "bytes" THEN Put(Len(v), W32) \o v ELSE Put(v, Width(type))
PutFields(layout, values) ==
  FlattenSeq([i \in DOMAIN layout |-> PutField(layout[i], values[i])])

\* ensure, get_bytes: the fields at the front of buf and what is left, or why not.
Parsed(values, rest) == [values |-> values, rest |-> rest, error |-> "none"]
Failed(error) == [values |-> <<>>, rest |-> <<>>, error |-> error]

GetField(type, buf, max) ==
  LET w    == Width(type)
      n    == Get(SubSeq(buf, 1, w))
      rest == From(buf, w + 1)
  IN  CASE Len(buf) < w -> Failed("short")
        [] Len(buf) >= w /\ type # "bytes" -> Parsed(<<n>>, rest)
        [] Len(buf) >= w /\ type = "bytes" ->
             IF n > max THEN Failed("tooLong")
             ELSE IF Len(rest) < n THEN Failed("short")
             ELSE Parsed(<<SubSeq(rest, 1, n)>>, From(rest, n + 1))

GetFields(layout, buf, max) ==
  LET parse[i \in 0 .. Len(layout)] ==
        IF i = 0 THEN Parsed(<<>>, buf)
        ELSE LET before == parse[i - 1]
                 field  == GetField(layout[i], before.rest, max)
             IN  IF before.error # "none" THEN before
                 ELSE IF field.error # "none" THEN field
                 ELSE Parsed(before.values \o field.values, field.rest)
  IN  parse[Len(layout)]

-----------------------------------------------------------------------------
(* Signals on a tunnel's stream: TunnelSignal::encode and decode.          *)

SignalTag == [count |-> 1, nack |-> 2, request |-> 3, data |-> 4,
              highWater |-> 5, credit |-> 6, ack |-> 7]
SignalKinds == DOMAIN SignalTag
SignalLayout(kind) ==
  CASE kind = "nack" -> <<"u64", "u32", "u32">>
    [] kind = "data" -> <<"u64", "bytes">>
    [] OTHER -> <<"u64">>

Signal(kind, fields) == [kind |-> kind, fields |-> fields]
EncodeSignal(s) == <<SignalTag[s.kind]>> \o PutFields(SignalLayout(s.kind), s.fields)

\* None, Some(Err(1)) and Some(Ok(..)), with the rest of the buffer.
More == [what |-> "more"]
Skip(buf) == [what |-> "skip", rest |-> Tail(buf)]
Decoded(s, rest) == [what |-> "signal", signal |-> s, rest |-> rest]

IncompleteWhole(got) == got.error = "short" \/ got.rest = <<>> \* slip: off by one
Incomplete(got) == got.error = "short"

DecodeSignal(buf) ==
  IF buf = <<>> THEN More
  ELSE IF ~ \E kind \in SignalKinds : SignalTag[kind] = buf[1] THEN Skip(buf)
  ELSE LET kind == CHOOSE x \in SignalKinds : SignalTag[x] = buf[1]
           got  == GetFields(SignalLayout(kind), Tail(buf), MaxReliableData)
       IN  CASE Incomplete(got) -> More
             [] ~Incomplete(got) /\ got.error # "none" -> Skip(buf)
             [] ~Incomplete(got) /\ got.error = "none" -> Decoded(Signal(kind, got.values), got.rest)

-----------------------------------------------------------------------------
(* Control messages: Message's Encode and Decode, and ControlChannel.      *)

ControlTag == [hello |-> 1, helloAck |-> 2, openTarget |-> 3, openTargetAck |-> 4,
               openTargetErr |-> 5, fecReconfig |-> 6, blockNack |-> 7,
               ping |-> 8, pong |-> 9, goodbye |-> 10]
ControlKinds == DOMAIN ControlTag

\* The last three of hello, helloAck and fecReconfig are FecParams: symbol_size,
\* block_size, repair_ppm.
ControlLayout(kind) ==
  CASE kind = "hello" -> <<"u16", "bytes", "u16", "u16", "u16">>
    [] kind = "helloAck" -> <<"u16", "u16", "u16", "u16">>
    [] kind \in {"openTarget", "openTargetErr"} -> <<"u64", "bytes">>
    [] kind = "fecReconfig" -> <<"u64", "u16", "u16", "u16">>
    [] kind = "blockNack" -> <<"u64", "u64", "u32", "u32">>
    [] kind \in {"openTargetAck", "ping", "pong"} -> <<"u64">>
    [] kind = "goodbye" -> <<>>

EncodeMessage(m) == <<ControlTag[m.kind]>> \o PutFields(ControlLayout(m.kind), m.fields)

\* An error is a record without a kind; bytes after the message are dropped.
DecodeMessage(body) ==
  IF body = <<>> THEN [error |-> "short"]
  ELSE IF ~ \E kind \in ControlKinds : ControlTag[kind] = body[1] THEN [error |-> "unknown"]
  ELSE LET kind == CHOOSE x \in ControlKinds : ControlTag[x] = body[1]
           got  == GetFields(ControlLayout(kind), Tail(body), MaxField)
       IN  IF got.error = "none" THEN [kind |-> kind, fields |-> got.values]
           ELSE [error |-> got.error]

\* ControlChannel::send and recv; recv waits for the bytes it needs and gives a
\* frame above MAX_CONTROL_MSG up.
Frame(m) == Put(Len(EncodeMessage(m)), W32) \o EncodeMessage(m)
FrameLength(wire) == Get(SubSeq(wire, 1, W32))
Arrived(wire) ==
  /\ Len(wire) >= W32
  /\ FrameLength(wire) <= MaxControlMsg
  /\ Len(wire) >= W32 + FrameLength(wire)
FirstMessage(wire) == DecodeMessage(SubSeq(wire, W32 + 1, W32 + FrameLength(wire)))
AfterFirst(wire) == From(wire, W32 + FrameLength(wire) + 1)

-----------------------------------------------------------------------------
(* The header of a symbol datagram: SymbolHeader.                          *)

HeaderLayout == <<"u64", "u64", "u16", "u24", "u8">>
REPAIR == 1
KnownFlags == 4  \* from_bits_truncate keeps the two defined bits

EncodeHeader(stream, b, k, esi, flags) ==
  PutFields(HeaderLayout, <<stream, b, k, esi, flags>>)

\* Symbols are never shorter than the header: frame_symbol makes every datagram.
ParseHeader(bytes) ==
  LET v == GetFields(HeaderLayout, bytes, 0).values
  IN  [stream |-> v[1], block |-> v[2], k |-> v[3], esi |-> v[4],
       flags |-> v[5] % KnownFlags]
=============================================================================
