---------------------------- MODULE CapsuleCodec ----------------------------
(***************************************************************************)
(* What turns capsules and HTTP datagrams into bytes and back in one call:   *)
(* CapsuleType and Capsule of capsule.rs, DatagramCapsule of                 *)
(* datagram_capsule.rs, HttpDatagram of datagram.rs, and the Context ID that *)
(* association.rs puts in front of a UDP payload.  CapsuleParser and         *)
(* UdpTunnel leave the bytes out; this is where they are.                    *)
(***************************************************************************)
EXTENDS QuicVarint

CONSTANT UsizeMax  (* the largest usize of the platform *)

ASSUME UsizeAssumption == UsizeMax \in Nat

Zeros(n) == [i \in 1 .. n |-> 0]

\* CapsuleType::new.
NewCapsuleType(value) ==
  IF value > MAX_VARINT
  THEN Err(h3_datagram_error("VarintOutOfRange", <<"capsule type", value>>))
  ELSE Ok(value)

DATAGRAM == 0
is_datagram(type) == type = DATAGRAM

\* Capsule::new, which validates the length.
NewCapsule(type, value) ==
  IF Len(value) > MAX_VARINT
  THEN Err(h3_datagram_error("VarintOutOfRange", <<"capsule value length">>))
  ELSE Ok([type |-> type, value |-> value])

\* An integer as the encoders that return a vector write it: into eight bytes,
\* of which those written are taken.
Encoded(n) == LET w == encode_into(n, Zeros(8)).value IN SubSeq(w.buf, 1, w.written)

\* Capsule::encode.
encode_capsule(c) == Encoded(c.type) \o Encoded(Len(c.value)) \o c.value

\* varint_len: encode_into reserves by a table of its own.
varint_len(value) ==
  CASE value \in 0 .. Room(1) - 1       -> 1
    [] value \in Room(1) .. Room(2) - 1 -> 2
    [] value \in Room(2) .. Room(4) - 1 -> 4
    [] OTHER                            -> 8

\* Mutant of encode_capsule_into: the value goes where the encoded length would
\* end if it were short.
encode_capsule_into_short(c, buf) ==
  LET total == varint_len(c.type) + varint_len(Len(c.value)) + Len(c.value) IN
  IF Len(buf) < total
  THEN Err(InvalidVarInt("BufferTooShort", <<"output buffer too short">>))
  ELSE LET t == encode_into_at(c.type, buf, 0).value
           l == encode_into_at(Len(c.value), t.buf, t.written).value
           at == t.written + 1
       IN  Ok([total |-> total,
               buf |-> [i \in DOMAIN buf |->
                          IF i - at \in DOMAIN c.value THEN c.value[i - at] ELSE l.buf[i]]])

\* Capsule::encode_into: the buffer after it, and the bytes it says are in use.
encode_capsule_into(c, buf) ==
  LET total == varint_len(c.type) + varint_len(Len(c.value)) + Len(c.value) IN
  IF Len(buf) < total
  THEN Err(InvalidVarInt("BufferTooShort", <<"output buffer too short">>))
  ELSE LET t == encode_into_at(c.type, buf, 0).value
           l == encode_into_at(Len(c.value), t.buf, t.written).value
           at == t.written + l.written
       IN  Ok([total |-> total,
               buf |-> [i \in DOMAIN buf |->
                          IF i - at \in DOMAIN c.value THEN c.value[i - at] ELSE l.buf[i]]])

map_varint_err(e) ==
  h3_datagram_error_with_source("InvalidVarint", <<"malformed capsule varint">>, e)

\* Mutant of is_incomplete_varint: an offset behind the last byte is malformed.
is_incomplete_varint_short(e) ==
  e # <<>> /\ e[1].variant = "InvalidVarInt" /\ e[1].kind \in {"BufferTooShort", "EmptyBuffer"}

\* The varint errors that more bytes may cure.
is_incomplete_varint(e) ==
  /\ e # <<>> /\ e[1].variant = "InvalidVarInt"
  /\ e[1].kind \in {"BufferTooShort", "EmptyBuffer", "OffsetOutOfBounds"}

\* What follows the two integers of a capsule at the start of buf.
Body(buf, type, length, offset) ==
  IF length > UsizeMax
  THEN Err(h3_datagram_error("LengthTooLarge", <<"capsule length exceeds platform usize">>))
  ELSE IF offset + length > UsizeMax
  THEN Err(h3_datagram_error("LengthOverflow", <<"capsule length overflow">>))
  ELSE IF Len(buf) < offset + length
  THEN Err(h3_datagram_error("Truncated", <<"capsule value truncated">>))
  ELSE Ok([capsule |-> [type |-> type, value |-> SubSeq(buf, offset + 1, offset + length)],
           consumed |-> offset + length])

\* Capsule::decode.  A decoded type is in range.
decode_capsule(buf) ==
  LET t == decode(buf) IN
  IF ~t.ok THEN Err(map_varint_err(t.error))
  ELSE LET l == decode_at(buf, t.value.consumed) IN
       IF ~l.ok THEN Err(map_varint_err(l.error))
       ELSE Body(buf, NewCapsuleType(t.value.value).value, l.value.value,
                 t.value.consumed + l.value.consumed)
-----------------------------------------------------------------------------
(* HTTP datagrams.                                                          *)

MAX_QUARTER_STREAM_ID == MAX_VARINT \div 4

\* HttpDatagram::new, which validates the stream.
NewHttpDatagram(stream_id, payload) ==
  IF stream_id > MAX_VARINT
  THEN Err(h3_datagram_error("Generic", <<"stream ID exceeds the maximum">>))
  ELSE IF stream_id % 4 # 0
  THEN Err(h3_datagram_error("Generic", <<"stream ID is not client-initiated bidirectional">>))
  ELSE Ok([stream_id |-> stream_id, payload |-> payload])

encode_h3(d) == encode(d.stream_id \div 4) \o d.payload

\* Mutant of decode_h3: a quarter of any size is multiplied.
decode_h3_unchecked(buf) ==
  LET q == decode(buf) IN
  IF ~q.ok
  THEN Err(h3_datagram_error_with_source("InvalidVarint", <<"invalid quarter stream ID">>, q.error))
  ELSE Ok([stream_id |-> q.value.value * 4,
           payload |-> SubSeq(buf, q.value.consumed + 1, Len(buf))])

decode_h3(buf) ==
  LET q == decode(buf) IN
  IF ~q.ok
  THEN Err(h3_datagram_error_with_source("InvalidVarint", <<"invalid quarter stream ID">>, q.error))
  ELSE IF q.value.value > MAX_QUARTER_STREAM_ID
  THEN Err(h3_datagram_error("VarintOutOfRange", <<"quarter stream ID exceeds 2^60 - 1">>))
  ELSE Ok([stream_id |-> q.value.value * 4,
           payload |-> SubSeq(buf, q.value.consumed + 1, Len(buf))])

\* DatagramCapsule::encode_into: the vector with the capsule appended.
append_datagram_capsule(d, vec) ==
  vec \o Encoded(DATAGRAM) \o Encoded(Len(d.payload)) \o d.payload

\* DatagramCapsule::decode.
decode_datagram_capsule(buf, stream_id) ==
  LET c == decode_capsule(buf) IN
  IF ~c.ok THEN c
  ELSE IF ~is_datagram(c.value.capsule.type)
  THEN Err(h3_datagram_error("UnexpectedCapsuleType",
                             <<"expected DATAGRAM capsule", c.value.capsule.type>>))
  ELSE LET d == NewHttpDatagram(stream_id, c.value.capsule.value) IN
       IF ~d.ok THEN d ELSE Ok([datagram |-> d.value, consumed |-> c.value.consumed])

\* UdpAssociation::encode_h3_datagram and encode_datagram_capsule: Context ID 0.
Framed(payload) == <<0>> \o payload

\* decode_h3_datagram and decode_datagram_capsule: the UDP payload behind it.
Unframed(payload) ==
  LET c == decode(payload) IN
  IF ~c.ok
  THEN Err(h3_datagram_error_with_source("InvalidContextId",
                                         <<"failed to decode Context ID">>, c.error))
  ELSE IF c.value.value # 0
  THEN Err(h3_datagram_error("InvalidContextId", <<"unsupported Context ID", c.value.value>>))
  ELSE IF c.value.consumed # 1
  THEN Err(h3_datagram_error("InvalidContextId", <<"non-canonical Context ID">>))
  ELSE Ok(SubSeq(payload, c.value.consumed + 1, Len(payload)))
=============================================================================
