----------------------------- MODULE QuicVarint -----------------------------
(***************************************************************************)
(* Variable-length integers of src/crates/masque/src/quic_varint.rs, over    *)
(* bytes of any width: the two top bits of the first byte say whether 1, 2,  *)
(* 4 or 8 bytes hold the value, the other bits are the value, big-endian.    *)
(* Offsets into a buffer count from 0, as in the code, and are far from the  *)
(* largest usize.                                                            *)
(***************************************************************************)
EXTENDS Errors, TLC

CONSTANT Quarter  (* what the bits of a byte below its top two can hold, 64 in the code *)

ASSUME ByteAssumption == Quarter \in Nat /\ Quarter >= 2

Base == 4 * Quarter
Lengths == {1, 2, 4, 8}

\* What a byte counts that k others follow.
Weight[k \in 0 .. 8] == IF k = 0 THEN 1 ELSE Base * Weight[k - 1]

\* How many values a length can hold.
Room(len) == Quarter * Weight[len - 1]
MAX_VARINT == Room(8) - 1

Tag(len) == CASE len = 1 -> 0 [] len = 2 -> 1 [] len = 4 -> 2 [] len = 8 -> 3

BigEndian(n, len) == [i \in 1 .. len |-> (n \div Weight[len - i]) % Base]

\* A value in a given length.
Form(value, len) == BigEndian(Tag(len) * Room(len) + value, len)

encode_to_array(value) ==
  Form(value, IF value < Room(1) THEN 1
              ELSE IF value < Room(2) THEN 2
              ELSE IF value < Room(4) THEN 4
              ELSE 8)

Valid(value) == value \in 0 .. MAX_VARINT

\* ensure_valid: the error that keeps a value from being encoded.
TooLarge(value) == InvalidVarInt("ValueTooLarge", <<"value exceeds 2^62 - 1", value>>)

\* The panicking form, for values that are known to be in range.
encode(value) == IF Valid(value) THEN encode_to_array(value)
                 ELSE Assert(FALSE, "value exceeds 2^62 - 1")

try_encode(value) == IF Valid(value) THEN Ok(encode_to_array(value)) ELSE Err(TooLarge(value))

\* The buffer after it, and the number of bytes written at the offset.
encode_into_at(value, buf, offset) ==
  LET bytes == encode_to_array(value)
      end == offset + Len(bytes)
  IN  IF ~Valid(value) THEN Err(TooLarge(value))
      ELSE IF Len(buf) < end
      THEN Err(InvalidVarInt("BufferTooShort", <<"output buffer too short">>))
      ELSE Ok([written |-> Len(bytes),
               buf |-> [i \in DOMAIN buf |->
                          IF offset < i /\ i <= end THEN bytes[i - offset] ELSE buf[i]]])

encode_into(value, buf) == encode_into_at(value, buf, 0)

LengthOf(first) == CHOOSE len \in Lengths : Tag(len) = first \div Quarter

Number(bytes) ==
  LET upto[i \in 0 .. Len(bytes)] ==
        IF i = 0 THEN 0 ELSE upto[i - 1] * Base + bytes[i]
  IN  upto[Len(bytes)]

\* The value at the start of buf, which is not empty, and its length.
decode_inner(buf) ==
  LET len == LengthOf(buf[1]) IN
  IF Len(buf) < len THEN Err(InvalidVarInt("BufferTooShort", <<"buffer too short">>))
  ELSE Ok([value |-> Number(SubSeq(buf, 1, len)) % Room(len), consumed |-> len])

EmptyBuffer == Err(InvalidVarInt("EmptyBuffer", <<"empty buffer">>))

decode_at(buf, offset) ==
  IF buf = <<>> /\ offset = 0 THEN EmptyBuffer
  ELSE IF offset >= Len(buf)
  THEN Err(InvalidVarInt("OffsetOutOfBounds", <<"offset out of bounds">>))
  ELSE decode_inner(SubSeq(buf, offset + 1, Len(buf)))

decode(buf) == IF buf = <<>> THEN EmptyBuffer ELSE decode_at(buf, 0)
=============================================================================
