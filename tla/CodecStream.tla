---------------------------- MODULE CodecStream ----------------------------
(***************************************************************************)
(* The bytes of CapsuleCodec on their way.  On the Capsules carrier a writer *)
(* puts capsules one after the other on a stream, by any of the encoders; a  *)
(* peer may use longer forms than the library, or declare lengths no usize   *)
(* holds.  The bytes arrive in pieces of any size, and the reader decodes    *)
(* what is there whenever it likes: "incomplete" has to mean that bytes are  *)
(* missing, and nothing else, which CapsuleParser takes for granted.  On the *)
(* Datagrams carrier one QUIC datagram after the other is sent.              *)
(***************************************************************************)
EXTENDS CapsuleCodec

CONSTANTS
  Types,        (* the capsule types written, some out of range           *)
  Payloads,     (* the values, sequences of bytes, of capsules and frames *)
  ForeignTypes, (* bound: the types a peer writes in forms of any length  *)
  Streams,      (* the stream ids of datagrams, some of them no request's *)
  Capacity,     (* bound: bytes on the stream                             *)
  MaxSent,      (* bound: capsules written                                *)
  OtherErrors   (* errors the reader compares its own with                *)

ASSUME StreamAssumption ==
  /\ Types \subseteq Nat /\ ForeignTypes \subseteq 0 .. 1 /\ Streams \subseteq Nat
  /\ Payloads \subseteq Seq(0 .. Base - 1)
  /\ Capacity \in 0 .. UsizeMax /\ MaxSent \in Nat
  /\ \A e \in OtherErrors : IsError(e)

VARIABLES
  carrier,  (* "Capsules" or "Datagrams"                                   *)
  bytes,    (* what was written on the stream                              *)
  sent,     (* history: the capsules in it, with their ends                *)
  arrived,  (* how many of the bytes the reader has                        *)
  offset,   (* how many it has consumed                                    *)
  read,     (* history: the capsules decoded                               *)
  frame     (* the last QUIC datagram, and what it should be received as   *)

vars == <<carrier, bytes, sent, arrived, offset, read, frame>>

Refused == [ok |-> FALSE]
NoFrame == [bytes |-> <<>>, meant |-> Refused]

Init ==
  /\ carrier \in {"Capsules", "Datagrams"}
  /\ bytes = <<>> /\ sent = <<>> /\ arrived = 0 /\ offset = 0 /\ read = <<>>
  /\ frame = NoFrame
-----------------------------------------------------------------------------
(* The stream. *)

\* Nothing follows a capsule whose declared length is too large.
MayWrite ==
  /\ carrier = "Capsules" /\ Len(sent) < MaxSent
  /\ sent # <<>> => ~sent[Len(sent)].huge

Put(encoded, capsule, huge) ==
  /\ Len(bytes) + Len(encoded) <= Capacity
  /\ bytes' = bytes \o encoded
  /\ sent' = Append(sent, [capsule |-> capsule, huge |-> huge,
                           end |-> Len(bytes) + Len(encoded)])
  /\ UNCHANGED <<carrier, arrived, offset, read, frame>>

\* Capsule::new, then encode to a vector.
WriteEncoded(type, value) ==
  LET t == NewCapsuleType(type)
      c == NewCapsule(t.value, value)
  IN  /\ MayWrite /\ t.ok /\ c.ok
      /\ Put(encode_capsule(c.value), c.value, FALSE)

\* encode_into a buffer with the room that is left.
WriteInto(type, value) ==
  LET t == NewCapsuleType(type)
      c == NewCapsule(t.value, value)
      w == encode_capsule_into(c.value, Zeros(Capacity - Len(bytes)))
  IN  /\ MayWrite /\ t.ok /\ c.ok /\ w.ok
      /\ Put(SubSeq(w.value.buf, 1, w.value.total), c.value, FALSE)

\* DatagramCapsule::new, then encode_into the same vector as before.
WriteDatagram(stream_id, payload) ==
  LET d == NewHttpDatagram(stream_id, payload) IN
  /\ MayWrite /\ d.ok /\ encode_into(Len(payload), Zeros(8)).ok
  /\ Put(append_datagram_capsule(d.value, <<>>), [type |-> DATAGRAM, value |-> payload], FALSE)

WriteForeign(type, value, type_len, length_len) ==
  /\ MayWrite
  /\ Len(value) < Room(length_len)
  /\ Put(Form(type, type_len) \o Form(Len(value), length_len) \o value,
         [type |-> type, value |-> value], FALSE)

\* A header that declares more than can be addressed.
WriteHuge(type, length) ==
  /\ MayWrite /\ Valid(length)
  /\ Put(Form(type, 1) \o Form(length, 8), [type |-> type, value |-> <<>>], TRUE)

Arrive ==
  /\ arrived' \in arrived + 1 .. Len(bytes)
  /\ UNCHANGED <<carrier, bytes, sent, offset, read, frame>>

\* What the reader has not consumed of the first n bytes.
Unread(n) == SubSeq(bytes, offset + 1, n)

Attempt == decode_capsule(Unread(arrived))

Consume(capsule, consumed) ==
  /\ read' = Append(read, capsule)
  /\ offset' = offset + consumed
  /\ UNCHANGED <<carrier, bytes, sent, arrived, frame>>

\* On an error the reader keeps its offset and tries again later.
ReadCapsule == Attempt.ok /\ Consume(Attempt.value.capsule, Attempt.value.consumed)

ReadDatagram(stream_id) ==
  LET d == decode_datagram_capsule(Unread(arrived), stream_id) IN
  /\ d.ok
  /\ Consume([type |-> DATAGRAM, value |-> d.value.datagram.payload], d.value.consumed)
-----------------------------------------------------------------------------
(* QUIC datagrams. *)

SendFrame(stream_id, udp) ==
  LET d == NewHttpDatagram(stream_id, Framed(udp)) IN
  /\ carrier = "Datagrams" /\ frame = NoFrame /\ d.ok
  /\ frame' = [bytes |-> encode_h3(d.value), meant |-> Ok([stream_id |-> stream_id, udp |-> udp])]
  /\ UNCHANGED <<carrier, bytes, sent, arrived, offset, read>>

\* It is received, or lost.
EndFrame ==
  /\ frame # NoFrame
  /\ frame' = NoFrame
  /\ UNCHANGED <<carrier, bytes, sent, arrived, offset, read>>

\* The peer may use any forms and any Context ID, or leave out the last bytes.
\* Such a datagram is meant for this library if the stream id is one and Context
\* ID 0 follows, in one byte.
SendForeignFrame(quarter, quarter_len, context, context_len, udp, size) ==
  LET whole == Form(quarter, quarter_len) \o Form(context, context_len) \o udp IN
  /\ carrier = "Datagrams" /\ frame = NoFrame
  /\ quarter < Room(quarter_len) /\ context < Room(context_len) /\ size <= Len(whole)
  /\ frame' = [bytes |-> SubSeq(whole, 1, size),
               meant |->
                 IF /\ 4 * quarter <= MAX_VARINT
                    /\ <<context, context_len>> = <<0, 1>>
                    /\ size > quarter_len
                 THEN Ok([stream_id |-> 4 * quarter,
                          udp |-> SubSeq(udp, 1, size - quarter_len - 1)])
                 ELSE Refused]
  /\ UNCHANGED <<carrier, bytes, sent, arrived, offset, read>>

ReceivedFrame ==
  LET d == decode_h3(frame.bytes)
      u == Unframed(d.value.payload)
  IN  IF d.ok /\ u.ok THEN Ok([stream_id |-> d.value.stream_id, udp |-> u.value])
      ELSE Refused

Next ==
  \/ \E type \in Types, value \in Payloads :
       WriteEncoded(type, value) \/ WriteInto(type, value)
  \/ \E stream_id \in Streams, payload \in Payloads :
       WriteDatagram(stream_id, payload) \/ SendFrame(stream_id, payload)
  \/ \E type \in ForeignTypes, value \in Payloads, tl \in Lengths, ll \in Lengths :
       WriteForeign(type, value, tl, ll)
  \/ \E type \in ForeignTypes, length \in {UsizeMax - 1, UsizeMax + 1} :
       WriteHuge(type, length)
  \/ Arrive
  \/ ReadCapsule
  \/ \E stream_id \in Streams : ReadDatagram(stream_id)
  \/ \E quarter \in {1, MAX_QUARTER_STREAM_ID, MAX_QUARTER_STREAM_ID + 1},
        ql \in Lengths, context \in {0, 1}, cl \in Lengths,
        udp \in Payloads, size \in 0 .. 18 :
       SendForeignFrame(quarter, ql, context, cl, udp, size)
  \/ EndFrame

Spec == Init /\ [][Next]_vars
-----------------------------------------------------------------------------
(* Properties *)

EndOf(n) == IF n = 0 THEN 0 ELSE sent[n].end

\* The reader gets back the capsules written, in order and in step with the
\* writer, wherever the pieces were cut, whichever encoder wrote them, whatever
\* forms the peer chose and whether it reads them with Capsule::decode or with
\* DatagramCapsule::decode.
ReadBack ==
  /\ Len(read) <= Len(sent)
  /\ \A i \in DOMAIN read : read[i] = sent[i].capsule
  /\ offset = EndOf(Len(read))

\* What tells a caller of Capsule::decode to wait for more bytes.
NeedsMore(e) ==
  \/ e[1].kind = "Truncated"
  \/ e[1].kind = "InvalidVarint" /\ is_incomplete_varint(source(e))

\* decode succeeds exactly when the next capsule is all there, and its error,
\* cloned or not, asks for more bytes exactly when bytes are missing: a caller
\* that waits on it neither reads a torn capsule nor waits for bytes that will
\* not come, and a length too large is refused as soon as it is read.
IncompleteIsExact ==
  LET next == Len(read) + 1
      there == next <= Len(sent) /\ arrived >= EndOf(next)
  IN  IF there /\ ~sent[next].huge THEN Attempt.ok
      ELSE /\ ~Attempt.ok
           /\ NeedsMore(Clone(Attempt.error)) <=> ~there

\* The errors the reader has met at its offset.
Met == {decode_capsule(Unread(n)) : n \in offset .. arrived}
MetErrors == {a.error : a \in {b \in Met : ~b.ok}}

LatestError == IF Attempt.ok THEN {} ELSE {Attempt.error}

\* An error of decode that compares equal to another prints like it, asks for more
\* bytes exactly if it does, and has a cause that prints like the other's, if it
\* has one; and a clone is equal.  Nothing is said of errors with a foreign cause,
\* which compare equal whatever the cause is.
EqualErrorsAlike ==
  \A a \in LatestError, b \in MetErrors \cup OtherErrors :
    /\ Equal(a, Clone(a))
    /\ IsError(a)
    /\ Equal(a, b) =>
         /\ Display(a) = Display(b) /\ Debug(a) = Debug(b)
         /\ NeedsMore(a) <=> NeedsMore(b)
         /\ source(a) # <<>> =>
              /\ source(b) # <<>>
              /\ Display(source(a)) = Display(source(b))

\* Every datagram the library sends is received with its stream and its UDP
\* payload.  Of a peer's datagrams, those and only those are accepted that name a
\* stream and carry Context ID 0 in its one-byte form; a stream id past the
\* greatest one is never multiplied into some other stream.
FramePreserved == ReceivedFrame = frame.meant
=============================================================================
