--------------------------- MODULE CapsuleParser ---------------------------
(***************************************************************************)
(* CapsuleParser of src/crates/masque/src/capsule.rs: the push parser that   *)
(* cuts the byte stream of an HTTP/3 request into capsules, hands out the    *)
(* known ones (DATAGRAM) and skips the unknown ones without storing them.    *)
(*                                                                          *)
(* Bytes are abstracted to their offset in the stream.  The peer's writes    *)
(* lay frames end to end in "stream"; the caller feeds any prefix of it in   *)
(* pieces of any size.  The buffer is kept as two lengths, exactly as the    *)
(* code keeps them: buf.len() and the consumed prefix "start", so the byte   *)
(* the parser looks at is Cursor == fed - buf + start.  A header decoded at  *)
(* an offset where no frame begins reads as any header: a parser that loses  *)
(* its place is not excused by the model.                                    *)
(*                                                                          *)
(* One call of feed or next_capsule is a Feed or NextCapsule step followed   *)
(* by the iterations of the loop of try_parse, one step each, until one      *)
(* returns.                                                                  *)
(***************************************************************************)
EXTENDS Integers, Sequences

CONSTANTS
  Kinds,             (* capsule shapes [datagram, header, length] a peer writes *)
  MaxCapsules,       (* bound: capsules written in a behaviour                  *)
  MaxHeader,         (* longest header: two 8-byte varints                      *)
  MaxCapsuleLength,  (* with_max_length's limit on a known capsule's value      *)
  CompactThreshold,  (* COMPACT_THRESHOLD of maybe_compact                      *)
  UsizeMax           (* usize::MAX of the platform                              *)

Shape == [datagram : BOOLEAN, header : Nat, length : Nat]

ASSUME KindsAssumption ==
  /\ Kinds \subseteq Shape
  /\ \A k \in Kinds : k.header >= 2 /\ k.header <= MaxHeader
ASSUME BoundsAssumption ==
  /\ MaxCapsules \in Nat /\ MaxCapsuleLength \in Nat
  /\ MaxHeader \in Nat /\ MaxHeader >= 2
  /\ UsizeMax \in Nat
  /\ CompactThreshold \in Nat \ {0}

VARIABLES
  stream,          (* the frames the peer has written, in order            *)
  fed,             (* bytes of the stream passed to feed so far            *)
  buf,             (* buf.len()                                            *)
  start,           (* start: consumed prefix of buf                        *)
  skip_remaining,  (* skip_remaining: unknown value bytes to discard       *)
  pc,              (* "idle", "parsing" (inside a call) or "finalized"     *)
  last,            (* what the last call that returned has returned        *)
  parsed,          (* history: frames emitted or skipped                   *)
  out              (* history: value ranges of the emitted capsules        *)

parserVars == <<buf, start, skip_remaining>>
vars == <<stream, fed, buf, start, skip_remaining, pc, last, parsed, out>>

LengthErrors == {"LengthTooLarge", "LengthOverflow"}
Results == {"init", "none", "capsule", "ok", "Truncated"} \cup LengthErrors
-----------------------------------------------------------------------------
(* The stream.                                                              *)

EndOf(n) == IF n = 0 THEN 0 ELSE stream[n].end
StreamEnd == EndOf(Len(stream))

Frame(k, at) ==
  [datagram |-> k.datagram, start |-> at, value |-> at + k.header,
   end |-> at + k.header + k.length]

ShapeOf(f) ==
  [datagram |-> f.datagram, header |-> f.value - f.start, length |-> f.end - f.value]

\* The headers the bytes at an offset may decode to.
HeadersAt(p) ==
  LET here == {i \in 1 .. Len(stream) : stream[i].start = p}
  IN  IF here = {} THEN Kinds ELSE {ShapeOf(stream[i]) : i \in here}
-----------------------------------------------------------------------------
(* The buffer.                                                              *)

Cursor == fed - buf + start
Window == buf - start

\* Mutants of Consume: compaction leaves start as it was; no compaction at all.
ConsumeKeepsStart(n) ==
  /\ buf' = IF start + n >= CompactThreshold THEN buf - (start + n) ELSE buf
  /\ start' = start + n
ConsumeNeverCompacts(n) == start' = start + n /\ UNCHANGED buf

\* Advance start by n, then maybe_compact.
Consume(n) ==
  IF start + n >= CompactThreshold
  THEN /\ buf' = buf - (start + n)
       /\ start' = 0
  ELSE /\ start' = start + n
       /\ UNCHANGED buf

Return(r) == pc' = "idle" /\ last' = r
Loop == UNCHANGED <<pc, last>>

\* The header and the capsule's end both fit the platform's usize.
Addressable(h) == h.length <= UsizeMax /\ h.header + h.length <= UsizeMax

\* An iteration of try_parse that has decoded a whole header in the window.
HeaderRead(h) ==
  /\ pc = "parsing"
  /\ skip_remaining = 0
  /\ Window >= h.header
-----------------------------------------------------------------------------
Init ==
  /\ stream = <<>>
  /\ fed = 0
  /\ buf = 0 /\ start = 0 /\ skip_remaining = 0
  /\ pc = "idle" /\ last = "init"
  /\ parsed = 0 /\ out = <<>>

\* The peer encodes one more capsule, known or not, onto the stream.
Write(k) ==
  /\ Len(stream) < MaxCapsules
  /\ stream' = Append(stream, Frame(k, StreamEnd))
  /\ UNCHANGED <<fed, buf, start, skip_remaining, pc, last, parsed, out>>

Feed(n) ==
  /\ pc = "idle"
  /\ buf' = buf + n
  /\ fed' = fed + n
  /\ pc' = "parsing"
  /\ UNCHANGED <<stream, start, skip_remaining, last, parsed, out>>

NextCapsule ==
  /\ pc = "idle"
  /\ pc' = "parsing"
  /\ UNCHANGED <<stream, fed, buf, start, skip_remaining, last, parsed, out>>

\* Discard what has arrived of an unknown value; ask for more unless it ends.
DrainSkip ==
  /\ pc = "parsing"
  /\ skip_remaining > 0
  /\ LET discard == IF Window < skip_remaining THEN Window ELSE skip_remaining IN
       /\ Consume(discard)
       /\ skip_remaining' = skip_remaining - discard
       /\ IF discard < skip_remaining THEN Return("none") ELSE Loop
  /\ UNCHANGED <<stream, fed, parsed, out>>

\* Nothing unread: compact, so that an idle parser holds no bytes.
EmptyWindow ==
  /\ pc = "parsing"
  /\ skip_remaining = 0
  /\ Window <= 0
  /\ buf' = buf - start
  /\ start' = 0
  /\ Return("none")
  /\ UNCHANGED <<stream, fed, skip_remaining, parsed, out>>

\* The type or the length varint is cut short by the end of the window.
IncompleteHeader(h) ==
  /\ pc = "parsing"
  /\ skip_remaining = 0
  /\ Window > 0
  /\ Window < h.header
  /\ Return("none")
  /\ UNCHANGED <<stream, fed, parserVars, parsed, out>>

\* A length or an end that usize cannot hold, whatever the capsule's type.
RejectUnaddressable(h) ==
  /\ HeaderRead(h)
  /\ ~Addressable(h)
  /\ Return(IF h.length > UsizeMax THEN "LengthTooLarge" ELSE "LengthOverflow")
  /\ UNCHANGED <<stream, fed, parserVars, parsed, out>>

\* An unknown capsule that is already buffered to its end.
SkipWhole(h) ==
  /\ HeaderRead(h)
  /\ Addressable(h)
  /\ ~h.datagram
  /\ Window >= h.header + h.length
  /\ Consume(h.header + h.length)
  /\ parsed' = parsed + 1
  /\ Loop
  /\ UNCHANGED <<stream, fed, skip_remaining, out>>

\* Mutant of SkipPartial: the value bytes that are here already are not deducted.
SkipPartialRecounts(h) ==
  /\ HeaderRead(h)
  /\ Addressable(h)
  /\ ~h.datagram
  /\ Window < h.header + h.length
  /\ Consume(Window)
  /\ skip_remaining' = h.length
  /\ parsed' = parsed + 1
  /\ Return("none")
  /\ UNCHANGED <<stream, fed, out>>

\* An unknown capsule whose value is still arriving.
SkipPartial(h) ==
  /\ HeaderRead(h)
  /\ Addressable(h)
  /\ ~h.datagram
  /\ Window < h.header + h.length
  /\ Consume(Window)
  /\ skip_remaining' = h.length - (Window - h.header)
  /\ parsed' = parsed + 1
  /\ Return("none")
  /\ UNCHANGED <<stream, fed, out>>

\* Mutant of RejectTooLong: the header of the refused capsule is consumed.
RejectTooLongConsumes(h) ==
  /\ HeaderRead(h)
  /\ Addressable(h)
  /\ h.datagram
  /\ h.length > MaxCapsuleLength
  /\ Consume(h.header)
  /\ Return("LengthTooLarge")
  /\ UNCHANGED <<stream, fed, skip_remaining, parsed, out>>

\* Mutant of RejectTooLong: the limit is compared before the type is looked at.
RejectTooLongAnyType(h) ==
  /\ HeaderRead(h)
  /\ Addressable(h)
  /\ h.length > MaxCapsuleLength
  /\ Return("LengthTooLarge")
  /\ UNCHANGED <<stream, fed, parserVars, parsed, out>>

\* A known capsule over the limit: refused without being consumed.
RejectTooLong(h) ==
  /\ HeaderRead(h)
  /\ Addressable(h)
  /\ h.datagram
  /\ h.length > MaxCapsuleLength
  /\ Return("LengthTooLarge")
  /\ UNCHANGED <<stream, fed, parserVars, parsed, out>>

AwaitValue(h) ==
  /\ HeaderRead(h)
  /\ Addressable(h)
  /\ h.datagram
  /\ h.length <= MaxCapsuleLength
  /\ Window < h.header + h.length
  /\ Return("none")
  /\ UNCHANGED <<stream, fed, parserVars, parsed, out>>

Emit(h) ==
  /\ HeaderRead(h)
  /\ Addressable(h)
  /\ h.datagram
  /\ h.length <= MaxCapsuleLength
  /\ Window >= h.header + h.length
  /\ out' = Append(out, [from |-> Cursor + h.header,
                         to   |-> Cursor + h.header + h.length])
  /\ Consume(h.header + h.length)
  /\ parsed' = parsed + 1
  /\ Return("capsule")
  /\ UNCHANGED <<stream, fed, skip_remaining>>

\* Mutant of Finalize: a skip that is still going on does not count.
FinalizeIgnoresSkip ==
  /\ pc = "idle"
  /\ pc' = "finalized"
  /\ last' = IF start >= buf THEN "ok" ELSE "Truncated"
  /\ UNCHANGED <<stream, fed, parserVars, parsed, out>>

\* finalize(self) consumes the parser: nothing can be called after it.
Finalize ==
  /\ pc = "idle"
  /\ pc' = "finalized"
  /\ last' = IF start >= buf /\ skip_remaining = 0 THEN "ok" ELSE "Truncated"
  /\ UNCHANGED <<stream, fed, parserVars, parsed, out>>

Decode(h) ==
  \/ IncompleteHeader(h)
  \/ RejectUnaddressable(h)
  \/ SkipWhole(h)
  \/ SkipPartial(h)
  \/ RejectTooLong(h)
  \/ AwaitValue(h)
  \/ Emit(h)

\* An iteration of the loop of try_parse.
Parse ==
  \/ DrainSkip
  \/ EmptyWindow
  \/ \E h \in HeadersAt(Cursor) : Decode(h)

Next ==
  \/ \E k \in Kinds : Write(k)
  \/ \E n \in 0 .. (StreamEnd - fed) : Feed(n)
  \/ NextCapsule
  \/ Parse
  \/ Finalize

Spec == Init /\ [][Next]_vars

\* try_parse is synchronous code: once called it runs to its return.  The
\* caller drains: it keeps calling next_capsule, as the crate's own reader does.
FairSpec ==
  /\ Spec
  /\ WF_vars(Parse)
  /\ WF_vars(NextCapsule)
-----------------------------------------------------------------------------
(* Properties.                                                              *)

ValueOf(f) == [from |-> f.value, to |-> f.end]

\* What try_parse refuses: a known value over the limit; or a capsule whose
\* length or end usize cannot hold, and this whether its type is known or not,
\* for the conversion and checked_add come before the test of the type.  The
\* docs would have such a capsule of unknown type skipped (MCCapsuleParser).
Refusable(f) ==
  \/ f.datagram /\ f.end - f.value > MaxCapsuleLength
  \/ f.end - f.start > UsizeMax

FrameType == [datagram : BOOLEAN, start : Nat, value : Nat, end : Nat]
RangeType == [from : Nat, to : Nat]

\* The values the variables may take.
TypeOK ==
  /\ stream \in Seq(FrameType)
  /\ fed \in Nat
  /\ buf \in Nat /\ start \in Nat /\ skip_remaining \in Nat
  /\ pc \in {"idle", "parsing", "finalized"}
  /\ last \in Results
  /\ parsed \in Nat
  /\ out \in Seq(RangeType)

\* The parser never loses its place: after any split of the stream into
\* chunks, any compaction and any partial skip, the byte it will look at next
\* lies skip_remaining bytes before the end of the last frame it finished
\* (start, buf and skip_remaining of CapsuleParser, kept by try_parse).
Synchronised ==
  /\ parsed <= Len(stream)
  /\ start <= buf
  /\ buf <= fed
  /\ fed <= StreamEnd
  /\ Cursor + skip_remaining = EndOf(parsed)

\* What next_capsule hands out is, in stream order and without repetition,
\* exactly the values of the known frames passed so far: no byte of an
\* unknown capsule's value or of a header ever leaves the parser.
DeliveredExactly ==
  /\ \A j \in 1 .. Len(out) :
       \E i \in 1 .. parsed : stream[i].datagram /\ out[j] = ValueOf(stream[i])
  /\ \A i \in 1 .. parsed :
       stream[i].datagram => \E j \in 1 .. Len(out) : out[j] = ValueOf(stream[i])
  /\ \A i, j \in 1 .. Len(out) : i < j => out[i].to < out[j].from

\* When the last call asked for more bytes (Ok(None)), the parser keeps less
\* than one header and one accepted value, plus the consumed bytes lazy
\* compaction has not yet dropped; an unknown capsule of any declared length
\* adds no unread byte.  Nothing is said while capsules are left undrained or
\* after a refusal: there every further feed grows the buffer.
BoundedBuffer ==
  pc = "idle" /\ last = "none" =>
    /\ start < CompactThreshold
    /\ Window < MaxHeader + MaxCapsuleLength
    /\ skip_remaining > 0 => Window = 0

\* finalize(self) says Ok exactly when the stream so far ends on a frame
\* boundary and every frame before it was handed out or skipped.
FinalizeExact ==
  pc = "finalized" => (last = "ok" <=> fed = EndOf(parsed))

\* Every refusal has its cause in the very next frame, whose header has wholly
\* arrived, and names it: max_capsule_length refuses known capsules only, an
\* unknown one is refused only when usize cannot hold its length or its end,
\* and LengthOverflow means that its length alone would have fitted.
RefusesForCause ==
  last \in LengthErrors =>
    /\ parsed < Len(stream)
    /\ LET f == stream[parsed + 1] IN
         /\ f.value <= fed
         /\ Refusable(f)
         /\ last = "LengthOverflow" <=>
              f.end - f.value <= UsizeMax /\ f.end - f.start > UsizeMax

\* A refusal is final: no later feed, however many bytes it brings, makes the
\* parser hand out a capsule or claim that it only needs more bytes.
StaysRefused ==
  last \in LengthErrors => UNCHANGED <<out, parsed>> /\ last' \in {last, "Truncated"}
RefusalIsSticky == [][StaysRefused]_vars

\* Every known capsule that has wholly arrived is handed out, unless the
\* caller finalizes first or an earlier frame is refused.
EventuallyEmitted ==
  \A i \in 1 .. MaxCapsules :
    (/\ i <= Len(stream)
     /\ stream[i].datagram
     /\ stream[i].end <= fed)
    ~> (parsed >= i \/ pc = "finalized" \/ last \in LengthErrors)

\* CapsuleStream is what the parser promises; buffer, read position and skip
\* counter are hidden.
Verdict ==
  IF pc = "finalized" THEN (IF last = "ok" THEN "ok" ELSE "truncated")
  ELSE IF last \in LengthErrors THEN "rejected" ELSE "open"

Abstract == INSTANCE CapsuleStream WITH
  written <- stream, arrived <- fed, taken <- parsed, delivered <- out,
  verdict <- Verdict

AbstractSpec == Abstract!Spec
=============================================================================
