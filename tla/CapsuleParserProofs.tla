------------------------ MODULE CapsuleParserProofs ------------------------
(***************************************************************************)
(* Proofs about CapsuleParser, for any capsule shapes, any limit, any        *)
(* compaction threshold and any usize.                                       *)
(***************************************************************************)
EXTENDS CapsuleParser, TLAPS

\* The frames tile the stream: each begins where the one before it ends, has a
\* header of at least two bytes and lies after every earlier one.
Contiguous ==
  /\ \A i \in 1 .. Len(stream) :
       /\ stream[i].start = EndOf(i - 1)
       /\ stream[i].start + 2 <= stream[i].value
       /\ stream[i].value <= stream[i].start + MaxHeader
       /\ stream[i].value <= stream[i].end
  /\ \A i, j \in 1 .. Len(stream) : i < j => stream[i].end <= stream[j].start

\* The inductive invariant behind the parser's place in the stream.
Inv ==
  /\ TypeOK
  /\ Contiguous
  /\ Synchronised

-----------------------------------------------------------------------------
(* Facts about the stream.                                                  *)

\* EndOf is an offset.
LEMMA EndOfType ==
  ASSUME TypeOK, NEW n \in 0 .. Len(stream)
  PROVE  EndOf(n) \in Nat
  <1>1. CASE n = 0
    BY <1>1 DEF EndOf
  <1>2. CASE n # 0
    <2>1. stream[n] \in FrameType
      BY <1>2 DEF TypeOK
    <2> QED
      BY <1>2, <2>1 DEF EndOf, FrameType
  <1> QED
    BY <1>1, <1>2

\* No frame ends past the end of the stream.
LEMMA EndOfBound ==
  ASSUME TypeOK, Contiguous, NEW n \in 0 .. Len(stream)
  PROVE  EndOf(n) <= StreamEnd
  <1>1. Len(stream) \in Nat
    BY DEF TypeOK
  <1>2. EndOf(n) \in Nat /\ StreamEnd \in Nat
    BY <1>1, EndOfType DEF StreamEnd
  <1>3. CASE n = 0
    BY <1>2, <1>3 DEF EndOf
  <1>4. CASE n = Len(stream)
    BY <1>2, <1>4 DEF StreamEnd
  <1>5. CASE n # 0 /\ n < Len(stream)
    <2> DEFINE f == stream[n]
               g == stream[Len(stream)]
    <2>1. n \in 1 .. Len(stream) /\ Len(stream) \in 1 .. Len(stream)
      BY <1>1, <1>5
    <2>2. f \in FrameType /\ g \in FrameType
      BY <2>1 DEF TypeOK
    <2>3. f.end <= g.start /\ g.start + 2 <= g.value /\ g.value <= g.end
      BY <1>5, <2>1 DEF Contiguous
    <2>4. EndOf(n) = f.end /\ StreamEnd = g.end
      BY <1>1, <1>5 DEF EndOf, StreamEnd
    <2> QED
      BY <2>2, <2>3, <2>4 DEF FrameType
  <1> QED
    BY <1>1, <1>3, <1>4, <1>5

\* While the parser is not skipping and has bytes to look at, the bytes it
\* decodes are the header of the next frame, and of no other.
LEMMA HeaderAtCursor ==
  ASSUME Inv, skip_remaining = 0, Window > 0, NEW h \in HeadersAt(Cursor)
  PROVE  /\ parsed + 1 \in 1 .. Len(stream)
         /\ stream[parsed + 1].start = Cursor
         /\ h = ShapeOf(stream[parsed + 1])
  <1> USE DEF Inv
  <1>1. parsed \in 0 .. Len(stream) /\ Len(stream) \in Nat
    BY DEF TypeOK, Synchronised
  <1>2. EndOf(parsed) \in Nat /\ StreamEnd \in Nat
    BY <1>1, EndOfType DEF StreamEnd
  <1>3. Cursor = EndOf(parsed) /\ Cursor < fed /\ fed <= StreamEnd
    BY <1>2 DEF Synchronised, Cursor, Window, TypeOK
  <1>4. parsed # Len(stream)
    BY <1>2, <1>3 DEF StreamEnd, TypeOK
  <1>5. parsed + 1 \in 1 .. Len(stream)
    BY <1>1, <1>4
  <1>6. stream[parsed + 1].start = Cursor
    BY <1>1, <1>3, <1>5 DEF Contiguous
  <1>7. \A i \in 1 .. Len(stream) : stream[i].start = Cursor => i = parsed + 1
    <2> SUFFICES ASSUME NEW i \in 1 .. Len(stream), stream[i].start = Cursor,
                        i # parsed + 1
                 PROVE  FALSE
      OBVIOUS
    <2> DEFINE f == stream[i]
               g == stream[parsed + 1]
    <2>1. f \in FrameType /\ g \in FrameType
      BY <1>5 DEF TypeOK
    <2>2. /\ f.start + 2 <= f.value /\ f.value <= f.end
          /\ g.start + 2 <= g.value /\ g.value <= g.end
      BY <1>5 DEF Contiguous
    <2>3. f.end <= g.start \/ g.end <= f.start
      BY <1>1, <1>5 DEF Contiguous
    <2> QED
      BY <1>6, <2>1, <2>2, <2>3 DEF FrameType
  <1>8. {i \in 1 .. Len(stream) : stream[i].start = Cursor} = {parsed + 1}
    BY <1>5, <1>6, <1>7
  <1> QED
    BY <1>5, <1>6, <1>8 DEF HeadersAt

\* Any header the parser can decode has at least two bytes.
LEMMA HeaderType ==
  ASSUME TypeOK, Contiguous, NEW p, NEW h \in HeadersAt(p)
  PROVE  h \in Shape /\ h.header >= 2
  <1> DEFINE here == {i \in 1 .. Len(stream) : stream[i].start = p}
  <1>1. CASE here = {}
    BY <1>1, KindsAssumption DEF HeadersAt
  <1>2. CASE here # {}
    <2>1. PICK i \in 1 .. Len(stream) : h = ShapeOf(stream[i])
      BY <1>2 DEF HeadersAt
    <2>2. stream[i] \in FrameType
      BY DEF TypeOK
    <2>3. stream[i].start + 2 <= stream[i].value /\ stream[i].value <= stream[i].end
      BY DEF Contiguous
    <2> QED
      BY <2>1, <2>2, <2>3 DEF ShapeOf, FrameType, Shape
  <1> QED
    BY <1>1, <1>2

\* Consuming moves the read position by exactly n, whether it compacts or not.
LEMMA ConsumeMovesCursor ==
  ASSUME TypeOK, Synchronised, NEW n \in Nat, n <= Window, Consume(n), fed' = fed
  PROVE  /\ buf' \in Nat /\ start' \in Nat
         /\ start' <= buf' /\ buf' <= fed'
         /\ Cursor' = Cursor + n
         /\ Window' = Window - n
  <1>1. /\ buf \in Nat /\ start \in Nat /\ fed \in Nat
        /\ start <= buf /\ buf <= fed
    BY DEF TypeOK, Synchronised
  <1> QED
    BY <1>1 DEF Consume, Cursor, Window
-----------------------------------------------------------------------------
(* The peer's writes.                                                       *)

\* A write appends one frame and leaves the ends of the earlier ones alone.
LEMMA WriteAppends ==
  ASSUME TypeOK, NEW k \in Kinds, Write(k)
  PROVE  /\ Len(stream') = Len(stream) + 1
         /\ Len(stream) \in Nat
         /\ stream' \in Seq(FrameType)
         /\ \A i \in 1 .. Len(stream) : stream'[i] = stream[i]
         /\ stream'[Len(stream) + 1] = Frame(k, StreamEnd)
         /\ \A n \in 0 .. Len(stream) : EndOf(n)' = EndOf(n)
         /\ StreamEnd' = StreamEnd + k.header + k.length
         /\ k \in Shape /\ k.header >= 2 /\ k.header <= MaxHeader
  <1>1. Len(stream) \in Nat /\ stream \in Seq(FrameType)
    BY DEF TypeOK
  <1>2. k \in Shape /\ k.header >= 2 /\ k.header <= MaxHeader
    BY KindsAssumption
  <1>3. StreamEnd \in Nat
    BY <1>1, EndOfType DEF StreamEnd
  <1>4. Frame(k, StreamEnd) \in FrameType
    BY <1>2, <1>3 DEF Frame, FrameType, Shape
  <1> DEFINE f == Frame(k, StreamEnd)
  <1>5. stream' = Append(stream, f)
    BY DEF Write
  <1> HIDE DEF f
  <1>6. /\ Len(stream') = Len(stream) + 1
        /\ stream' \in Seq(FrameType)
        /\ \A i \in 1 .. Len(stream) : stream'[i] = stream[i]
        /\ stream'[Len(stream) + 1] = f
    BY <1>1, <1>4, <1>5 DEF f
  <1>7. ASSUME NEW n \in 0 .. Len(stream) PROVE EndOf(n)' = EndOf(n)
    BY <1>1, <1>6, <1>7 DEF EndOf
  <1>8. StreamEnd' = StreamEnd + k.header + k.length
    <2>1. StreamEnd' = f.end
      BY <1>1, <1>6 DEF StreamEnd, EndOf
    <2> QED
      BY <2>1 DEF f, Frame
  <1> QED
    BY <1>1, <1>2, <1>6, <1>7, <1>8 DEF f

LEMMA WriteKeepsInv ==
  ASSUME Inv, NEW k \in Kinds, Write(k)
  PROVE  Inv'
  <1> USE DEF Inv
  <1>1. /\ Len(stream') = Len(stream) + 1
        /\ Len(stream) \in Nat
        /\ stream' \in Seq(FrameType)
        /\ \A i \in 1 .. Len(stream) : stream'[i] = stream[i]
        /\ stream'[Len(stream) + 1] = Frame(k, StreamEnd)
        /\ \A n \in 0 .. Len(stream) : EndOf(n)' = EndOf(n)
        /\ StreamEnd' = StreamEnd + k.header + k.length
        /\ k \in Shape /\ k.header >= 2 /\ k.header <= MaxHeader
    BY WriteAppends
  <1>2. StreamEnd \in Nat
    BY <1>1, EndOfType DEF StreamEnd
  <1>3. UNCHANGED <<fed, buf, start, skip_remaining, pc, last, parsed, out>>
    BY DEF Write
  <1>4. TypeOK'
    BY <1>1, <1>3 DEF TypeOK
  <1>5. Contiguous'
    <2>1. ASSUME NEW i \in 1 .. Len(stream')
          PROVE  /\ stream'[i].start = EndOf(i - 1)'
                 /\ stream'[i].start + 2 <= stream'[i].value
                 /\ stream'[i].value <= stream'[i].start + MaxHeader
                 /\ stream'[i].value <= stream'[i].end
      <3>1. CASE i \in 1 .. Len(stream)
        <4>1. EndOf(i - 1)' = EndOf(i - 1)
          BY <1>1, <3>1
        <4> QED
          BY <1>1, <3>1, <4>1 DEF Contiguous
      <3>2. CASE i = Len(stream) + 1
        <4>1. EndOf(i - 1)' = StreamEnd
          BY <1>1, <3>2 DEF StreamEnd
        <4> QED
          BY <1>1, <1>2, <3>2, <4>1, BoundsAssumption DEF Frame, Shape
      <3> QED
        BY <1>1, <2>1, <3>1, <3>2
    <2>2. ASSUME NEW i \in 1 .. Len(stream'), NEW j \in 1 .. Len(stream'), i < j
          PROVE  stream'[i].end <= stream'[j].start
      <3>1. CASE j \in 1 .. Len(stream)
        BY SMTT(40), <1>1, <2>2, <3>1 DEF Contiguous
      <3>2. CASE j = Len(stream) + 1
        <4>1. i \in 1 .. Len(stream) /\ i \in 0 .. Len(stream)
          BY <1>1, <2>2, <3>2
        <4>2. stream'[i].end = EndOf(i)
          BY <1>1, <4>1 DEF EndOf
        <4>3. EndOf(i) <= StreamEnd
          BY <4>1, EndOfBound
        <4> QED
          BY <1>1, <3>2, <4>2, <4>3 DEF Frame
      <3> QED
        BY <1>1, <2>2, <3>1, <3>2
    <2> QED
      BY <2>1, <2>2 DEF Contiguous
  <1>6. Synchronised'
    <2>1. parsed \in 0 .. Len(stream)
      BY <1>1 DEF TypeOK, Synchronised
    <2>2. EndOf(parsed)' = EndOf(parsed)
      BY <1>1, <1>3, <2>1
    <2>3. Cursor' = Cursor
      BY <1>3 DEF Cursor
    <2> QED
      BY <1>1, <1>2, <1>3, <2>2, <2>3 DEF Synchronised, TypeOK, Shape
  <1> QED
    BY <1>4, <1>5, <1>6
-----------------------------------------------------------------------------
(* The parser's own steps.                                                  *)

LEMMA StreamUntouched ==
  ASSUME UNCHANGED stream
  PROVE  /\ Contiguous => Contiguous'
         /\ StreamEnd' = StreamEnd
         /\ \A n : EndOf(n)' = EndOf(n)
  BY DEF Contiguous, StreamEnd, EndOf

\* The header read by an iteration that is past the skip and has a whole
\* header in the window is the next frame's.
LEMMA ReadHeader ==
  ASSUME Inv, NEW h \in HeadersAt(Cursor), HeaderRead(h)
  PROVE  /\ h \in Shape /\ h.header >= 2
         /\ Window \in Nat /\ Window >= h.header
         /\ skip_remaining = 0
         /\ parsed + 1 \in 1 .. Len(stream)
         /\ h = ShapeOf(stream[parsed + 1])
         /\ EndOf(parsed + 1) = Cursor + h.header + h.length
         /\ stream[parsed + 1].value = Cursor + h.header
         /\ stream[parsed + 1].start = Cursor
         /\ Cursor \in Nat
  <1>1. h \in Shape /\ h.header >= 2
    BY HeaderType DEF Inv
  <1>2. Window \in Nat /\ Window >= h.header /\ skip_remaining = 0 /\ Cursor \in Nat
    BY DEF Inv, TypeOK, Synchronised, HeaderRead, Window, Cursor
  <1>3. /\ parsed + 1 \in 1 .. Len(stream)
        /\ stream[parsed + 1].start = Cursor
        /\ h = ShapeOf(stream[parsed + 1])
    BY <1>1, <1>2, HeaderAtCursor DEF Shape
  <1>4. parsed \in Nat /\ stream[parsed + 1] \in FrameType
    BY <1>3 DEF Inv, TypeOK
  <1>5. h.header = stream[parsed + 1].value - Cursor
        /\ h.length = stream[parsed + 1].end - stream[parsed + 1].value
    BY <1>3 DEF ShapeOf
  <1>6. EndOf(parsed + 1) = stream[parsed + 1].end
    BY <1>4 DEF EndOf
  <1> QED
    BY <1>1, <1>2, <1>3, <1>4, <1>5, <1>6 DEF FrameType, Shape

\* A step that leaves the buffer and the history of frames alone.
LEMMA QuietStepKeepsInv ==
  ASSUME Inv, UNCHANGED <<stream, fed, parserVars, parsed, out>>,
         pc' \in {"idle", "parsing", "finalized"}, last' \in Results
  PROVE  Inv'
  <1>1. Contiguous' /\ StreamEnd' = StreamEnd /\ EndOf(parsed)' = EndOf(parsed)
    BY StreamUntouched DEF Inv
  <1>2. TypeOK'
    BY DEF Inv, TypeOK, parserVars
  <1>3. Synchronised'
    BY <1>1 DEF Inv, Synchronised, Cursor, parserVars
  <1> QED
    BY <1>1, <1>2, <1>3 DEF Inv

\* A step that consumes n bytes and accounts for all of them.
LEMMA ConsumingStepKeepsInv ==
  ASSUME Inv, NEW n \in Nat, n <= Window, Consume(n),
         UNCHANGED <<stream, fed>>,
         parsed' \in 0 .. Len(stream), skip_remaining' \in Nat,
         Cursor + n + skip_remaining' = EndOf(parsed'),
         pc' \in {"idle", "parsing", "finalized"}, last' \in Results,
         out' \in Seq(RangeType)
  PROVE  Inv'
  <1>1. Contiguous' /\ StreamEnd' = StreamEnd /\ EndOf(parsed)' = EndOf(parsed')
    BY StreamUntouched DEF Inv, EndOf
  <1>2. /\ buf' \in Nat /\ start' \in Nat /\ start' <= buf' /\ buf' <= fed'
        /\ Cursor' = Cursor + n
    BY ConsumeMovesCursor DEF Inv
  <1>3. Len(stream) \in Nat
    BY DEF Inv, TypeOK
  <1>4. TypeOK'
    BY <1>2, <1>3 DEF Inv, TypeOK
  <1>5. Synchronised'
    BY <1>1, <1>2, <1>3 DEF Inv, Synchronised
  <1> QED
    BY <1>1, <1>4, <1>5 DEF Inv

LEMMA DrainSkipKeepsInv == Inv /\ DrainSkip => Inv'
  <1> SUFFICES ASSUME Inv, DrainSkip PROVE Inv'
    OBVIOUS
  <1> DEFINE d == IF Window < skip_remaining THEN Window ELSE skip_remaining
  <1>1. Window \in Nat /\ skip_remaining \in Nat /\ Cursor \in Nat
    BY DEF Inv, TypeOK, Synchronised, Window, Cursor
  <1>2. d \in Nat /\ d <= Window /\ d <= skip_remaining
    BY <1>1
  <1>3. /\ Consume(d) /\ skip_remaining' = skip_remaining - d
        /\ UNCHANGED <<stream, fed, parsed, out>>
        /\ (pc' = "idle" /\ last' = "none") \/ UNCHANGED <<pc, last>>
    BY DEF DrainSkip, Return, Loop
  <1> HIDE DEF d
  <1>4. parsed' \in 0 .. Len(stream) /\ Len(stream) \in Nat
    BY <1>3 DEF Inv, TypeOK, Synchronised
  <1>5. Cursor + d + skip_remaining' = EndOf(parsed')
    BY <1>1, <1>2, <1>3 DEF Inv, Synchronised
  <1>6. /\ skip_remaining' \in Nat
        /\ pc' \in {"idle", "parsing", "finalized"} /\ last' \in Results
        /\ out' \in Seq(RangeType)
    BY <1>1, <1>2, <1>3 DEF Inv, TypeOK, Results
  <1> QED
    BY <1>2, <1>3, <1>4, <1>5, <1>6, ConsumingStepKeepsInv

LEMMA EmptyWindowKeepsInv == Inv /\ EmptyWindow => Inv'
  <1> SUFFICES ASSUME Inv, EmptyWindow PROVE Inv'
    OBVIOUS
  <1>1. /\ UNCHANGED <<stream, fed, skip_remaining, parsed, out>>
        /\ buf' = buf - start /\ start' = 0 /\ pc' = "idle" /\ last' = "none"
    BY DEF EmptyWindow, Return
  <1>2. Contiguous' /\ StreamEnd' = StreamEnd /\ EndOf(parsed)' = EndOf(parsed)
    BY <1>1, StreamUntouched DEF Inv
  <1>3. TypeOK'
    BY <1>1 DEF Inv, TypeOK, Synchronised, Results
  <1>4. Synchronised'
    BY <1>1, <1>2 DEF Inv, TypeOK, Synchronised, Cursor
  <1> QED
    BY <1>2, <1>3, <1>4 DEF Inv

LEMMA SkipWholeKeepsInv ==
  ASSUME Inv, NEW h \in HeadersAt(Cursor), SkipWhole(h)
  PROVE  Inv'
  <1> DEFINE n == h.header + h.length
  <1>1. HeaderRead(h)
    BY DEF SkipWhole
  <1>2. /\ h \in Shape /\ skip_remaining = 0 /\ Cursor \in Nat
        /\ parsed + 1 \in 1 .. Len(stream)
        /\ EndOf(parsed + 1) = Cursor + h.header + h.length
    BY <1>1, ReadHeader
  <1>3. n \in Nat /\ n <= Window
    BY <1>2 DEF Shape, SkipWhole
  <1>4. /\ Consume(n) /\ parsed' = parsed + 1
        /\ UNCHANGED <<stream, fed, skip_remaining, out, pc, last>>
    BY DEF SkipWhole, Loop
  <1>5. parsed' \in 0 .. Len(stream)
    BY <1>2, <1>4 DEF Inv, TypeOK
  <1>6. Cursor + n + skip_remaining' = EndOf(parsed')
    BY <1>2, <1>4 DEF Shape
  <1>7. /\ skip_remaining' \in Nat
        /\ pc' \in {"idle", "parsing", "finalized"} /\ last' \in Results
        /\ out' \in Seq(RangeType)
    BY <1>4 DEF Inv, TypeOK
  <1> HIDE DEF n
  <1> QED
    BY <1>3, <1>4, <1>5, <1>6, <1>7, ConsumingStepKeepsInv

LEMMA SkipPartialKeepsInv ==
  ASSUME Inv, NEW h \in HeadersAt(Cursor), SkipPartial(h)
  PROVE  Inv'
  <1>1. HeaderRead(h)
    BY DEF SkipPartial
  <1>2. /\ h \in Shape /\ skip_remaining = 0 /\ Cursor \in Nat
        /\ Window \in Nat /\ Window >= h.header
        /\ parsed + 1 \in 1 .. Len(stream)
        /\ EndOf(parsed + 1) = Cursor + h.header + h.length
    BY <1>1, ReadHeader
  <1>3. /\ Consume(Window) /\ parsed' = parsed + 1
        /\ skip_remaining' = h.length - (Window - h.header)
        /\ Window < h.header + h.length
        /\ pc' = "idle" /\ last' = "none"
        /\ UNCHANGED <<stream, fed, out>>
    BY DEF SkipPartial, Return
  <1>4. parsed' \in 0 .. Len(stream)
    BY <1>2, <1>3 DEF Inv, TypeOK
  <1>5. Cursor + Window + skip_remaining' = EndOf(parsed') /\ skip_remaining' \in Nat
    BY SMTT(40), <1>2, <1>3 DEF Shape
  <1>6. /\ pc' \in {"idle", "parsing", "finalized"} /\ last' \in Results
        /\ out' \in Seq(RangeType)
    BY <1>3 DEF Inv, TypeOK, Results
  <1> QED
    BY <1>2, <1>3, <1>4, <1>5, <1>6, ConsumingStepKeepsInv

LEMMA EmitKeepsInv ==
  ASSUME Inv, NEW h \in HeadersAt(Cursor), Emit(h)
  PROVE  Inv'
  <1> DEFINE n == h.header + h.length
             v == [from |-> Cursor + h.header, to |-> Cursor + h.header + h.length]
  <1>1. HeaderRead(h)
    BY DEF Emit
  <1>2. /\ h \in Shape /\ skip_remaining = 0 /\ Cursor \in Nat
        /\ parsed + 1 \in 1 .. Len(stream)
        /\ EndOf(parsed + 1) = Cursor + h.header + h.length
    BY <1>1, ReadHeader
  <1>3. n \in Nat /\ n <= Window
    BY <1>2 DEF Shape, Emit
  <1>4. /\ Consume(n) /\ parsed' = parsed + 1 /\ out' = Append(out, v)
        /\ pc' = "idle" /\ last' = "capsule"
        /\ UNCHANGED <<stream, fed, skip_remaining>>
    BY DEF Emit, Return
  <1>5. parsed' \in 0 .. Len(stream)
    BY <1>2, <1>4 DEF Inv, TypeOK
  <1>6. Cursor + n + skip_remaining' = EndOf(parsed')
    BY <1>2, <1>4 DEF Shape
  <1>7. v \in RangeType
    BY <1>2 DEF Shape, RangeType
  <1>8. /\ skip_remaining' \in Nat
        /\ pc' \in {"idle", "parsing", "finalized"} /\ last' \in Results
        /\ out' \in Seq(RangeType)
    BY <1>4, <1>7 DEF Inv, TypeOK, Results
  <1> HIDE DEF n, v
  <1> QED
    BY <1>3, <1>4, <1>5, <1>6, <1>8, ConsumingStepKeepsInv

LEMMA ParseKeepsInv == Inv /\ Parse => Inv'
  <1> SUFFICES ASSUME Inv, Parse PROVE Inv'
    OBVIOUS
  <1>1. CASE DrainSkip
    BY <1>1, DrainSkipKeepsInv
  <1>2. CASE EmptyWindow
    BY <1>2, EmptyWindowKeepsInv
  <1>3. ASSUME NEW h \in HeadersAt(Cursor), Decode(h) PROVE Inv'
    <2>1. CASE IncompleteHeader(h)
      BY <2>1, QuietStepKeepsInv DEF IncompleteHeader, Return, Results
    <2>2. CASE RejectUnaddressable(h)
      BY <2>2, QuietStepKeepsInv DEF RejectUnaddressable, Return, Results, LengthErrors
    <2>3. CASE SkipWhole(h)
      BY <2>3, SkipWholeKeepsInv
    <2>4. CASE SkipPartial(h)
      BY <2>4, SkipPartialKeepsInv
    <2>5. CASE RejectTooLong(h)
      BY <2>5, QuietStepKeepsInv DEF RejectTooLong, Return, Results, LengthErrors
    <2>6. CASE AwaitValue(h)
      BY <2>6, QuietStepKeepsInv DEF AwaitValue, Return, Results
    <2>7. CASE Emit(h)
      BY <2>7, EmitKeepsInv
    <2> QED
      BY <1>3, <2>1, <2>2, <2>3, <2>4, <2>5, <2>6, <2>7 DEF Decode
  <1> QED
    BY <1>1, <1>2, <1>3 DEF Parse

LEMMA FeedKeepsInv ==
  ASSUME Inv, NEW n \in 0 .. (StreamEnd - fed), Feed(n)
  PROVE  Inv'
  <1>1. /\ buf' = buf + n /\ fed' = fed + n /\ pc' = "parsing"
        /\ UNCHANGED <<stream, start, skip_remaining, last, parsed, out>>
    BY DEF Feed
  <1>2. StreamEnd \in Nat
    BY EndOfType DEF Inv, TypeOK, StreamEnd
  <1>3. Contiguous' /\ StreamEnd' = StreamEnd /\ EndOf(parsed)' = EndOf(parsed)
    BY <1>1, StreamUntouched DEF Inv
  <1>4. TypeOK'
    BY <1>1, <1>2 DEF Inv, TypeOK
  <1>5. Synchronised'
    BY <1>1, <1>2, <1>3 DEF Inv, TypeOK, Synchronised, Cursor
  <1> QED
    BY <1>3, <1>4, <1>5 DEF Inv
-----------------------------------------------------------------------------
LEMMA InitInv == Init => Inv
  <1> SUFFICES ASSUME Init PROVE Inv
    OBVIOUS
  <1>1. Len(stream) = 0
    BY DEF Init
  <1>2. TypeOK
    BY DEF Init, TypeOK, Results
  <1>3. Contiguous
    BY <1>1 DEF Contiguous
  <1>4. Synchronised
    BY <1>1 DEF Init, Synchronised, StreamEnd, EndOf, Cursor
  <1> QED
    BY <1>2, <1>3, <1>4 DEF Inv

LEMMA StepInv == Inv /\ [Next]_vars => Inv'
  <1> SUFFICES ASSUME Inv, [Next]_vars PROVE Inv'
    OBVIOUS
  <1>1. ASSUME NEW k \in Kinds, Write(k) PROVE Inv'
    BY <1>1, WriteKeepsInv
  <1>2. ASSUME NEW n \in 0 .. (StreamEnd - fed), Feed(n) PROVE Inv'
    BY <1>2, FeedKeepsInv
  <1>3. CASE NextCapsule
    BY <1>3, QuietStepKeepsInv DEF NextCapsule, parserVars, Inv, TypeOK
  <1>4. CASE Parse
    BY <1>4, ParseKeepsInv
  <1>5. CASE Finalize
    BY <1>5, QuietStepKeepsInv DEF Finalize, Results
  <1>6. CASE UNCHANGED vars
    BY <1>6, QuietStepKeepsInv DEF vars, parserVars, Inv, TypeOK
  <1> QED
    BY <1>1, <1>2, <1>3, <1>4, <1>5, <1>6 DEF Next

LEMMA AlwaysInv == Spec => []Inv
  <1> QED
    BY InitInv, StepInv, PTL DEF Spec

\* Every variable of the parser keeps its type, for any capsules and bounds.
THEOREM TypeCorrect == Spec => []TypeOK
  <1>1. Inv => TypeOK
    BY DEF Inv
  <1> QED
    BY <1>1, AlwaysInv, PTL

\* The parser never loses its place in the stream, however the stream is split
\* into chunks, whatever is skipped, and whenever the buffer is compacted.
THEOREM StaysSynchronised == Spec => []Synchronised
  <1>1. Inv => Synchronised
    BY DEF Inv
  <1> QED
    BY <1>1, AlwaysInv, PTL
-----------------------------------------------------------------------------
(* What leaves the parser.                                                  *)

\* Passing a frame without emitting anything is right for an unknown frame.
LEMMA SkipKeepsDelivered ==
  ASSUME Inv, DeliveredExactly, UNCHANGED <<stream, out>>,
         \/ parsed' = parsed
         \/ parsed' = parsed + 1 /\ ~stream[parsed + 1].datagram
  PROVE  DeliveredExactly'
  <1>1. \A i : /\ i \in 1 .. parsed => i \in 1 .. parsed'
               /\ i \in 1 .. parsed' /\ stream[i].datagram => i \in 1 .. parsed
    BY DEF Inv, TypeOK
  <1> QED
    BY <1>1 DEF DeliveredExactly, ValueOf

\* Frames written later do not change what the earlier ones were.
LEMMA WriteKeepsDelivered ==
  ASSUME Inv, DeliveredExactly, NEW k \in Kinds, Write(k)
  PROVE  DeliveredExactly'
  <1>1. \A i \in 1 .. Len(stream) : stream'[i] = stream[i]
    BY WriteAppends DEF Inv
  <1>2. parsed' = parsed /\ out' = out
    BY DEF Write
  <1>3. 1 .. parsed \subseteq 1 .. Len(stream)
    BY DEF Inv, TypeOK, Synchronised
  <1>4. \A i \in 1 .. parsed : stream'[i] = stream[i]
    BY <1>1, <1>3
  <1>5. \A i \in 1 .. parsed : ValueOf(stream'[i]) = ValueOf(stream[i])
    BY <1>4 DEF ValueOf
  <1>6. ASSUME NEW j \in 1 .. Len(out)
        PROVE  \E i \in 1 .. parsed : stream'[i].datagram /\ out[j] = ValueOf(stream'[i])
    <2>1. PICK i \in 1 .. parsed : stream[i].datagram /\ out[j] = ValueOf(stream[i])
      BY DEF DeliveredExactly
    <2> QED
      BY <1>4, <1>5, <2>1
  <1>7. ASSUME NEW i \in 1 .. parsed, stream'[i].datagram
        PROVE  \E j \in 1 .. Len(out) : out[j] = ValueOf(stream'[i])
    BY <1>4, <1>5, <1>7 DEF DeliveredExactly
  <1>8. \A i, j \in 1 .. Len(out) : i < j => out[i].to < out[j].from
    BY DEF DeliveredExactly
  <1> QED
    BY <1>2, <1>6, <1>7, <1>8 DEF DeliveredExactly, ValueOf

\* Emit appends the value of the next frame, and every value handed out before
\* lies in an earlier frame.
LEMMA EmitKeepsDelivered ==
  ASSUME Inv, DeliveredExactly, NEW h \in HeadersAt(Cursor), Emit(h)
  PROVE  DeliveredExactly'
  <1> DEFINE f == stream[parsed + 1]
             n == Len(out)
  <1>1. /\ h \in Shape
        /\ parsed + 1 \in 1 .. Len(stream)
        /\ h = ShapeOf(f)
        /\ f.value = Cursor + h.header
        /\ EndOf(parsed + 1) = Cursor + h.header + h.length
    BY ReadHeader DEF Emit
  <1>2. parsed \in Nat /\ n \in Nat /\ f \in FrameType /\ out \in Seq(RangeType)
    BY <1>1 DEF Inv, TypeOK
  <1>3. EndOf(parsed + 1) = f.end
    BY <1>2 DEF EndOf
  <1>4. f.datagram
    BY <1>1 DEF Emit, ShapeOf
  <1>5. /\ parsed' = parsed + 1 /\ stream' = stream
        /\ out' = Append(out, ValueOf(f))
    BY <1>1, <1>3 DEF Emit, ValueOf
  <1> HIDE DEF f
  <1>6. ValueOf(f) \in RangeType
    BY <1>2 DEF ValueOf, FrameType, RangeType
  <1>7. /\ Len(out') = n + 1
        /\ \A j \in 1 .. n : out'[j] = out[j]
        /\ out'[n + 1] = ValueOf(f)
    BY <1>2, <1>5, <1>6
  <1>8. ASSUME NEW j \in 1 .. n PROVE out[j].to < ValueOf(f).from
    <2>1. PICK i \in 1 .. parsed : stream[i].datagram /\ out[j] = ValueOf(stream[i])
      BY DEF DeliveredExactly
    <2>2. i \in 1 .. Len(stream) /\ i < parsed + 1
      BY <1>1, <1>2
    <2>3. stream[i].end <= f.start /\ f.start + 2 <= f.value
      BY <1>1, <2>2 DEF Inv, Contiguous, f
    <2>4. stream[i] \in FrameType
      BY <2>2 DEF Inv, TypeOK
    <2> QED
      BY <1>2, <2>1, <2>3, <2>4 DEF ValueOf, FrameType
  <1>9. \A j \in 1 .. Len(out') : \E i \in 1 .. parsed' :
          stream'[i].datagram /\ out'[j] = ValueOf(stream'[i])
    <2> SUFFICES ASSUME NEW j \in 1 .. Len(out')
                 PROVE  \E i \in 1 .. parsed + 1 :
                          stream[i].datagram /\ out'[j] = ValueOf(stream[i])
      BY <1>5
    <2>1. CASE j \in 1 .. n
      <3>1. PICK i \in 1 .. parsed : stream[i].datagram /\ out[j] = ValueOf(stream[i])
        BY <2>1 DEF DeliveredExactly
      <3>2. i \in 1 .. parsed + 1
        BY <1>2
      <3> QED
        BY <1>7, <2>1, <3>1, <3>2
    <2>2. CASE j = n + 1
      <3>1. parsed + 1 \in 1 .. parsed + 1
        BY <1>2
      <3> QED
        BY <1>4, <1>7, <2>2, <3>1 DEF f
    <2> QED
      BY <1>2, <1>7, <2>1, <2>2
  <1>10. \A i \in 1 .. parsed' : stream'[i].datagram =>
           \E j \in 1 .. Len(out') : out'[j] = ValueOf(stream'[i])
    <2> SUFFICES ASSUME NEW i \in 1 .. parsed + 1, stream[i].datagram
                 PROVE  \E j \in 1 .. n + 1 : out'[j] = ValueOf(stream[i])
      BY <1>5, <1>7
    <2>1. CASE i \in 1 .. parsed
      <3>1. PICK j \in 1 .. n : out[j] = ValueOf(stream[i])
        BY <2>1 DEF DeliveredExactly
      <3>2. j \in 1 .. n + 1
        BY <1>2
      <3> QED
        BY <1>7, <3>1, <3>2
    <2>2. CASE i = parsed + 1
      <3>1. n + 1 \in 1 .. n + 1
        BY <1>2
      <3> QED
        BY <1>7, <2>2, <3>1 DEF f
    <2> QED
      BY <1>2, <2>1, <2>2
  <1>11. \A i, j \in 1 .. Len(out') : i < j => out'[i].to < out'[j].from
    <2> SUFFICES ASSUME NEW i \in 1 .. n + 1, NEW j \in 1 .. n + 1, i < j
                 PROVE  out'[i].to < out'[j].from
      BY <1>7
    <2>1. i \in 1 .. n
      BY <1>2
    <2>2. CASE j \in 1 .. n
      BY <1>7, <2>1, <2>2 DEF DeliveredExactly
    <2>3. CASE j = n + 1
      BY <1>7, <1>8, <2>1, <2>3
    <2> QED
      BY <1>2, <2>2, <2>3
  <1> QED
    BY <1>9, <1>10, <1>11 DEF DeliveredExactly

LEMMA StepDelivered == Inv /\ DeliveredExactly /\ [Next]_vars => DeliveredExactly'
  <1> SUFFICES ASSUME Inv, DeliveredExactly, [Next]_vars PROVE DeliveredExactly'
    OBVIOUS
  <1>1. ASSUME NEW k \in Kinds, Write(k) PROVE DeliveredExactly'
    BY <1>1, WriteKeepsDelivered
  <1>2. ASSUME NEW h \in HeadersAt(Cursor), Decode(h) PROVE DeliveredExactly'
    <2>1. CASE Emit(h)
      BY <2>1, EmitKeepsDelivered
    <2>2. CASE SkipWhole(h) \/ SkipPartial(h)
      <3>1. ~stream[parsed + 1].datagram
        BY <2>2, ReadHeader DEF SkipWhole, SkipPartial, ShapeOf
      <3> QED
        BY <2>2, <3>1, SkipKeepsDelivered DEF SkipWhole, SkipPartial
    <2>3. CASE IncompleteHeader(h) \/ RejectUnaddressable(h) \/ RejectTooLong(h) \/ AwaitValue(h)
      BY <2>3, SkipKeepsDelivered
         DEF IncompleteHeader, RejectUnaddressable, RejectTooLong, AwaitValue
    <2> QED
      BY <1>2, <2>1, <2>2, <2>3 DEF Decode
  <1>3. CASE DrainSkip \/ EmptyWindow
    BY <1>3, SkipKeepsDelivered DEF DrainSkip, EmptyWindow
  <1>4. ASSUME NEW n \in 0 .. (StreamEnd - fed), Feed(n) PROVE DeliveredExactly'
    BY <1>4, SkipKeepsDelivered DEF Feed
  <1>5. CASE NextCapsule \/ Finalize \/ UNCHANGED vars
    BY <1>5, SkipKeepsDelivered DEF NextCapsule, Finalize, vars
  <1> QED
    BY <1>1, <1>2, <1>3, <1>4, <1>5 DEF Next, Parse

\* The parser hands out the values of the known frames it has passed, each
\* once, in stream order, and nothing else.
THEOREM DeliversExactly == Spec => []DeliveredExactly
  <1>1. Init => DeliveredExactly
    BY DEF Init, DeliveredExactly
  <1> QED
    BY <1>1, AlwaysInv, StepDelivered, PTL DEF Spec
-----------------------------------------------------------------------------
(* Memory.                                                                  *)

\* Between iterations the consumed prefix is shorter than the compaction
\* threshold, whatever the parser has just passed.
BufferInv ==
  /\ start < CompactThreshold
  /\ BoundedBuffer

LEMMA ConsumeCompacts ==
  ASSUME Inv, NEW n \in Nat, n <= Window, Consume(n), fed' = fed
  PROVE  start' < CompactThreshold /\ Window' = Window - n
  <1>1. Window' = Window - n
    BY ConsumeMovesCursor DEF Inv
  <1>2. start' < CompactThreshold
    BY BoundsAssumption DEF Inv, TypeOK, Consume
  <1> QED
    BY <1>1, <1>2

\* No header on the stream is longer than the longest.
LEMMA HeaderFits ==
  ASSUME Inv, NEW i \in 1 .. Len(stream)
  PROVE  ShapeOf(stream[i]).header \in Nat /\ ShapeOf(stream[i]).header <= MaxHeader
  <1> DEFINE f == stream[i]
  <1>1. f \in FrameType
    BY DEF Inv, TypeOK
  <1>2. f.start + 2 <= f.value /\ f.value <= f.start + MaxHeader
    BY DEF Inv, Contiguous
  <1>3. ShapeOf(f).header = f.value - f.start
    BY DEF ShapeOf
  <1> HIDE DEF f
  <1> QED
    BY <1>1, <1>2, <1>3, BoundsAssumption DEF FrameType, f

\* A call that asks for more bytes leaves less than a header and an accepted
\* value unread, and nothing of an unknown value.
LEMMA ParseKeepsBuffer == Inv /\ BufferInv /\ Parse => BufferInv'
  <1> SUFFICES ASSUME Inv, BufferInv, Parse PROVE BufferInv'
    OBVIOUS
  <1>1. /\ Window \in Nat /\ skip_remaining \in Nat /\ start \in Nat /\ buf \in Nat
        /\ CompactThreshold \in Nat \ {0}
        /\ MaxHeader \in Nat /\ MaxHeader >= 2 /\ MaxCapsuleLength \in Nat
    BY BoundsAssumption DEF Inv, TypeOK, Synchronised, Window
  <1>2. CASE DrainSkip
    <2> DEFINE d == IF Window < skip_remaining THEN Window ELSE skip_remaining
    <2>1. /\ Consume(d) /\ fed' = fed /\ skip_remaining' = skip_remaining - d
          /\ IF d < skip_remaining THEN pc' = "idle" ELSE pc' = "parsing"
      BY <1>2 DEF DrainSkip, Return, Loop
    <2>2. d \in Nat /\ d <= Window /\ (d < skip_remaining => d = Window)
      BY <1>1
    <2> HIDE DEF d
    <2>3. start' < CompactThreshold /\ Window' = Window - d
      BY <2>1, <2>2, ConsumeCompacts
    <2> QED
      BY <1>1, <2>1, <2>2, <2>3 DEF BufferInv, BoundedBuffer
  <1>3. CASE EmptyWindow
    BY <1>1, <1>3 DEF EmptyWindow, Return, BufferInv, BoundedBuffer, Window
  <1>4. ASSUME NEW h \in HeadersAt(Cursor), IncompleteHeader(h) PROVE BufferInv'
    <2>1. skip_remaining = 0 /\ Window > 0 /\ Window < h.header
      BY <1>4 DEF IncompleteHeader
    <2>2. parsed + 1 \in 1 .. Len(stream) /\ h = ShapeOf(stream[parsed + 1])
      BY <2>1, HeaderAtCursor
    <2>3. h.header <= MaxHeader /\ h.header \in Nat
      BY <2>2, HeaderFits
    <2>4. UNCHANGED <<buf, start, skip_remaining>>
      BY <1>4 DEF IncompleteHeader, parserVars
    <2> QED
      BY <1>1, <2>1, <2>3, <2>4 DEF BufferInv, BoundedBuffer, Window
  <1>5. ASSUME NEW h \in HeadersAt(Cursor), SkipWhole(h) \/ Emit(h) PROVE BufferInv'
    <2> DEFINE n == h.header + h.length
    <2>1. HeaderRead(h) /\ Consume(n) /\ fed' = fed /\ n <= Window
      BY <1>5 DEF SkipWhole, Emit
    <2>2. n \in Nat
      BY <2>1, ReadHeader DEF Shape
    <2>3. pc' = "parsing" \/ last' = "capsule"
      BY <1>5 DEF SkipWhole, Emit, Loop, Return, HeaderRead
    <2> HIDE DEF n
    <2>4. start' < CompactThreshold
      BY <2>1, <2>2, ConsumeCompacts
    <2> QED
      BY <2>3, <2>4 DEF BufferInv, BoundedBuffer
  <1>6. ASSUME NEW h \in HeadersAt(Cursor), SkipPartial(h) PROVE BufferInv'
    <2>1. Consume(Window) /\ fed' = fed
      BY <1>6 DEF SkipPartial
    <2>2. start' < CompactThreshold /\ Window' = Window - Window
      BY <1>1, <2>1, ConsumeCompacts
    <2> QED
      BY <1>1, <2>2 DEF BufferInv, BoundedBuffer
  <1>7. ASSUME NEW h \in HeadersAt(Cursor), AwaitValue(h) PROVE BufferInv'
    <2>1. HeaderRead(h) /\ h.length <= MaxCapsuleLength /\ Window < h.header + h.length
      BY <1>7 DEF AwaitValue
    <2>2. /\ h \in Shape /\ skip_remaining = 0
          /\ parsed + 1 \in 1 .. Len(stream) /\ h = ShapeOf(stream[parsed + 1])
      BY <2>1, ReadHeader
    <2>3. h.header <= MaxHeader
      BY <2>2, HeaderFits
    <2>4. UNCHANGED <<buf, start, skip_remaining>>
      BY <1>7 DEF AwaitValue, parserVars
    <2> QED
      BY <1>1, <2>1, <2>2, <2>3, <2>4 DEF BufferInv, BoundedBuffer, Window, Shape
  <1>8. ASSUME NEW h \in HeadersAt(Cursor), RejectUnaddressable(h) \/ RejectTooLong(h)
        PROVE  BufferInv'
    BY <1>8 DEF RejectUnaddressable, RejectTooLong, Return, parserVars, BufferInv, BoundedBuffer
  <1> QED
    BY <1>2, <1>3, <1>4, <1>5, <1>6, <1>7, <1>8 DEF Parse, Decode

\* A parser whose last call asked for more bytes holds less than one header and
\* one accepted value, and the consumed bytes that compaction has not dropped
\* yet.  After an undrained capsule or a refusal nothing is claimed.
THEOREM BufferIsBounded == Spec => []BoundedBuffer
  <1>1. Init => BufferInv
    BY BoundsAssumption DEF Init, BufferInv, BoundedBuffer
  <1>2. Inv /\ BufferInv /\ [Next]_vars => BufferInv'
    <2> SUFFICES ASSUME Inv, BufferInv, [Next]_vars PROVE BufferInv'
      OBVIOUS
    <2>1. CASE Parse
      BY <2>1, ParseKeepsBuffer
    <2>2. CASE \E n \in 0 .. (StreamEnd - fed) : Feed(n)
      BY <2>2 DEF Feed, BufferInv, BoundedBuffer
    <2>3. CASE NextCapsule \/ Finalize
      BY <2>3 DEF NextCapsule, Finalize, parserVars, BufferInv, BoundedBuffer
    <2>4. CASE (\E k \in Kinds : Write(k)) \/ UNCHANGED vars
      BY <2>4 DEF Write, vars, BufferInv, BoundedBuffer, Window
    <2> QED
      BY <2>1, <2>2, <2>3, <2>4 DEF Next
  <1>3. BufferInv => BoundedBuffer
    BY DEF BufferInv
  <1> QED
    BY <1>1, <1>2, <1>3, AlwaysInv, PTL DEF Spec
-----------------------------------------------------------------------------
(* What calls return, and the stream of capsules that the parser implements. *)

\* The error try_parse returns at a frame it refuses.
ErrorAt(f) ==
  IF f.end - f.value <= UsizeMax /\ f.end - f.start > UsizeMax
  THEN "LengthOverflow" ELSE "LengthTooLarge"

\* After a refusal the parser stands at the refused frame, whose header has
\* arrived, and what it said is what it will say again.
StandsAtRefused ==
  last \in LengthErrors =>
    /\ skip_remaining = 0
    /\ parsed + 1 \in 1 .. Len(stream)
    /\ Refusable(stream[parsed + 1])
    /\ stream[parsed + 1].value <= fed
    /\ last = ErrorAt(stream[parsed + 1])

\* Between two calls, a parser that is skipping has nothing left to look at.
SkipsEverything ==
  pc # "parsing" /\ skip_remaining > 0 => Window = 0

RefinementInv ==
  /\ Inv
  /\ StandsAtRefused
  /\ SkipsEverything
  /\ FinalizeExact
-----------------------------------------------------------------------------
\* A frame is refused exactly when its header says so.
LEMMA RefusableHeader ==
  ASSUME Inv, NEW h \in HeadersAt(Cursor), HeaderRead(h)
  PROVE  LET f == stream[parsed + 1] IN
         /\ Refusable(f) <=> ~Addressable(h) \/ (h.datagram /\ h.length > MaxCapsuleLength)
         /\ ErrorAt(f) = IF h.length <= UsizeMax /\ ~Addressable(h)
                         THEN "LengthOverflow" ELSE "LengthTooLarge"
         /\ f.value <= fed
         /\ f.datagram = h.datagram
  <1> DEFINE f == stream[parsed + 1]
  <1>1. /\ h \in Shape /\ h.header >= 2 /\ Window >= h.header
        /\ parsed + 1 \in 1 .. Len(stream)
        /\ h = ShapeOf(f)
        /\ f.value = Cursor + h.header /\ f.start = Cursor
    BY ReadHeader
  <1>2. f \in FrameType
    BY <1>1 DEF Inv, TypeOK
  <1>3. h.length = f.end - f.value /\ h.header = f.value - f.start /\ h.datagram = f.datagram
    BY <1>1 DEF ShapeOf
  <1>4. f.end - f.start = h.header + h.length
    BY <1>2, <1>3 DEF FrameType
  <1>5. f.end - f.start > UsizeMax <=> ~Addressable(h)
    BY <1>1, <1>4, BoundsAssumption DEF Addressable, Shape
  <1>6. f.value <= fed
    BY <1>1 DEF Inv, TypeOK, Synchronised, Cursor, Window, Shape
  <1>7. Refusable(f) <=> ~Addressable(h) \/ (h.datagram /\ h.length > MaxCapsuleLength)
    BY <1>3, <1>5 DEF Refusable
  <1>8. ErrorAt(f) = IF h.length <= UsizeMax /\ ~Addressable(h)
                     THEN "LengthOverflow" ELSE "LengthTooLarge"
    BY <1>3, <1>5 DEF ErrorAt
  <1> QED
    BY <1>3, <1>6, <1>7, <1>8

\* A parser that has refused can only decode the refused frame again.
LEMMA RefusedWindow ==
  ASSUME Inv, StandsAtRefused, last \in LengthErrors, pc = "parsing"
  PROVE  /\ skip_remaining = 0
         /\ Window > 0
         /\ \A h \in HeadersAt(Cursor) : HeaderRead(h)
  <1> DEFINE f == stream[parsed + 1]
  <1>1. /\ skip_remaining = 0 /\ parsed + 1 \in 1 .. Len(stream) /\ f.value <= fed
    BY DEF StandsAtRefused
  <1>2. parsed \in Nat /\ f \in FrameType
    BY <1>1 DEF Inv, TypeOK
  <1>3. Cursor = EndOf(parsed) /\ f.start = EndOf(parsed) /\ f.start + 2 <= f.value
    BY <1>1, <1>2, EndOfType DEF Inv, Synchronised, Contiguous, TypeOK, Cursor
  <1>4. Window = fed - Cursor /\ Window \in Nat /\ fed \in Nat
    BY DEF Inv, TypeOK, Synchronised, Window, Cursor
  <1>5. Window > 0
    BY <1>1, <1>2, <1>3, <1>4 DEF FrameType
  <1>6. ASSUME NEW h \in HeadersAt(Cursor) PROVE HeaderRead(h)
    <2>1. h = ShapeOf(f)
      BY <1>1, <1>5, HeaderAtCursor
    <2>2. h.header = f.value - f.start
      BY <2>1 DEF ShapeOf
    <2> QED
      BY <1>1, <1>2, <1>3, <1>4, <2>2 DEF HeaderRead, FrameType
  <1> QED
    BY <1>1, <1>5, <1>6

\* Refused once, refused for good: every step of a call that follows either
\* refuses again or cannot happen.
LEMMA RefusedStep ==
  ASSUME Inv, StandsAtRefused, last \in LengthErrors, Parse
  PROVE  /\ pc' = "idle" /\ last' = last
         /\ UNCHANGED <<stream, fed, parserVars, parsed, out>>
  <1> DEFINE f == stream[parsed + 1]
  <1>1. pc = "parsing"
    BY DEF Parse, Decode, DrainSkip, EmptyWindow, IncompleteHeader, RejectUnaddressable,
           SkipWhole, SkipPartial, RejectTooLong, AwaitValue, Emit, HeaderRead
  <1>2. skip_remaining = 0 /\ Window > 0 /\ \A h \in HeadersAt(Cursor) : HeaderRead(h)
    BY <1>1, RefusedWindow
  <1>3. Window \in Int
    BY DEF Inv, TypeOK, Window
  <1>4. ~DrainSkip /\ ~EmptyWindow
    BY <1>2, <1>3 DEF DrainSkip, EmptyWindow
  <1>5. PICK h \in HeadersAt(Cursor) : Decode(h)
    BY <1>4 DEF Parse
  <1>6. /\ Refusable(f) <=> ~Addressable(h) \/ (h.datagram /\ h.length > MaxCapsuleLength)
        /\ ErrorAt(f) = IF h.length <= UsizeMax /\ ~Addressable(h)
                        THEN "LengthOverflow" ELSE "LengthTooLarge"
        /\ h \in Shape
    BY <1>2, <1>5, RefusableHeader, ReadHeader
  <1>7. Refusable(f) /\ last = ErrorAt(f)
    BY DEF StandsAtRefused
  <1>8. h.length > MaxCapsuleLength <=> ~(h.length <= MaxCapsuleLength)
    BY <1>6, BoundsAssumption DEF Shape
  <1>9. ~IncompleteHeader(h)
    BY <1>2, <1>3, <1>5, <1>6 DEF IncompleteHeader, HeaderRead, Shape
  <1>10. RejectUnaddressable(h) \/ RejectTooLong(h)
    BY <1>5, <1>6, <1>7, <1>8, <1>9 DEF Decode, SkipWhole, SkipPartial, AwaitValue, Emit
  <1>11. CASE RejectUnaddressable(h)
    <2>1. h.length > UsizeMax <=> ~(h.length <= UsizeMax)
      BY <1>6, BoundsAssumption DEF Shape
    <2> QED
      BY <1>6, <1>7, <1>11, <2>1 DEF RejectUnaddressable, Return
  <1>12. CASE RejectTooLong(h)
    BY <1>6, <1>7, <1>12 DEF RejectTooLong, Return
  <1> QED
    BY <1>10, <1>11, <1>12
-----------------------------------------------------------------------------
\* A first refusal is at a frame over the limit or beyond usize.
LEMMA FirstRefusal ==
  ASSUME Inv, NEW h \in HeadersAt(Cursor), RejectUnaddressable(h) \/ RejectTooLong(h)
  PROVE  /\ Refusable(stream[parsed + 1])
         /\ parsed + 1 \in 1 .. Len(stream)
         /\ stream[parsed + 1].value <= fed
         /\ skip_remaining = 0
         /\ last' = ErrorAt(stream[parsed + 1])
         /\ pc' = "idle"
         /\ UNCHANGED <<stream, fed, parserVars, parsed, out>>
  <1> DEFINE f == stream[parsed + 1]
  <1>1. HeaderRead(h)
    BY DEF RejectUnaddressable, RejectTooLong
  <1>2. h \in Shape /\ parsed + 1 \in 1 .. Len(stream) /\ skip_remaining = 0
    BY <1>1, ReadHeader
  <1>3. /\ Refusable(f) <=> ~Addressable(h) \/ (h.datagram /\ h.length > MaxCapsuleLength)
        /\ ErrorAt(f) = IF h.length <= UsizeMax /\ ~Addressable(h)
                        THEN "LengthOverflow" ELSE "LengthTooLarge"
        /\ f.value <= fed
    BY <1>1, RefusableHeader
  <1>4. h.length > UsizeMax <=> ~(h.length <= UsizeMax)
    BY <1>2, BoundsAssumption DEF Shape
  <1>5. CASE RejectUnaddressable(h)
    BY <1>2, <1>3, <1>4, <1>5 DEF RejectUnaddressable, Return
  <1>6. CASE RejectTooLong(h)
    BY <1>2, <1>3, <1>6 DEF RejectTooLong, Return
  <1> QED
    BY <1>5, <1>6

LEMMA StandsStep == Inv /\ StandsAtRefused /\ [Next]_vars => StandsAtRefused'
  <1> SUFFICES ASSUME Inv, StandsAtRefused, [Next]_vars, last' \in LengthErrors
               PROVE  StandsAtRefused'
    BY DEF StandsAtRefused
  <1>1. ASSUME NEW k \in Kinds, Write(k) PROVE StandsAtRefused'
    <2>1. /\ last' = last /\ parsed' = parsed /\ fed' = fed
          /\ skip_remaining' = skip_remaining
      BY <1>1 DEF Write
    <2>2. parsed + 1 \in 1 .. Len(stream)
      BY <2>1 DEF StandsAtRefused
    <2>3. stream'[parsed + 1] = stream[parsed + 1] /\ parsed + 1 \in 1 .. Len(stream')
      BY <1>1, <2>2, WriteAppends DEF Inv
    <2> QED
      BY <2>1, <2>3 DEF StandsAtRefused, Refusable, ErrorAt
  <1>2. ASSUME NEW n \in 0 .. (StreamEnd - fed), Feed(n) PROVE StandsAtRefused'
    <2>1. /\ last' = last /\ parsed' = parsed /\ fed' = fed + n /\ stream' = stream
          /\ skip_remaining' = skip_remaining
      BY <1>2 DEF Feed
    <2>2. stream[parsed + 1] \in FrameType
      BY <2>1 DEF StandsAtRefused, Inv, TypeOK
    <2>3. n \in Nat /\ fed \in Nat
      BY EndOfType DEF Inv, TypeOK, StreamEnd
    <2> QED
      BY <2>1, <2>2, <2>3 DEF StandsAtRefused, Refusable, ErrorAt, FrameType
  <1>3. CASE Parse
    <2>1. CASE last \in LengthErrors
      BY <1>3, <2>1, RefusedStep DEF StandsAtRefused, Refusable, ErrorAt, parserVars
    <2>2. CASE last \notin LengthErrors
      <3>1. PICK h \in HeadersAt(Cursor) : RejectUnaddressable(h) \/ RejectTooLong(h)
        BY <1>3, <2>2 DEF Parse, Decode, DrainSkip, EmptyWindow, IncompleteHeader,
           SkipWhole, SkipPartial, AwaitValue, Emit, Return, Loop, LengthErrors
      <3> QED
        BY <3>1, FirstRefusal DEF StandsAtRefused, Refusable, ErrorAt, parserVars
    <2> QED
      BY <2>1, <2>2
  <1>4. CASE NextCapsule \/ UNCHANGED vars
    BY <1>4 DEF NextCapsule, vars, StandsAtRefused, Refusable, ErrorAt
  <1>5. CASE Finalize
    BY <1>5 DEF Finalize, LengthErrors
  <1> QED
    BY <1>1, <1>2, <1>3, <1>4, <1>5 DEF Next

LEMMA SkipsStep == Inv /\ SkipsEverything /\ [Next]_vars => SkipsEverything'
  <1> SUFFICES ASSUME Inv, SkipsEverything, [Next]_vars, pc' # "parsing",
                      skip_remaining' > 0
               PROVE  Window' = 0
    BY DEF SkipsEverything
  <1>1. /\ Window \in Nat /\ skip_remaining \in Nat
    BY DEF Inv, TypeOK, Synchronised, Window
  <1>2. CASE DrainSkip
    <2>1. Window < skip_remaining /\ Consume(Window) /\ fed' = fed
      BY <1>1, <1>2 DEF DrainSkip, Loop
    <2> QED
      BY <1>1, <2>1, ConsumeMovesCursor DEF Inv
  <1>3. ASSUME NEW h \in HeadersAt(Cursor), SkipPartial(h) PROVE Window' = 0
    <2>1. Consume(Window) /\ fed' = fed
      BY <1>3 DEF SkipPartial
    <2> QED
      BY <1>1, <2>1, ConsumeMovesCursor DEF Inv
  <1>4. CASE \E k \in Kinds : Write(k)
    BY <1>4 DEF Write, SkipsEverything, Window
  <1>5. CASE Finalize \/ UNCHANGED vars
    BY <1>5 DEF Finalize, vars, parserVars, SkipsEverything, Window
  <1>6. CASE EmptyWindow
    BY <1>1, <1>6 DEF EmptyWindow
  <1>7. ASSUME NEW h \in HeadersAt(Cursor), Decode(h), ~SkipPartial(h) PROVE FALSE
    BY <1>1, <1>7 DEF Decode, IncompleteHeader, RejectUnaddressable, SkipWhole,
       RejectTooLong, AwaitValue, Emit, HeaderRead, parserVars
  <1>8. CASE NextCapsule \/ \E n \in 0 .. (StreamEnd - fed) : Feed(n)
    BY <1>8 DEF NextCapsule, Feed
  <1> QED
    BY <1>2, <1>3, <1>4, <1>5, <1>6, <1>7, <1>8 DEF Next, Parse

\* finalize's own test is the exact one: nothing unread and nothing to skip
\* means that the last frame ends where the bytes fed so far end.
LEMMA FinalizeTest ==
  ASSUME Inv, SkipsEverything, pc = "idle"
  PROVE  (start >= buf /\ skip_remaining = 0) <=> fed = EndOf(parsed)
  <1>1. EndOf(parsed) \in Nat
    BY EndOfType DEF Inv, TypeOK, Synchronised
  <1> QED
    BY <1>1 DEF Inv, TypeOK, Synchronised, SkipsEverything, Cursor, Window

LEMMA FinalizeStep ==
  Inv /\ SkipsEverything /\ FinalizeExact /\ [Next]_vars => FinalizeExact'
  <1> SUFFICES ASSUME Inv, SkipsEverything, FinalizeExact, [Next]_vars,
                      pc' = "finalized"
               PROVE  last' = "ok" <=> fed' = EndOf(parsed)'
    BY DEF FinalizeExact
  <1>1. CASE Finalize
    <2>1. pc = "idle" /\ fed' = fed /\ EndOf(parsed)' = EndOf(parsed)
      BY <1>1 DEF Finalize, EndOf
    <2> QED
      BY <1>1, <2>1, FinalizeTest DEF Finalize
  <1>2. ASSUME NEW k \in Kinds, Write(k) PROVE last' = "ok" <=> fed' = EndOf(parsed)'
    <2>1. parsed \in 0 .. Len(stream) /\ UNCHANGED <<pc, last, fed, parsed>>
      BY <1>2 DEF Write, Inv, TypeOK, Synchronised
    <2>2. EndOf(parsed)' = EndOf(parsed)
      BY <1>2, <2>1, WriteAppends DEF Inv
    <2> QED
      BY <2>1, <2>2 DEF FinalizeExact
  <1>3. CASE UNCHANGED vars
    BY <1>3 DEF vars, FinalizeExact, EndOf
  <1>4. CASE NextCapsule \/ \E n \in 0 .. (StreamEnd - fed) : Feed(n)
    BY <1>4 DEF NextCapsule, Feed
  <1>5. CASE Parse
    BY <1>5 DEF Parse, Decode, DrainSkip, EmptyWindow, IncompleteHeader, HeaderRead,
       RejectUnaddressable, SkipWhole, SkipPartial, RejectTooLong, AwaitValue, Emit,
       Return, Loop
  <1> QED
    BY <1>1, <1>2, <1>3, <1>4, <1>5 DEF Next

LEMMA AlwaysRefinementInv == Spec => []RefinementInv
  <1>1. Init => StandsAtRefused /\ SkipsEverything /\ FinalizeExact
    BY DEF Init, StandsAtRefused, SkipsEverything, FinalizeExact, LengthErrors
  <1>2. Init => RefinementInv
    BY <1>1, InitInv DEF RefinementInv
  <1>3. RefinementInv /\ [Next]_vars => RefinementInv'
    BY StepInv, StandsStep, SkipsStep, FinalizeStep DEF RefinementInv
  <1> QED
    BY <1>2, <1>3, PTL DEF Spec
-----------------------------------------------------------------------------
(* Consequences.                                                            *)

\* finalize(self) is Ok exactly on a frame boundary with everything handled.
THEOREM FinalizeIsExact == Spec => []FinalizeExact
  <1>1. RefinementInv => FinalizeExact
    BY DEF RefinementInv
  <1> QED
    BY <1>1, AlwaysRefinementInv, PTL

\* try_parse refuses only the next frame, once its header is in and every frame
\* before it was handled, and with the error of its cause: a known value over
\* the limit, or a capsule of any type whose length or end usize cannot hold.
THEOREM RefusalsHaveCauses == Spec => []RefusesForCause
  <1>1. RefinementInv => RefusesForCause
    <2> SUFFICES ASSUME RefinementInv, last \in LengthErrors
                 PROVE  RefusesForCause
      BY DEF RefusesForCause
    <2> DEFINE f == stream[parsed + 1]
    <2>1. /\ parsed + 1 \in 1 .. Len(stream) /\ f.value <= fed /\ Refusable(f)
          /\ last = ErrorAt(f)
      BY DEF RefinementInv, StandsAtRefused
    <2>2. parsed < Len(stream)
      BY <2>1 DEF RefinementInv, Inv, TypeOK
    <2>3. last = "LengthOverflow" <=> f.end - f.value <= UsizeMax /\ f.end - f.start > UsizeMax
      BY <2>1 DEF ErrorAt
    <2> QED
      BY <2>1, <2>2, <2>3 DEF RefusesForCause
  <1> QED
    BY <1>1, AlwaysRefinementInv, PTL

\* A refused parser is not closed: finalize finds the refused frame unread.
LEMMA RefusedFinalize ==
  ASSUME RefinementInv, last \in LengthErrors, Finalize
  PROVE  last' = "Truncated"
  <1> DEFINE f == stream[parsed + 1]
  <1>1. /\ parsed + 1 \in 1 .. Len(stream) /\ f.value <= fed
    BY DEF RefinementInv, StandsAtRefused
  <1>2. parsed \in 0 .. Len(stream) /\ parsed \in Nat /\ f \in FrameType /\ fed \in Nat
    BY <1>1 DEF RefinementInv, Inv, TypeOK
  <1>3. EndOf(parsed) \in Nat /\ f.start = EndOf(parsed) /\ f.start + 2 <= f.value
    BY <1>1, <1>2, EndOfType DEF RefinementInv, Inv, Contiguous
  <1>4. fed # EndOf(parsed)
    BY <1>1, <1>2, <1>3 DEF FrameType
  <1> QED
    BY <1>4, FinalizeTest DEF Finalize, RefinementInv

LEMMA StaysRefusedStep == RefinementInv /\ [Next]_vars => StaysRefused \/ UNCHANGED vars
  <1> SUFFICES ASSUME RefinementInv, [Next]_vars, last \in LengthErrors, ~UNCHANGED vars
               PROVE  UNCHANGED <<out, parsed>> /\ last' \in {last, "Truncated"}
    BY DEF StaysRefused
  <1>1. CASE Parse
    BY <1>1, RefusedStep DEF RefinementInv
  <1>2. CASE Finalize
    BY <1>2, RefusedFinalize DEF Finalize
  <1>3. CASE NextCapsule
    BY <1>3 DEF NextCapsule
  <1>4. CASE (\E k \in Kinds : Write(k)) \/ \E n \in 0 .. (StreamEnd - fed) : Feed(n)
    BY <1>4 DEF Write, Feed
  <1> QED
    BY <1>1, <1>2, <1>3, <1>4 DEF Next

\* After a refusal nothing more is handed out, and the parser never again says
\* that it merely needs more bytes.
THEOREM RefusalIsFinal == Spec => RefusalIsSticky
  <1>1. RefinementInv /\ [Next]_vars => [StaysRefused]_vars
    BY StaysRefusedStep
  <1> QED
    BY <1>1, AlwaysRefinementInv, PTL DEF Spec, RefusalIsSticky
-----------------------------------------------------------------------------
(* The refinement.                                                          *)

LEMMA VerdictOpen ==
  ASSUME pc # "finalized", last \notin LengthErrors
  PROVE  Verdict = "open"
  BY DEF Verdict

LEMMA SameVerdict ==
  ASSUME UNCHANGED <<pc, last>> \/
         (pc # "finalized" /\ pc' # "finalized" /\
          (last' = last \/ (last \notin LengthErrors /\ last' \notin LengthErrors)))
  PROVE  Verdict' = Verdict
  BY DEF Verdict

\* The two modules describe frames and their ends in the same words.
LEMMA SameFrames ==
  /\ \A n : Abstract!EndOf(n) = EndOf(n)
  /\ \A f : Abstract!Refusable(f) <=> Refusable(f)
  /\ \A k, at : Abstract!Frame(k, at) = Frame(k, at)
  BY DEF Abstract!EndOf, EndOf, Abstract!Refusable, Refusable, Abstract!Frame, Frame

LEMMA InitRefines == Init => Abstract!Init
  BY DEF Init, Abstract!Init, Verdict, LengthErrors

\* Passing a frame is Take: its bytes have arrived as far as Take asks.
LEMMA PassingIsTake ==
  ASSUME RefinementInv, NEW h \in HeadersAt(Cursor), SkipWhole(h) \/ SkipPartial(h) \/ Emit(h)
  PROVE  Abstract!Take
  <1> DEFINE f == stream[parsed + 1]
  <1>1. HeaderRead(h) /\ Addressable(h) /\ pc = "parsing"
    BY DEF SkipWhole, SkipPartial, Emit, HeaderRead
  <1>2. /\ h \in Shape /\ parsed + 1 \in 1 .. Len(stream) /\ Cursor \in Nat
        /\ Window \in Nat /\ Window >= h.header
        /\ h = ShapeOf(f) /\ f.value = Cursor + h.header
        /\ EndOf(parsed + 1) = Cursor + h.header + h.length
    BY <1>1, ReadHeader DEF RefinementInv
  <1>3. f.datagram = h.datagram /\ f.value <= fed
        /\ (Refusable(f) <=> ~Addressable(h) \/ (h.datagram /\ h.length > MaxCapsuleLength))
    BY <1>1, RefusableHeader DEF RefinementInv
  <1>4. parsed \in Nat /\ Len(stream) \in Nat /\ parsed < Len(stream) /\ fed \in Nat
        /\ f \in FrameType
    BY <1>2 DEF RefinementInv, Inv, TypeOK
  <1>5. f.end = Cursor + h.header + h.length
    BY <1>2, <1>4 DEF EndOf
  <1>6. h.length > MaxCapsuleLength <=> ~(h.length <= MaxCapsuleLength)
    BY <1>2, BoundsAssumption DEF Shape
  <1>7. ~Refusable(f)
    BY <1>1, <1>3, <1>6 DEF SkipWhole, SkipPartial, Emit
  <1>8. last \notin LengthErrors
    BY <1>7 DEF RefinementInv, StandsAtRefused
  <1>9. Verdict = "open" /\ Verdict' = "open"
    BY <1>1, <1>8, VerdictOpen
       DEF SkipWhole, SkipPartial, Emit, Return, Loop, Verdict, LengthErrors
  <1>10. parsed' = parsed + 1 /\ UNCHANGED <<stream, fed>>
    BY DEF SkipWhole, SkipPartial, Emit
  <1>11. CASE f.datagram
    <2>1. Emit(h)
      BY <1>3, <1>11 DEF SkipWhole, SkipPartial
    <2>2. Window = fed - Cursor
      BY <1>4 DEF Window, Cursor, RefinementInv, Inv, TypeOK
    <2>3. f.end <= fed
      BY <1>2, <1>4, <1>5, <2>1, <2>2 DEF Emit, Shape
    <2>4. out' = Append(out, [from |-> f.value, to |-> f.end])
      BY <1>2, <1>5, <2>1 DEF Emit
    <2> QED
      BY <1>4, <1>7, <1>9, <1>10, <1>11, <2>3, <2>4, SameFrames DEF Abstract!Take, FrameType
  <1>12. CASE ~f.datagram
    <2>1. out' = out
      BY <1>3, <1>12 DEF SkipWhole, SkipPartial, Emit
    <2> QED
      BY <1>3, <1>4, <1>7, <1>9, <1>10, <1>12, <2>1, SameFrames DEF Abstract!Take, FrameType
  <1> QED
    BY <1>11, <1>12

\* A refusal is Reject the first time and a stutter every time after.
LEMMA RefusingIsReject ==
  ASSUME RefinementInv, NEW h \in HeadersAt(Cursor), RejectUnaddressable(h) \/ RejectTooLong(h)
  PROVE  Abstract!Reject \/ UNCHANGED Abstract!vars
  <1> DEFINE f == stream[parsed + 1]
  <1>1. /\ Refusable(f) /\ parsed + 1 \in 1 .. Len(stream) /\ f.value <= fed
        /\ last' = ErrorAt(f) /\ pc' = "idle" /\ pc = "parsing"
        /\ UNCHANGED <<stream, fed, parsed, out>>
    BY FirstRefusal DEF RefinementInv, RejectUnaddressable, RejectTooLong, HeaderRead
  <1>2. last' \in LengthErrors
    BY <1>1 DEF ErrorAt, LengthErrors
  <1>3. Verdict' = "rejected"
    BY <1>1, <1>2 DEF Verdict
  <1>4. CASE last \in LengthErrors
    <2>1. Verdict = "rejected"
      BY <1>1, <1>4 DEF Verdict
    <2> QED
      BY <1>1, <1>3, <2>1 DEF Abstract!vars
  <1>5. CASE last \notin LengthErrors
    <2>1. Verdict = "open"
      BY <1>1, <1>5 DEF Verdict
    <2>2. /\ parsed \in Nat /\ Len(stream) \in Nat /\ parsed < Len(stream) /\ fed \in Nat
          /\ f \in FrameType
      BY <1>1 DEF RefinementInv, Inv, TypeOK
    <2> QED
      BY <1>1, <1>3, <2>1, <2>2, SameFrames DEF Abstract!Reject, FrameType
  <1> QED
    BY <1>4, <1>5

LEMMA StepRefines == RefinementInv /\ [Next]_vars => [Abstract!Next]_(Abstract!vars)
  <1> SUFFICES ASSUME RefinementInv, [Next]_vars
               PROVE  Abstract!Next \/ UNCHANGED Abstract!vars
    OBVIOUS
  <1>1. ASSUME NEW k \in Kinds, Write(k) PROVE Abstract!Next
    <2>1. Verdict' = Verdict
      BY <1>1, SameVerdict DEF Write
    <2>2. Abstract!Write(k)
      BY <1>1, <2>1, SameFrames DEF Write, Abstract!Write, StreamEnd
    <2> QED
      BY <2>2 DEF Abstract!Next
  <1>2. ASSUME NEW n \in 0 .. (StreamEnd - fed), Feed(n) PROVE Abstract!Next
    <2>1. Verdict' = Verdict /\ Verdict \in {"open", "rejected"}
      BY <1>2 DEF Feed, Verdict
    <2>2. Abstract!Arrive
      BY <1>2, <2>1, SameFrames DEF Feed, Abstract!Arrive, Abstract!Closed, StreamEnd
    <2> QED
      BY <2>2 DEF Abstract!Next
  <1>3. CASE NextCapsule
    BY <1>3, SameVerdict DEF NextCapsule, Abstract!vars
  <1>4. CASE DrainSkip \/ EmptyWindow \/ \E h \in HeadersAt(Cursor) :
                IncompleteHeader(h) \/ AwaitValue(h)
    <2>1. pc = "parsing" /\ pc' # "finalized" /\ (last' = last \/ last' = "none")
          /\ UNCHANGED <<stream, fed, parsed, out>>
      BY <1>4 DEF DrainSkip, EmptyWindow, IncompleteHeader, AwaitValue, HeaderRead, Return, Loop
    <2>2. last \in LengthErrors => last' = last
      BY <1>4, RefusedStep DEF RefinementInv, Parse, Decode
    <2>3. Verdict' = Verdict
      BY <2>1, <2>2 DEF Verdict, LengthErrors
    <2> QED
      BY <2>1, <2>3 DEF Abstract!vars
  <1>5. ASSUME NEW h \in HeadersAt(Cursor), SkipWhole(h) \/ SkipPartial(h) \/ Emit(h)
        PROVE  Abstract!Next
    BY <1>5, PassingIsTake DEF Abstract!Next
  <1>6. ASSUME NEW h \in HeadersAt(Cursor), RejectUnaddressable(h) \/ RejectTooLong(h)
        PROVE  Abstract!Next \/ UNCHANGED Abstract!vars
    BY <1>6, RefusingIsReject DEF Abstract!Next
  <1>7. CASE Finalize
    <2>1. Verdict \in {"open", "rejected"} /\ pc = "idle" /\ pc' = "finalized"
          /\ UNCHANGED <<stream, fed, parsed, out>>
      BY <1>7 DEF Finalize, Verdict
    <2>2. last' = "ok" <=> fed = EndOf(parsed)
      BY <1>7, <2>1, FinalizeTest DEF Finalize, RefinementInv
    <2>3. Verdict' = IF fed = EndOf(parsed) THEN "ok" ELSE "truncated"
      BY <2>1, <2>2 DEF Verdict
    <2>4. Abstract!Finish
      BY <2>1, <2>3, SameFrames DEF Abstract!Finish, Abstract!Closed
    <2> QED
      BY <2>4 DEF Abstract!Next
  <1>8. CASE UNCHANGED vars
    BY <1>8, SameVerdict DEF vars, Abstract!vars
  <1> QED
    BY <1>1, <1>2, <1>3, <1>4, <1>5, <1>6, <1>7, <1>8 DEF Next, Parse, Decode

\* The parser implements CapsuleStream: hidden behind buffer, read position and
\* skip counter, it is a reader that takes the frames in order.
THEOREM ImplementsCapsuleStream == Spec => AbstractSpec
  <1> QED
    BY InitRefines, StepRefines, AlwaysRefinementInv, PTL DEF Spec, AbstractSpec, Abstract!Spec
=============================================================================
