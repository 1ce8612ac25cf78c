----------------------------- MODULE CodecProofs -----------------------------
(***************************************************************************)
(* Proofs about the codecs and CodecStream, for bytes of any width, any      *)
(* types, values and stream ids, and streams of any length: what is written  *)
(* is read back, an error says "incomplete" exactly when bytes are missing,  *)
(* and errors that are equal are alike.                                      *)
(***************************************************************************)
EXTENDS CodecStream, SequenceTheorems, WellFoundedInduction, TLAPS

(* Induction over the naturals, as a set that holds 0 and every successor.   *)

LEMMA Least ==
  ASSUME NEW T, T \subseteq Nat, T # {}
  PROVE  \E n \in T : \A m \in T : ~(m < n)
  <1>1. IsWellFoundedOn(OpToRel(<, Nat), Nat)
    BY NatLessThanWellFounded
  <1>2. PICK n \in T : \A m \in T : ~(<<m, n>> \in OpToRel(<, Nat))
    BY <1>1, WFMin, Zenon
  <1>3. \A m \in T : m < n => <<m, n>> \in OpToRel(<, Nat)
    BY DEF OpToRel
  <1> QED
    BY <1>2, <1>3

LEMMA Induct ==
  ASSUME NEW S, 0 \in S, \A n \in Nat : n \in S => n + 1 \in S
  PROVE  \A n \in Nat : n \in S
  <1> SUFFICES ASSUME Nat \ S # {} PROVE FALSE
    OBVIOUS
  <1>1. PICK n \in Nat \ S : \A m \in Nat \ S : ~(m < n)
    BY Least
  <1>2. n - 1 \in Nat /\ n - 1 < n
    BY <1>1
  <1> QED
    BY <1>1, <1>2
-----------------------------------------------------------------------------
(* Arithmetic.                                                              *)

LEMMA Division ==
  ASSUME NEW n \in Nat, NEW a \in Nat \ {0}
  PROVE  /\ n \div a \in Nat /\ (n % a) \in 0 .. a - 1
         /\ n = a * (n \div a) + (n % a)
  OBVIOUS

LEMMA DivisionIs ==
  ASSUME NEW n \in Nat, NEW a \in Nat \ {0}, NEW q \in Nat, NEW r \in 0 .. a - 1, n = a * q + r
  PROVE  n \div a = q /\ n % a = r
  OBVIOUS

LEMMA DivDiv ==
  ASSUME NEW n \in Nat, NEW a \in Nat \ {0} , NEW b \in Nat \ {0}
  PROVE  (n \div a) \div b = n \div (a * b)
  OBVIOUS

LEMMA Products ==
  /\ \A a, b \in Nat : a * b \in Nat
  /\ \A a, b \in Nat \ {0} : a * b \in Nat \ {0}
  OBVIOUS

LEMMA BaseFacts ==
  /\ Quarter \in Nat \ {0, 1} /\ Base \in Nat \ {0} /\ Base = 4 * Quarter
  BY ByteAssumption DEF Base

LEMMA WeightIs == Weight = [k \in 0 .. 8 |-> IF k = 0 THEN 1 ELSE Base * Weight[k - 1]]
  <1>1. \E f : f = [k \in 0 .. 8 |-> IF k = 0 THEN 1 ELSE Base * f[k - 1]]
    <2>1. PICK a1, a2, a3, a4, a5, a6, a7, a8 :
             /\ a1 = Base * 1 /\ a2 = Base * a1 /\ a3 = Base * a2 /\ a4 = Base * a3
             /\ a5 = Base * a4 /\ a6 = Base * a5 /\ a7 = Base * a6 /\ a8 = Base * a7
      OBVIOUS
    <2> DEFINE f == [k \in 0 .. 8 |-> CASE k = 0 -> 1 [] k = 1 -> a1 [] k = 2 -> a2 [] k = 3 -> a3
                       [] k = 4 -> a4 [] k = 5 -> a5 [] k = 6 -> a6 [] k = 7 -> a7 [] k = 8 -> a8]
    <2>2. \A k \in 0 .. 8 : f[k] = IF k = 0 THEN 1 ELSE Base * f[k - 1]
      BY <2>1
    <2>3. f = [k \in 0 .. 8 |-> IF k = 0 THEN 1 ELSE Base * f[k - 1]]
      BY <2>2
    <2> QED
      BY <2>3
  <1> QED
    BY <1>1, Zenon DEF Weight

LEMMA WeightFacts ==
  /\ Weight[0] = 1
  /\ \A k \in 0 .. 8 : Weight[k] \in Nat \ {0}
  /\ \A k \in 0 .. 7 : Weight[k + 1] = Base * Weight[k]
  <1>1. Weight[0] = 1 /\ \A k \in 0 .. 7 : Weight[k + 1] = Base * Weight[k]
    BY WeightIs
  <1> DEFINE S == {k \in Nat : k <= 8 => Weight[k] \in Nat \ {0}}
  <1>2. 0 \in S
    BY <1>1
  <1>3. ASSUME NEW k \in Nat, k \in S PROVE k + 1 \in S
    <2> SUFFICES ASSUME k + 1 <= 8 PROVE Weight[k + 1] \in Nat \ {0}
      OBVIOUS
    <2>1. Weight[k] \in Nat \ {0} /\ Weight[k + 1] = Base * Weight[k]
      BY <1>1, <1>3
    <2> QED
      BY <2>1, BaseFacts, Products
  <1>4. \A k \in Nat : k \in S
    <2> HIDE DEF S
    <2> QED
      BY <1>2, <1>3, Induct
  <1> QED
    BY <1>1, <1>4
-----------------------------------------------------------------------------
(* QuicVarint.                                                              *)

LEMMA LengthFacts ==
  /\ \A len \in Lengths : len \in 1 .. 8 /\ Tag(len) \in 0 .. 3
  /\ Tag(1) = 0 /\ Tag(2) = 1 /\ Tag(4) = 2 /\ Tag(8) = 3
  BY DEF Lengths, Tag

LEMMA RoomFacts ==
  /\ \A len \in Lengths : Room(len) \in Nat \ {0} /\ Weight[len] = 4 * Room(len)
  /\ Room(1) = Quarter /\ Room(1) < Room(2) /\ Room(2) < Room(4) /\ Room(4) < Room(8)
  /\ MAX_VARINT \in Nat /\ MAX_VARINT = Room(8) - 1
  <1>1. ASSUME NEW len \in 1 .. 8
        PROVE  Room(len) \in Nat \ {0} /\ Weight[len] = 4 * Room(len)
    <2>1. Weight[len - 1] \in Nat \ {0} /\ Weight[len] = Base * Weight[len - 1]
      <3>1. len - 1 \in 0 .. 7 /\ (len - 1) + 1 = len
        OBVIOUS
      <3> QED
        BY <3>1, WeightFacts
    <2> QED
      BY <2>1, BaseFacts, Products DEF Room
  <1>2. ASSUME NEW len \in 1 .. 7 PROVE Room(len) < Room(len + 1)
    <2>1. Weight[len - 1] \in Nat \ {0} /\ Weight[len] = Base * Weight[len - 1]
      <3>1. len - 1 \in 0 .. 7 /\ (len - 1) + 1 = len
        OBVIOUS
      <3> QED
        BY <3>1, WeightFacts
    <2>2. Weight[len] > Weight[len - 1] /\ Weight[len] \in Nat
      BY <2>1, BaseFacts
    <2>3. Room(len) = Quarter * Weight[len - 1] /\ Room(len + 1) = Quarter * Weight[len]
      BY DEF Room
    <2> QED
      BY <2>1, <2>2, <2>3, BaseFacts
  <1>3. Room(1) = Quarter
    BY WeightFacts, BaseFacts DEF Room
  <1>4. /\ \A len \in 1 .. 8 : Room(len) \in Nat
        /\ Room(1) < Room(2) /\ Room(2) < Room(3) /\ Room(3) < Room(4) /\ Room(4) < Room(5)
        /\ Room(5) < Room(6) /\ Room(6) < Room(7) /\ Room(7) < Room(8)
    BY <1>1, <1>2
  <1>5. Room(1) < Room(2) /\ Room(2) < Room(4) /\ Room(4) < Room(8)
    <2>1. /\ Room(1) \in Nat /\ Room(2) \in Nat /\ Room(3) \in Nat /\ Room(4) \in Nat
          /\ Room(5) \in Nat /\ Room(6) \in Nat /\ Room(7) \in Nat /\ Room(8) \in Nat
      BY <1>4
    <2>2. Room(2) < Room(4)
      BY <1>4, <2>1
    <2>3. Room(4) < Room(8)
      BY <1>4, <2>1
    <2> QED
      BY <1>4, <2>2, <2>3
  <1>6. MAX_VARINT \in Nat /\ MAX_VARINT = Room(8) - 1
    BY <1>1 DEF MAX_VARINT
  <1>7. \A len \in Lengths : Room(len) \in Nat \ {0} /\ Weight[len] = 4 * Room(len)
    BY <1>1, LengthFacts
  <1> QED
    BY <1>3, <1>5, <1>6, <1>7

\* Reading the digits of a number gives the number.
LEMMA NumberOfDigits ==
  ASSUME NEW len \in 1 .. 8, NEW n \in 0 .. Weight[len] - 1
  PROVE  Number(BigEndian(n, len)) = n
  <1>b. PICK digits : digits = BigEndian(n, len)
    OBVIOUS
  <1>1. n \in Nat /\ Weight[len] \in Nat \ {0}
    BY WeightFacts
  <1>2. /\ digits \in Seq(Nat) /\ Len(digits) = len
        /\ \A i \in 1 .. len : digits[i] = (n \div Weight[len - i]) % Base
    <2>1. ASSUME NEW i \in 1 .. len PROVE (n \div Weight[len - i]) % Base \in Nat
      <3>1. len - i \in 0 .. 8
        OBVIOUS
      <3>2. Weight[len - i] \in Nat \ {0}
        BY <3>1, WeightFacts
      <3>3. n \div Weight[len - i] \in Nat
        BY <1>1, <3>2, Division
      <3> QED
        BY <3>3, BaseFacts, Division
    <2> QED
      BY <1>b, <2>1 DEF BigEndian
  <1>3. ASSUME NEW i \in 1 .. len
        PROVE  n \div Weight[len - i] = (n \div Weight[len - (i - 1)]) * Base + digits[i]
    <2>1. /\ len - i \in 0 .. 7 /\ len - (i - 1) = (len - i) + 1
      OBVIOUS
    <2>2. Weight[len - i] \in Nat \ {0} /\ Weight[len - (i - 1)] = Base * Weight[len - i]
      BY <2>1, WeightFacts
    <2>3. PICK w \in Nat \ {0} : w = Weight[len - i]
      BY <2>2
    <2>4. PICK m \in Nat : m = n \div w
      BY <1>1, Division
    <2>5. m \div Base = n \div (Base * w)
      <3>1. m \div Base = n \div (w * Base)
        BY <1>1, <2>4, BaseFacts, DivDiv
      <3> QED
        BY <3>1, BaseFacts
    <2>6. m = Base * (m \div Base) + (m % Base) /\ m \div Base \in Nat
      BY BaseFacts, Division
    <2>7. digits[i] = m % Base
      BY <1>2, <2>3, <2>4
    <2>8. m = (m \div Base) * Base + digits[i]
      BY <2>6, <2>7, BaseFacts
    <2> QED
      BY <2>2, <2>3, <2>4, <2>5, <2>8
  <1>4. n \div Weight[len] = 0
    BY <1>1
  <1>5. n \div Weight[0] = n
    BY <1>1, WeightFacts
  <1> DEFINE Eq(f) == f = [i \in 0 .. Len(digits) |-> IF i = 0 THEN 0 ELSE f[i - 1] * Base + digits[i]]
             g == [i \in 0 .. len |-> n \div Weight[len - i]]
  <1>6. Eq(g)
    <2>1. g[0] = 0
      BY <1>4
    <2>2. ASSUME NEW i \in 1 .. len PROVE g[i] = g[i - 1] * Base + digits[i]
      <3>1. i - 1 \in 0 .. len /\ i \in 0 .. len
        OBVIOUS
      <3> QED
        BY <1>3, <3>1
    <2>3. \A i \in 0 .. len : g[i] = IF i = 0 THEN 0 ELSE g[i - 1] * Base + digits[i]
      <3> HIDE DEF g
      <3>1. \A i \in 0 .. len : i = 0 \/ i \in 1 .. len
        OBVIOUS
      <3>2. \A i \in 1 .. len : i # 0
        OBVIOUS
      <3> QED
        BY <2>1, <2>2, <3>1, <3>2, Zenon
    <2> DEFINE h == [i \in 0 .. Len(digits) |-> IF i = 0 THEN 0 ELSE g[i - 1] * Base + digits[i]]
    <2>4. g = h
      <3>1. DOMAIN g = 0 .. len /\ DOMAIN h = 0 .. len
        BY <1>2
      <3>2. \A i \in 0 .. len : h[i] = IF i = 0 THEN 0 ELSE g[i - 1] * Base + digits[i]
        BY <1>2
      <3>3. \A i \in 0 .. len : g[i] = h[i]
        BY <2>3, <3>2
      <3>4. g = [i \in 0 .. len |-> g[i]] /\ h = [i \in 0 .. len |-> h[i]]
        BY <3>1
      <3> HIDE DEF g, h
      <3> QED
        BY <3>3, <3>4
    <2> QED
      BY <2>4
  <1>7. PICK f : Eq(f) /\ Number(digits) = f[Len(digits)]
    BY <1>6 DEF Number
  <1>8. f[0] = 0 /\ \A i \in 1 .. len : f[i] = f[i - 1] * Base + digits[i]
    BY <1>2, <1>7
  <1> DEFINE S == {i \in Nat : i <= len => f[i] = n \div Weight[len - i]}
  <1>9. 0 \in S
    BY <1>4, <1>8
  <1>10. ASSUME NEW i \in Nat, i \in S PROVE i + 1 \in S
    <2> SUFFICES ASSUME i + 1 <= len PROVE f[i + 1] = n \div Weight[len - (i + 1)]
      OBVIOUS
    <2>1. i + 1 \in 1 .. len /\ (i + 1) - 1 = i
      OBVIOUS
    <2>2. f[i + 1] = f[i] * Base + digits[i + 1]
      BY <1>8, <2>1
    <2>3. n \div Weight[len - (i + 1)] = (n \div Weight[len - i]) * Base + digits[i + 1]
      BY <1>3, <2>1
    <2> QED
      BY <1>10, <2>2, <2>3
  <1>11. len \in S
    <2> HIDE DEF S
    <2> QED
      BY <1>9, <1>10, Induct
  <1>12. f[len] = n
    BY <1>5, <1>11
  <1> QED
    BY <1>b, <1>2, <1>7, <1>12
-----------------------------------------------------------------------------
\* A form is a sequence of its length, its first byte tells the length, and
\* reading it gives back the value.
LEMMA FormFacts ==
  ASSUME NEW len \in 1 .. 8, len \in Lengths, NEW value \in 0 .. Room(len) - 1
  PROVE  /\ Form(value, len) \in Seq(Nat) /\ Len(Form(value, len)) = len
         /\ LengthOf(Form(value, len)[1]) = len
         /\ Number(Form(value, len)) % Room(len) = value
  <1>1. /\ len \in 1 .. 8 /\ Tag(len) \in 0 .. 3 /\ Room(len) \in Nat \ {0}
        /\ Weight[len] = 4 * Room(len)
    BY LengthFacts, RoomFacts
  <1>2. PICK n \in Nat : n = Tag(len) * Room(len) + value
    BY <1>1, Products
  <1>3. n \in 0 .. Weight[len] - 1
    <2>1. Tag(len) * Room(len) <= 3 * Room(len)
      BY <1>1
    <2> QED
      BY <1>1, <1>2, <2>1
  <1>4. PICK f : f = BigEndian(n, len) /\ f = Form(value, len)
    BY <1>2 DEF Form
  <1>5. /\ f \in Seq(Nat) /\ Len(f) = len
        /\ \A i \in 1 .. len : f[i] = (n \div Weight[len - i]) % Base
    <2>1. ASSUME NEW i \in 1 .. len PROVE (n \div Weight[len - i]) % Base \in Nat
      <3>1. len - i \in 0 .. 8
        BY <1>1
      <3>2. Weight[len - i] \in Nat \ {0}
        BY <3>1, WeightFacts
      <3>3. n \div Weight[len - i] \in Nat
        BY <3>2, Division
      <3> QED
        BY <3>3, BaseFacts, Division
    <2> QED
      BY <1>1, <1>4, <2>1 DEF BigEndian
  <1>6. LengthOf(f[1]) = len
    <2>1. PICK w \in Nat \ {0} : w = Weight[len - 1] /\ Weight[len] = Base * w
      <3>1. len - 1 \in 0 .. 7 /\ (len - 1) + 1 = len
        BY <1>1
      <3> QED
        BY <3>1, WeightFacts
    <2>2. n \div w \in 0 .. Base - 1
      <3>1. n < Base * w
        <4>1. Base * w \in Nat
          BY BaseFacts, Products
        <4> QED
          BY <1>3, <2>1, <4>1
      <3>2. PICK m \in Nat : m = n \div w /\ m * w <= n
        <4>1. /\ n \div w \in Nat /\ n % w \in 0 .. w - 1
              /\ n = w * (n \div w) + (n % w)
          BY Division
        <4>2. PICK m \in Nat, r \in Nat : m = n \div w /\ n = w * m + r
          BY <4>1
        <4>3. m * w <= n
          BY <4>2
        <4> QED
          BY <4>2, <4>3
      <3>3. ~(m >= Base)
        <4> SUFFICES ASSUME m >= Base PROVE FALSE
          OBVIOUS
        <4>1. m * w >= Base * w
          BY BaseFacts
        <4> QED
          BY <3>1, <3>2, <4>1, BaseFacts, Products
      <3> QED
        BY <3>2, <3>3, BaseFacts
    <2>3. f[1] = n \div w
      <3>1. f[1] = (n \div w) % Base
        BY <1>1, <1>5, <2>1
      <3> QED
        BY <2>2, <3>1, BaseFacts
    <2>4. Quarter \in Nat \ {0} /\ Room(len) = w * Quarter
      BY <2>1, BaseFacts DEF Room
    <2>5. f[1] \div Quarter = n \div Room(len)
      BY <2>3, <2>4, DivDiv, ZenonT(40)
    <2>6. n \div Room(len) = Tag(len)
      BY <1>1, <1>2, DivisionIs
    <2>7. \A l \in Lengths : Tag(l) = Tag(len) => l = len
      BY LengthFacts DEF Lengths
    <2> QED
      BY <2>5, <2>6, <2>7 DEF LengthOf
  <1>7. Number(f) = n
    BY <1>1, <1>3, <1>4, NumberOfDigits
  <1>8. n % Room(len) = value
    BY <1>1, <1>2, DivisionIs
  <1> QED
    BY <1>4, <1>5, <1>6, <1>7, <1>8

\* A part of a sequence, given by where it starts and ends.
LEMMA Slice ==
  ASSUME NEW s \in Seq(Nat), NEW a \in Nat, NEW b \in Nat, a <= b, b <= Len(s)
  PROVE  /\ SubSeq(s, a + 1, b) \in Seq(Nat) /\ Len(SubSeq(s, a + 1, b)) = b - a
         /\ \A i \in 1 .. b - a : SubSeq(s, a + 1, b)[i] = s[a + i]
  <1> DEFINE m == a + 1
  <1>1. m \in Int /\ b \in Int /\ \A i \in m .. b : s[i] \in Nat
    OBVIOUS
  <1>2. m = a + 1
    OBVIOUS
  <1> HIDE DEF m
  <1>3. /\ SubSeq(s, m, b) \in Seq(Nat)
        /\ Len(SubSeq(s, m, b)) = IF m <= b THEN b - m + 1 ELSE 0
        /\ \A i \in 1 .. b - m + 1 : SubSeq(s, m, b)[i] = s[m + i - 1]
    BY <1>1, SubSeqProperties
  <1>4. PICK r \in Seq(Nat) : r = SubSeq(s, m, b)
    BY <1>3
  <1>5. Len(r) = b - a
    BY <1>1, <1>2, <1>3, <1>4
  <1>6. ASSUME NEW i \in 1 .. b - a PROVE r[i] = s[a + i]
    <2>1. i \in 1 .. b - m + 1 /\ m + i - 1 = a + i
      BY <1>2
    <2> QED
      BY <1>3, <1>4, <2>1
  <1>7. r = SubSeq(s, a + 1, b)
    BY <1>2, <1>4
  <1> QED
    BY <1>5, <1>6, <1>7

LEMMA Prefix ==
  ASSUME NEW S, NEW s \in Seq(S), NEW n \in Nat, n <= Len(s)
  PROVE  /\ SubSeq(s, 1, n) \in Seq(S) /\ Len(SubSeq(s, 1, n)) = n
         /\ \A i \in 1 .. n : SubSeq(s, 1, n)[i] = s[i]
  <1>1. \A i \in 1 .. n : s[i] \in S
    OBVIOUS
  <1> QED
    BY <1>1, SubSeqProperties

\* A buffer holds at an offset what is there of a sequence.
Holds(buf, at, s) == \A i \in 1 .. Len(s) : at + i <= Len(buf) => buf[at + i] = s[i]

\* What reading an integer that is not all there says.
VarintErrors ==
  {InvalidVarInt("EmptyBuffer", <<"empty buffer">>),
   InvalidVarInt("OffsetOutOfBounds", <<"offset out of bounds">>),
   InvalidVarInt("BufferTooShort", <<"buffer too short">>)}

\* f holds n in len bytes.
IsForm(f, n, len) == len \in Lengths /\ n \in 0 .. Room(len) - 1 /\ f = Form(n, len)

LEMMA IsFormFacts ==
  ASSUME NEW f, NEW n, NEW len, IsForm(f, n, len)
  PROVE  /\ len \in 1 .. 8 /\ len \in Lengths /\ n \in Nat /\ n <= MAX_VARINT
         /\ f \in Seq(Nat) /\ Len(f) = len
         /\ LengthOf(f[1]) = len /\ Number(f) % Room(len) = n
  <1>1. len \in Lengths /\ n \in 0 .. Room(len) - 1 /\ f = Form(n, len)
    BY DEF IsForm
  <1>2. len \in 1 .. 8
    BY <1>1, LengthFacts
  <1>3. /\ f \in Seq(Nat) /\ Len(f) = len
        /\ LengthOf(f[1]) = len /\ Number(f) % Room(len) = n
    BY <1>1, <1>2, FormFacts, Zenon
  <1>4. PICK m \in Nat : m = Room(len) /\ m <= MAX_VARINT + 1
    BY <1>1, RoomFacts DEF Lengths
  <1>5. n \in Nat /\ n <= MAX_VARINT
    BY <1>1, <1>4, RoomFacts
  <1> QED
    BY <1>1, <1>2, <1>3, <1>5, Zenon

\* Decoding a form gives its value and its length, or an error that says that
\* bytes are missing when some are.
LEMMA DecodeForm ==
  ASSUME NEW buf \in Seq(Nat), NEW at \in Nat, NEW len \in 1 .. 8, NEW value \in Nat,
         NEW f \in Seq(Nat), IsForm(f, value, len), Holds(buf, at, f)
  PROVE  /\ Len(buf) < at + len => \E e \in VarintErrors : decode_at(buf, at) = Err(e)
         /\ Len(buf) >= at + len =>
              /\ decode_at(buf, at).ok
              /\ decode_at(buf, at).value.value = value /\ decode_at(buf, at).value.consumed = len
  <1>1. Len(f) = len /\ LengthOf(f[1]) = len /\ Number(f) % Room(len) = value
    BY IsFormFacts
  <1>2. \A i \in 1 .. len : at + i <= Len(buf) => buf[at + i] = f[i]
    BY <1>1 DEF Holds
  <1>3. CASE at >= Len(buf)
    <2>1. decode_at(buf, at) = EmptyBuffer
          \/ decode_at(buf, at) = Err(InvalidVarInt("OffsetOutOfBounds", <<"offset out of bounds">>))
      BY <1>3 DEF decode_at
    <2>2. \E e \in VarintErrors : decode_at(buf, at) = Err(e)
      BY <2>1 DEF EmptyBuffer, VarintErrors
    <2> QED
      BY <1>3, <2>2
  <1>4. CASE at < Len(buf)
    <2>0. at <= Len(buf) /\ Len(buf) <= Len(buf) /\ Len(buf) \in Nat
      BY <1>4
    <2>r. /\ SubSeq(buf, at + 1, Len(buf)) \in Seq(Nat)
          /\ Len(SubSeq(buf, at + 1, Len(buf))) = Len(buf) - at
          /\ \A i \in 1 .. Len(buf) - at : SubSeq(buf, at + 1, Len(buf))[i] = buf[at + i]
      BY <2>0, Slice, SMTT(30)
    <2>1. PICK rest \in Seq(Nat) :
            /\ rest = SubSeq(buf, at + 1, Len(buf)) /\ Len(rest) = Len(buf) - at
            /\ \A i \in 1 .. Len(buf) - at : rest[i] = buf[at + i]
      BY <2>r, Zenon
    <2>2. ASSUME NEW i \in 1 .. len, i <= Len(rest) PROVE rest[i] = f[i]
      <3>1. at + i <= Len(buf) /\ i \in 1 .. Len(buf) - at
        BY <2>1, <2>2
      <3> QED
        BY <1>2, <2>1, <3>1
    <2>3. LengthOf(rest[1]) = len
      <3>1. rest[1] = f[1]
        <4>1. 1 \in 1 .. len /\ 1 <= Len(rest)
          BY <1>4, <2>1
        <4> QED
          BY <2>2, <4>1, Zenon
      <3> QED
        BY <1>1, <3>1
    <2>4. decode_at(buf, at) = decode_inner(rest)
      <3>1. ~(buf = <<>> /\ at = 0) /\ ~(at >= Len(buf))
        BY <1>4
      <3> QED
        BY <2>1, <3>1, Zenon DEF decode_at
    <2>5. CASE Len(rest) < len
      <3>1. decode_inner(rest) = Err(InvalidVarInt("BufferTooShort", <<"buffer too short">>))
        BY <2>3, <2>5 DEF decode_inner
      <3>2. \E e \in VarintErrors : decode_at(buf, at) = Err(e)
        BY <2>4, <3>1 DEF VarintErrors
      <3> QED
        BY <2>1, <2>5, <3>2
    <2>6. CASE Len(rest) >= len
      <3>1. SubSeq(rest, 1, len) = f
        <4>1. /\ SubSeq(rest, 1, len) \in Seq(Nat) /\ Len(SubSeq(rest, 1, len)) = len
              /\ \A i \in 1 .. len : SubSeq(rest, 1, len)[i] = rest[i]
          BY <2>6, Prefix
        <4> QED
          BY <1>1, <2>2, <2>6, <4>1, SeqEqual
      <3>2. ~(Len(rest) < len)
        BY <2>6
      <3>3. decode_inner(rest) = Ok([value |-> Number(f) % Room(len), consumed |-> len])
        BY <2>3, <3>1, <3>2, Zenon DEF decode_inner
      <3>4. /\ decode_at(buf, at).ok
            /\ decode_at(buf, at).value.value = value /\ decode_at(buf, at).value.consumed = len
        BY <1>1, <2>4, <3>3 DEF Ok
      <3>5. ~(Len(buf) < at + len)
        BY <2>1, <2>6
      <3> QED
        BY <3>4, <3>5, Zenon
    <2>7. Len(rest) < len \/ Len(rest) >= len
      OBVIOUS
    <2> QED
      BY <2>5, <2>6, <2>7, Zenon
  <1> QED
    BY <1>3, <1>4

LEMMA DecodeIsDecodeAt == \A buf : decode(buf) = decode_at(buf, 0)
  BY DEF decode, decode_at
-----------------------------------------------------------------------------
(* CapsuleCodec.                                                            *)

\* What tells the reader that bytes are missing, and what refuses a length.
TornErrors ==
  {map_varint_err(e) : e \in VarintErrors} \cup
  {h3_datagram_error("Truncated", <<"capsule value truncated">>)}

RefusalErrors ==
  {h3_datagram_error("LengthTooLarge", <<"capsule length exceeds platform usize">>),
   h3_datagram_error("LengthOverflow", <<"capsule length overflow">>)}

\* The two integers in front of a capsule's value, each in some form.
Headers ==
  {h \in [type : Nat, type_len : Lengths, length : Nat, length_len : Lengths] :
     h.type < Room(h.type_len) /\ h.length < Room(h.length_len)}

HeaderBytes(h) == Form(h.type, h.type_len) \o Form(h.length, h.length_len)
HeaderSize(h) == h.type_len + h.length_len

LEMMA HeaderParts ==
  ASSUME NEW h \in Headers
  PROVE  \E tl \in 1 .. 8, ll \in 1 .. 8, t \in Nat, length \in Nat, a \in Seq(Nat), b \in Seq(Nat) :
           /\ h.type = t /\ h.length = length /\ HeaderSize(h) = tl + ll
           /\ IsForm(a, t, tl) /\ IsForm(b, length, ll) /\ HeaderBytes(h) = a \o b
  <1>1. /\ h.type \in Nat /\ h.length \in Nat /\ h.type_len \in Lengths /\ h.length_len \in Lengths
        /\ h.type < Room(h.type_len) /\ h.length < Room(h.length_len)
    BY Zenon DEF Headers
  <1>2. PICK t \in Nat : t = h.type
    BY <1>1
  <1>3. PICK length \in Nat : length = h.length
    BY <1>1
  <1>4. PICK tl \in 1 .. 8 : tl = h.type_len
    BY <1>1, LengthFacts
  <1>5. PICK ll \in 1 .. 8 : ll = h.length_len
    BY <1>1, LengthFacts
  <1>6. Room(tl) \in Nat /\ Room(ll) \in Nat
    BY <1>1, <1>4, <1>5, RoomFacts
  <1>7. t \in 0 .. Room(tl) - 1 /\ length \in 0 .. Room(ll) - 1
    BY <1>1, <1>2, <1>3, <1>4, <1>5, <1>6
  <1>8. IsForm(Form(t, tl), t, tl) /\ IsForm(Form(length, ll), length, ll)
    BY <1>1, <1>4, <1>5, <1>7, Zenon DEF IsForm
  <1>9. Form(t, tl) \in Seq(Nat) /\ Form(length, ll) \in Seq(Nat)
    BY <1>8, IsFormFacts, Zenon
  <1>10. HeaderBytes(h) = Form(t, tl) \o Form(length, ll) /\ HeaderSize(h) = tl + ll
    BY <1>2, <1>3, <1>4, <1>5, Zenon DEF HeaderBytes, HeaderSize
  <1> QED
    BY <1>2, <1>3, <1>8, <1>9, <1>10, Zenon

LEMMA Joined ==
  ASSUME NEW a \in Seq(Nat), NEW b \in Seq(Nat), NEW c \in Seq(Nat)
  PROVE  /\ a \o b \o c \in Seq(Nat) /\ Len(a \o b \o c) = Len(a) + Len(b) + Len(c)
         /\ \A i \in 1 .. Len(a) : (a \o b \o c)[i] = a[i]
         /\ \A i \in 1 .. Len(b) : (a \o b \o c)[Len(a) + i] = b[i]
         /\ \A i \in 1 .. Len(c) : (a \o b \o c)[Len(a) + Len(b) + i] = c[i]
  OBVIOUS

LEMMA HoldsParts ==
  ASSUME NEW a \in Seq(Nat), NEW b \in Seq(Nat), NEW c \in Seq(Nat), NEW buf \in Seq(Nat),
         NEW at \in Nat, Holds(buf, at, a \o b \o c)
  PROVE  /\ Holds(buf, at, a) /\ Holds(buf, at + Len(a), b)
         /\ Holds(buf, at + Len(a) + Len(b), c)
  <1> DEFINE w == a \o b \o c
  <1>1. /\ w \in Seq(Nat) /\ Len(w) = Len(a) + Len(b) + Len(c)
        /\ \A i \in 1 .. Len(a) : w[i] = a[i]
        /\ \A i \in 1 .. Len(b) : w[Len(a) + i] = b[i]
        /\ \A i \in 1 .. Len(c) : w[Len(a) + Len(b) + i] = c[i]
    BY Joined, ZenonT(40)
  <1>0. Holds(buf, at, w)
    OBVIOUS
  <1> HIDE DEF w
  <1>2. \A i \in 1 .. Len(w) : at + i <= Len(buf) => buf[at + i] = w[i]
    BY <1>0 DEF Holds
  <1>3. ASSUME NEW i \in 1 .. Len(a), at + i <= Len(buf) PROVE buf[at + i] = a[i]
    <2>1. i \in 1 .. Len(w)
      BY <1>1
    <2> QED
      BY <1>1, <1>2, <1>3, <2>1
  <1>4. ASSUME NEW i \in 1 .. Len(b), at + Len(a) + i <= Len(buf)
        PROVE  buf[at + Len(a) + i] = b[i]
    <2>1. Len(a) + i \in 1 .. Len(w) /\ at + (Len(a) + i) = at + Len(a) + i
      BY <1>1, SMTT(30)
    <2> QED
      BY <1>1, <1>2, <1>4, <2>1
  <1>5. ASSUME NEW i \in 1 .. Len(c), at + Len(a) + Len(b) + i <= Len(buf)
        PROVE  buf[at + Len(a) + Len(b) + i] = c[i]
    <2>1. /\ Len(a) + Len(b) + i \in 1 .. Len(w)
          /\ at + (Len(a) + Len(b) + i) = at + Len(a) + Len(b) + i
      BY <1>1
    <2> QED
      BY <1>1, <1>2, <1>5, <2>1
  <1> QED
    BY <1>3, <1>4, <1>5 DEF Holds

LEMMA HeaderFacts ==
  ASSUME NEW h \in Headers
  PROVE  /\ HeaderBytes(h) \in Seq(Nat) /\ Len(HeaderBytes(h)) = HeaderSize(h)
         /\ HeaderSize(h) \in Nat /\ HeaderSize(h) >= 2 /\ h.type \in Nat /\ h.length \in Nat
  <1>1. PICK tl \in 1 .. 8, ll \in 1 .. 8, t \in Nat, length \in Nat, a \in Seq(Nat), b \in Seq(Nat) :
          /\ h.type = t /\ h.length = length /\ HeaderSize(h) = tl + ll
          /\ IsForm(a, t, tl) /\ IsForm(b, length, ll) /\ HeaderBytes(h) = a \o b
    BY HeaderParts, Zenon
  <1>2. Len(a) = tl /\ Len(b) = ll
    BY <1>1, IsFormFacts
  <1>3. a \o b \in Seq(Nat) /\ Len(a \o b) = tl + ll
    BY <1>2
  <1>4. tl + ll \in Nat /\ tl + ll >= 2
    OBVIOUS
  <1> QED
    BY <1>1, <1>3, <1>4, Zenon

LEMMA DecodeCapsule ==
  ASSUME NEW h \in Headers, NEW value \in Seq(Nat), NEW buf \in Seq(Nat),
         Holds(buf, 0, HeaderBytes(h) \o value)
  PROVE  /\ Len(buf) < HeaderSize(h) => \E e \in TornErrors : decode_capsule(buf) = Err(e)
         /\ Len(buf) >= HeaderSize(h) =>
              /\ decode_capsule(buf) = Body(buf, h.type, h.length, HeaderSize(h))
              /\ Holds(buf, HeaderSize(h), value)
  <1>0. PICK tl \in 1 .. 8, ll \in 1 .. 8, t \in Nat, length \in Nat, a \in Seq(Nat), b \in Seq(Nat) :
          /\ h.type = t /\ h.length = length /\ HeaderSize(h) = tl + ll
          /\ IsForm(a, t, tl) /\ IsForm(b, length, ll) /\ HeaderBytes(h) = a \o b
    BY HeaderParts, Zenon
  <1>1. Len(a) = tl /\ Len(b) = ll /\ t <= MAX_VARINT
    BY <1>0, IsFormFacts
  <1>2. Holds(buf, 0, a) /\ Holds(buf, tl, b) /\ Holds(buf, tl + ll, value)
    <2>1. 0 + Len(a) = tl /\ 0 + Len(a) + Len(b) = tl + ll
      BY <1>1
    <2>2. Holds(buf, 0, a \o b \o value)
      BY <1>0, Zenon
    <2> QED
      BY <2>1, <2>2, HoldsParts
  <1>3. ASSUME Len(buf) < tl PROVE \E e \in TornErrors : decode_capsule(buf) = Err(e)
    <2>1. Len(buf) < 0 + tl /\ 0 \in Nat
      BY <1>3
    <2>2. PICK e \in VarintErrors : decode(buf) = Err(e)
      <3>1. \E e \in VarintErrors : decode_at(buf, 0) = Err(e)
        BY <1>0, <1>2, <2>1, DecodeForm, Zenon
      <3> QED
        BY <3>1, DecodeIsDecodeAt, Zenon
    <2>3. ~decode(buf).ok /\ decode(buf).error = e
      BY <2>2 DEF Err
    <2>4. decode_capsule(buf) = Err(map_varint_err(e))
      BY <2>3, Zenon DEF decode_capsule
    <2> QED
      BY <2>4, Zenon DEF TornErrors
  <1>4. ASSUME Len(buf) >= tl
        PROVE  /\ decode(buf).ok /\ decode(buf).value.consumed = tl
               /\ NewCapsuleType(decode(buf).value.value).value = t
    <2>1. Len(buf) >= 0 + tl /\ 0 \in Nat
      BY <1>4
    <2>3. decode(buf).ok /\ decode(buf).value.value = t /\ decode(buf).value.consumed = tl
      BY <1>0, <1>2, <2>1, DecodeForm, DecodeIsDecodeAt, Zenon
    <2>4. ~(t > MAX_VARINT)
      BY <1>1, RoomFacts
    <2>5. NewCapsuleType(t).value = t
      BY <2>4 DEF NewCapsuleType, Ok
    <2> QED
      BY <2>3, <2>5, Zenon
  <1>5. ASSUME Len(buf) >= tl, Len(buf) < tl + ll
        PROVE  \E e \in TornErrors : decode_capsule(buf) = Err(e)
    <2>1. PICK e \in VarintErrors : decode_at(buf, tl) = Err(e)
      <3>1. tl \in Nat
        OBVIOUS
      <3> QED
        BY <1>0, <1>2, <1>5, <3>1, DecodeForm, Zenon
    <2>2. ~decode_at(buf, tl).ok /\ decode_at(buf, tl).error = e
      BY <2>1 DEF Err
    <2>3. decode_capsule(buf) = Err(map_varint_err(e))
      BY <1>4, <1>5, <2>2, Zenon DEF decode_capsule
    <2> QED
      BY <2>3, Zenon DEF TornErrors
  <1>6. ASSUME Len(buf) >= tl + ll
        PROVE  decode_capsule(buf) = Body(buf, t, length, tl + ll)
    <2>1. tl \in Nat /\ Len(buf) >= tl
      BY <1>6
    <2>3. /\ decode_at(buf, tl).ok /\ decode_at(buf, tl).value.value = length
          /\ decode_at(buf, tl).value.consumed = ll
      BY <1>0, <1>2, <1>6, <2>1, DecodeForm, Zenon
    <2> QED
      BY <1>4, <2>1, <2>3, Zenon DEF decode_capsule
  <1>7. tl \in Nat /\ ll \in Nat /\ Len(buf) \in Nat
    OBVIOUS
  <1> QED
    BY <1>0, <1>2, <1>3, <1>5, <1>6, <1>7

\* A capsule that can be addressed is decoded as it was written, once it is all
\* there.
LEMMA DecodeWhole ==
  ASSUME NEW h \in Headers, NEW value \in Seq(Nat), NEW buf \in Seq(Nat),
         Holds(buf, 0, HeaderBytes(h) \o value),
         h.length = Len(value), HeaderSize(h) + Len(value) <= UsizeMax
  PROVE  /\ Len(buf) < HeaderSize(h) + Len(value) =>
              \E e \in TornErrors : decode_capsule(buf) = Err(e)
         /\ Len(buf) >= HeaderSize(h) + Len(value) =>
              decode_capsule(buf) = Ok([capsule  |-> [type |-> h.type, value |-> value],
                                        consumed |-> HeaderSize(h) + Len(value)])
  <1>0. HeaderSize(h) \in Nat
    BY HeaderFacts
  <1>1. PICK size \in Nat : size = HeaderSize(h)
    BY <1>0
  <1>2. /\ Len(buf) < size => \E e \in TornErrors : decode_capsule(buf) = Err(e)
        /\ Len(buf) >= size => decode_capsule(buf) = Body(buf, h.type, Len(value), size)
        /\ Len(buf) >= size => Holds(buf, size, value)
    BY <1>1, DecodeCapsule, Zenon
  <1>3. ~(Len(value) > UsizeMax) /\ ~(size + Len(value) > UsizeMax)
    BY <1>1, UsizeAssumption
  <1>4. ASSUME Len(buf) >= size, Len(buf) < size + Len(value)
        PROVE  \E e \in TornErrors : decode_capsule(buf) = Err(e)
    <2>1. decode_capsule(buf) = Err(h3_datagram_error("Truncated", <<"capsule value truncated">>))
      BY <1>2, <1>3, <1>4, Zenon DEF Body
    <2> QED
      BY <2>1, Zenon DEF TornErrors
  <1>5. ASSUME Len(buf) >= size + Len(value)
        PROVE  decode_capsule(buf) = Ok([capsule  |-> [type |-> h.type, value |-> value],
                                         consumed |-> size + Len(value)])
    <2>1. ~(Len(buf) < size + Len(value)) /\ Len(buf) >= size
      BY <1>5
    <2>2. PICK n \in Nat : n = size + Len(value)
      OBVIOUS
    <2>3. size <= n /\ n <= Len(buf) /\ n - size = Len(value)
      BY <1>5, <2>2
    <2> DEFINE s == SubSeq(buf, size + 1, n)
    <2>4. /\ s \in Seq(Nat) /\ Len(s) = Len(value)
          /\ \A i \in 1 .. Len(value) : s[i] = buf[size + i]
      <3>1. /\ s \in Seq(Nat) /\ Len(s) = n - size
            /\ \A i \in 1 .. n - size : s[i] = buf[size + i]
        BY <2>3, Slice, Zenon
      <3> QED
        BY <2>3, <3>1, Zenon
    <2>5. s = value
      <3> HIDE DEF s
      <3>1. ASSUME NEW i \in 1 .. Len(value) PROVE s[i] = value[i]
        <4>1. size + i <= Len(buf)
          BY <1>5
        <4>2. buf[size + i] = value[i]
          BY <1>2, <2>1, <4>1 DEF Holds
        <4> QED
          BY <2>4, <4>2
      <3> QED
        BY <2>4, <3>1, SeqEqual
    <2> QED
      BY <1>2, <1>3, <2>1, <2>2, <2>5, Zenon DEF Body
  <1>6. Len(buf) < size \/ Len(buf) >= size
    OBVIOUS
  <1> QED
    BY <1>1, <1>2, <1>4, <1>5, <1>6, Zenon

\* One that cannot be addressed is refused as soon as its length is read.
LEMMA DecodeHuge ==
  ASSUME NEW h \in Headers, NEW value \in Seq(Nat), NEW buf \in Seq(Nat),
         Holds(buf, 0, HeaderBytes(h) \o value), HeaderSize(h) + h.length > UsizeMax
  PROVE  /\ Len(buf) < HeaderSize(h) => \E e \in TornErrors : decode_capsule(buf) = Err(e)
         /\ Len(buf) >= HeaderSize(h) => \E e \in RefusalErrors : decode_capsule(buf) = Err(e)
  <1>1. /\ Len(buf) < HeaderSize(h) => \E e \in TornErrors : decode_capsule(buf) = Err(e)
        /\ Len(buf) >= HeaderSize(h) =>
             decode_capsule(buf) = Body(buf, h.type, h.length, HeaderSize(h))
    BY DecodeCapsule, Zenon
  <1>2. Body(buf, h.type, h.length, HeaderSize(h)) \in {Err(e) : e \in RefusalErrors}
    BY Zenon DEF Body, RefusalErrors
  <1> QED
    BY <1>1, <1>2, Zenon
-----------------------------------------------------------------------------
(* The encoders.                                                            *)

\* Each encoder writes an integer in the shortest form that holds it.
Shortest(n) ==
  IF n < Room(1) THEN 1 ELSE IF n < Room(2) THEN 2 ELSE IF n < Room(4) THEN 4 ELSE 8

LEMMA ShortestFacts ==
  ASSUME NEW n \in Nat, n <= MAX_VARINT
  PROVE  /\ Shortest(n) \in 1 .. 8 /\ IsForm(encode_to_array(n), n, Shortest(n))
         /\ Valid(n) /\ varint_len(n) = Shortest(n)
  <1>1. PICK r1 \in Nat, r2 \in Nat, r4 \in Nat, r8 \in Nat :
          /\ r1 = Room(1) /\ r2 = Room(2) /\ r4 = Room(4) /\ r8 = Room(8)
          /\ r1 < r2 /\ r2 < r4 /\ r4 < r8 /\ n < r8
    BY RoomFacts DEF Lengths
  <1>2. PICK len \in 1 .. 8 : len = Shortest(n)
    BY <1>1 DEF Shortest
  <1>3. len \in Lengths /\ n \in 0 .. Room(len) - 1
    BY <1>1, <1>2 DEF Shortest, Lengths
  <1>4. encode_to_array(n) = Form(n, len)
    BY <1>2, Zenon DEF encode_to_array, Shortest
  <1>5. varint_len(n) = len
    BY <1>1, <1>2 DEF varint_len, Shortest
  <1>6. Valid(n)
    BY RoomFacts DEF Valid
  <1> QED
    BY <1>2, <1>3, <1>4, <1>5, <1>6, Zenon DEF IsForm

\* b is buf with the sequence f at an offset, as far as its end.
Wrote(b, buf, at, f) ==
  /\ b \in Seq(Nat) /\ Len(b) = Len(buf)
  /\ \A i \in 1 .. Len(f) : b[at + i] = f[i]
  /\ \A i \in 1 .. Len(buf) : i <= at => b[i] = buf[i]

\* encode_into_at writes the form where it is told and nothing in front of it.
LEMMA EncodeAt ==
  ASSUME NEW n \in Nat, n <= MAX_VARINT, NEW buf \in Seq(Nat), NEW at \in Nat,
         at + Shortest(n) <= Len(buf)
  PROVE  \E b : /\ encode_into_at(n, buf, at) = Ok([written |-> Shortest(n), buf |-> b])
                /\ Wrote(b, buf, at, encode_to_array(n))
  <1>1. PICK len \in 1 .. 8 : len = Shortest(n)
    BY ShortestFacts
  <1>2. PICK f \in Seq(Nat) : f = encode_to_array(n) /\ Len(f) = len
    BY <1>1, ShortestFacts, IsFormFacts
  <1> DEFINE b == [i \in DOMAIN buf |-> IF at < i /\ i <= at + len THEN f[i - at] ELSE buf[i]]
  <1>3. encode_into_at(n, buf, at) = Ok([written |-> len, buf |-> b])
    <2>1. ~(Len(buf) < at + len)
      BY <1>1
    <2> QED
      BY <1>2, <2>1, ShortestFacts, Zenon DEF encode_into_at
  <1>4. b \in Seq(Nat) /\ Len(b) = Len(buf)
    <2>1. ASSUME NEW i \in 1 .. Len(buf)
          PROVE  (IF at < i /\ i <= at + len THEN f[i - at] ELSE buf[i]) \in Nat
      BY <1>2, SMTT(30)
    <2>2. b = [i \in 1 .. Len(buf) |-> IF at < i /\ i <= at + len THEN f[i - at] ELSE buf[i]]
      OBVIOUS
    <2> QED
      BY <2>1, <2>2
  <1>5. ASSUME NEW i \in 1 .. len PROVE b[at + i] = f[i]
    <2>1. at + i \in DOMAIN buf /\ at < at + i /\ at + i <= at + len /\ (at + i) - at = i
      BY <1>1
    <2> QED
      BY <2>1
  <1>6. ASSUME NEW i \in 1 .. Len(buf), i <= at PROVE b[i] = buf[i]
    BY <1>6
  <1> HIDE DEF b
  <1>7. Wrote(b, buf, at, f)
    BY <1>2, <1>4, <1>5, <1>6, Zenon DEF Wrote
  <1> QED
    BY <1>1, <1>2, <1>3, <1>7, Zenon

\* The header the encoders write.
ShortHeader(t, n) ==
  [type |-> t, type_len |-> Shortest(t), length |-> n, length_len |-> Shortest(n)]

LEMMA ShortHeaderFacts ==
  ASSUME NEW t \in Nat, t <= MAX_VARINT, NEW n \in Nat, n <= MAX_VARINT
  PROVE  /\ ShortHeader(t, n) \in Headers
         /\ HeaderBytes(ShortHeader(t, n)) = encode_to_array(t) \o encode_to_array(n)
         /\ HeaderSize(ShortHeader(t, n)) = Shortest(t) + Shortest(n)
         /\ ShortHeader(t, n).type = t /\ ShortHeader(t, n).length = n
  <1>1. IsForm(encode_to_array(t), t, Shortest(t)) /\ IsForm(encode_to_array(n), n, Shortest(n))
    BY ShortestFacts
  <1>2. PICK h : h = ShortHeader(t, n)
    OBVIOUS
  <1>3. /\ h.type = t /\ h.length = n /\ h.type_len = Shortest(t) /\ h.length_len = Shortest(n)
        /\ h = [type |-> t, type_len |-> Shortest(t), length |-> n, length_len |-> Shortest(n)]
    BY <1>2 DEF ShortHeader
  <1>4. /\ Shortest(t) \in Lengths /\ Shortest(n) \in Lengths
        /\ encode_to_array(t) = Form(t, Shortest(t)) /\ encode_to_array(n) = Form(n, Shortest(n))
    BY <1>1 DEF IsForm
  <1>5. t < Room(Shortest(t)) /\ n < Room(Shortest(n))
    <2>1. t \in 0 .. Room(Shortest(t)) - 1 /\ n \in 0 .. Room(Shortest(n)) - 1
      BY <1>1 DEF IsForm
    <2>2. Room(Shortest(t)) \in Nat /\ Room(Shortest(n)) \in Nat
      BY <1>4, RoomFacts
    <2> QED
      BY <2>1, <2>2
  <1>6. h \in [type : Nat, type_len : Lengths, length : Nat, length_len : Lengths]
    BY <1>3, <1>4
  <1>7. h \in Headers
    BY <1>3, <1>5, <1>6, Zenon DEF Headers
  <1>8. HeaderBytes(h) = encode_to_array(t) \o encode_to_array(n)
    BY <1>3, <1>4, Zenon DEF HeaderBytes
  <1>9. HeaderSize(h) = Shortest(t) + Shortest(n)
    BY <1>3, Zenon DEF HeaderSize
  <1> QED
    BY <1>2, <1>3, <1>7, <1>8, <1>9, Zenon

LEMMA ZerosFacts ==
  ASSUME NEW n \in Nat
  PROVE  Zeros(n) \in Seq(Nat) /\ Len(Zeros(n)) = n
  <1>1. [i \in 1 .. n |-> 0] \in [1 .. n -> Nat]
    OBVIOUS
  <1> QED
    BY <1>1 DEF Zeros

\* Encoded takes the bytes that were written.
LEMMA EncodedIsForm ==
  ASSUME NEW n \in Nat, n <= MAX_VARINT
  PROVE  Encoded(n) = encode_to_array(n)
  <1>1. PICK len \in 1 .. 8 : len = Shortest(n)
    BY ShortestFacts
  <1>2. PICK f \in Seq(Nat) : f = encode_to_array(n) /\ Len(f) = len
    BY <1>1, ShortestFacts, IsFormFacts
  <1>3. PICK z \in Seq(Nat) : z = Zeros(8) /\ Len(z) = 8
    <2>1. 8 \in Nat
      OBVIOUS
    <2> QED
      BY <2>1, ZerosFacts, Zenon
  <1>4. 0 \in Nat /\ 0 + Shortest(n) <= Len(z)
    <2>1. 0 \in Nat /\ 0 + len <= 8
      OBVIOUS
    <2> QED
      BY <1>1, <1>3, <2>1, Zenon
  <1>5. PICK b : /\ encode_into_at(n, z, 0) = Ok([written |-> len, buf |-> b])
                 /\ Wrote(b, z, 0, f)
    BY <1>1, <1>2, <1>4, EncodeAt, Zenon
  <1>w. encode_into(n, Zeros(8)).value.written = len /\ encode_into(n, Zeros(8)).value.buf = b
    BY <1>3, <1>5 DEF encode_into, Ok
  <1>b. b \in Seq(Nat) /\ Len(b) = 8
    BY <1>3, <1>5 DEF Wrote
  <1>6. \A i \in 1 .. len : b[i] = f[i]
    <2>1. \A i \in 1 .. len : b[0 + i] = f[i]
      BY <1>2, <1>5 DEF Wrote
    <2> QED
      BY <2>1
  <1>7. SubSeq(b, 1, len) = f
    <2>0. len \in Nat /\ len <= 8
      OBVIOUS
    <2>1. len \in Nat /\ len <= Len(b)
      BY <1>b, <2>0, Zenon
    <2>2. /\ SubSeq(b, 1, len) \in Seq(Nat) /\ Len(SubSeq(b, 1, len)) = len
          /\ \A i \in 1 .. len : SubSeq(b, 1, len)[i] = b[i]
      BY <1>b, <2>1, Prefix, Zenon
    <2> QED
      BY <1>2, <1>6, <2>2, SeqEqual
  <1> QED
    BY <1>2, <1>w, <1>7, Zenon DEF Encoded

LEMMA EncodedCapsule ==
  ASSUME NEW t \in Nat, t <= MAX_VARINT, NEW value \in Seq(Nat), Len(value) <= MAX_VARINT
  PROVE  Encoded(t) \o Encoded(Len(value)) \o value
           = HeaderBytes(ShortHeader(t, Len(value))) \o value
  <1>1. PICK n \in Nat : n = Len(value) /\ n <= MAX_VARINT
    OBVIOUS
  <1>2. Encoded(t) = encode_to_array(t) /\ Encoded(n) = encode_to_array(n)
    BY <1>1, EncodedIsForm, Zenon
  <1>3. HeaderBytes(ShortHeader(t, n)) = encode_to_array(t) \o encode_to_array(n)
    BY <1>1, ShortHeaderFacts, Zenon
  <1> QED
    BY <1>1, <1>2, <1>3, Zenon

\* encode_into leaves the same bytes at the front of its buffer as encode.
LEMMA EncodeInto ==
  ASSUME NEW t \in Nat, t <= MAX_VARINT, NEW value \in Seq(Nat), Len(value) <= MAX_VARINT,
         NEW room \in Nat, encode_capsule_into([type |-> t, value |-> value], Zeros(room)).ok
  PROVE  LET w == encode_capsule_into([type |-> t, value |-> value], Zeros(room)).value
         IN  SubSeq(w.buf, 1, w.total) = HeaderBytes(ShortHeader(t, Len(value))) \o value
  <1> DEFINE c == [type |-> t, value |-> value]
  <1>0. PICK n \in Nat : n = Len(value) /\ n <= MAX_VARINT
    OBVIOUS
  <1>1. PICK tl \in 1 .. 8 : tl = Shortest(t) /\ tl = varint_len(t)
    BY ShortestFacts
  <1>2. PICK ll \in 1 .. 8 : ll = Shortest(n) /\ ll = varint_len(n)
    BY <1>0, ShortestFacts
  <1>3. PICK a \in Seq(Nat) : a = encode_to_array(t) /\ Len(a) = tl
    BY <1>1, ShortestFacts, IsFormFacts
  <1>4. PICK b \in Seq(Nat) : b = encode_to_array(n) /\ Len(b) = ll
    BY <1>0, <1>2, ShortestFacts, IsFormFacts
  <1>5. PICK buf \in Seq(Nat) : buf = Zeros(room) /\ Len(buf) = room
    BY ZerosFacts, Zenon
  <1>6. PICK total \in Nat : total = tl + ll + n
    OBVIOUS
  <1>7. c.type = t /\ c.value = value
    OBVIOUS
  <1> HIDE DEF c
  <1>8. total = varint_len(c.type) + varint_len(Len(c.value)) + Len(c.value)
    BY <1>0, <1>1, <1>2, <1>6, <1>7, Zenon
  <1>9. total <= Len(buf)
    <2>1. encode_capsule_into(c, buf).ok
      BY <1>5, Zenon DEF c
    <2>2. ~(Len(buf) < total)
      <3> SUFFICES ASSUME Len(buf) < total PROVE FALSE
        OBVIOUS
      <3>1. encode_capsule_into(c, buf) =
              Err(InvalidVarInt("BufferTooShort", <<"output buffer too short">>))
        BY <1>8, Zenon DEF encode_capsule_into
      <3>2. \A e : ~Err(e).ok
        BY DEF Err
      <3> QED
        BY <2>1, <3>1, <3>2, Zenon
    <2> QED
      BY <2>2
  <1>10. PICK b1 : /\ encode_into_at(t, buf, 0) = Ok([written |-> tl, buf |-> b1])
                   /\ Wrote(b1, buf, 0, a)
    <2>1. 0 \in Nat /\ 0 + tl <= Len(buf)
      BY <1>6, <1>9
    <2> QED
      BY <1>1, <1>3, <2>1, EncodeAt, Zenon
  <1>b1. b1 \in Seq(Nat) /\ Len(b1) = Len(buf) /\ \A i \in 1 .. tl : b1[i] = a[i]
    <2>1. b1 \in Seq(Nat) /\ Len(b1) = Len(buf) /\ \A i \in 1 .. tl : b1[0 + i] = a[i]
      BY <1>3, <1>10, Zenon DEF Wrote
    <2> QED
      BY <2>1
  <1>11. PICK b2 : /\ encode_into_at(n, b1, tl) = Ok([written |-> ll, buf |-> b2])
                   /\ Wrote(b2, b1, tl, b)
    <2>1. tl \in Nat /\ tl + ll <= Len(b1)
      BY <1>6, <1>9, <1>b1
    <2> QED
      BY <1>0, <1>2, <1>4, <1>b1, <2>1, EncodeAt, Zenon
  <1>b2. /\ b2 \in Seq(Nat) /\ Len(b2) = Len(buf)
         /\ \A i \in 1 .. tl : b2[i] = a[i]
         /\ \A i \in 1 .. ll : b2[tl + i] = b[i]
    <2>1. /\ b2 \in Seq(Nat) /\ Len(b2) = Len(buf)
          /\ \A i \in 1 .. ll : b2[tl + i] = b[i]
          /\ \A i \in 1 .. Len(buf) : i <= tl => b2[i] = b1[i]
      BY <1>4, <1>11, <1>b1, Zenon DEF Wrote
    <2>2. \A i \in 1 .. tl : i \in 1 .. Len(buf) /\ i <= tl
      BY <1>6, <1>9
    <2> QED
      BY <1>b1, <2>1, <2>2, Zenon
  <1>at. PICK at \in Nat : at = tl + ll
    OBVIOUS
  <1> DEFINE r == [i \in DOMAIN buf |-> IF i - at \in DOMAIN value THEN value[i - at] ELSE b2[i]]
  <1>12. /\ encode_capsule_into(c, buf).value.total = total
         /\ encode_capsule_into(c, buf).value.buf = r
    <2>1. encode_capsule_into(c, buf) = Ok([total |-> total, buf |-> r])
      <3>1. ~(Len(buf) < total)
        BY <1>9
      <3>2. \A v : Ok(v).value = v
        BY DEF Ok
      <3>3. encode_into_at(c.type, buf, 0).value = [written |-> tl, buf |-> b1]
        BY <1>7, <1>10, <3>2, Zenon
      <3>4. encode_into_at(Len(c.value), b1, tl).value = [written |-> ll, buf |-> b2]
        BY <1>0, <1>7, <1>11, <3>2, Zenon
      <3>5. /\ [written |-> tl, buf |-> b1].written = tl /\ [written |-> tl, buf |-> b1].buf = b1
            /\ [written |-> ll, buf |-> b2].written = ll /\ [written |-> ll, buf |-> b2].buf = b2
        OBVIOUS
      <3> QED
        BY <1>7, <1>8, <1>at, <3>1, <3>3, <3>4, <3>5, ZenonT(40) DEF encode_capsule_into
    <2> HIDE DEF r
    <2> QED
      BY <2>1 DEF Ok
  <1>13. r \in Seq(Nat) /\ Len(r) = Len(buf)
    <2>1. ASSUME NEW i \in 1 .. Len(buf)
          PROVE  (IF i - at \in DOMAIN value THEN value[i - at] ELSE b2[i]) \in Nat
      <3>1. b2[i] \in Nat
        BY <1>b2, SMTT(30)
      <3>2. \A k \in DOMAIN value : value[k] \in Nat
        OBVIOUS
      <3> QED
        BY <3>1, <3>2, Zenon
    <2>2. r = [i \in 1 .. Len(buf) |-> IF i - at \in DOMAIN value THEN value[i - at] ELSE b2[i]]
      OBVIOUS
    <2> QED
      BY <2>1, <2>2
  <1>14. /\ \A i \in 1 .. tl : r[i] = a[i]
         /\ \A i \in 1 .. ll : r[tl + i] = b[i]
         /\ \A i \in 1 .. n : r[tl + ll + i] = value[i]
    <2>1. ASSUME NEW i \in 1 .. tl PROVE r[i] = a[i]
      <3>1. i \in DOMAIN buf /\ i - at \notin DOMAIN value
        BY <1>0, <1>6, <1>9, <1>at
      <3> QED
        BY <1>b2, <3>1
    <2>2. ASSUME NEW i \in 1 .. ll PROVE r[tl + i] = b[i]
      <3>1. tl + i \in DOMAIN buf /\ (tl + i) - at \notin DOMAIN value
        BY <1>0, <1>6, <1>9, <1>at
      <3> QED
        BY <1>b2, <3>1
    <2>3. ASSUME NEW i \in 1 .. n PROVE r[tl + ll + i] = value[i]
      <3>1. tl + ll + i \in DOMAIN buf /\ (tl + ll + i) - at = i /\ i \in DOMAIN value
        BY <1>0, <1>6, <1>9, <1>at
      <3> QED
        BY <3>1
    <2> QED
      BY <2>1, <2>2, <2>3
  <1> HIDE DEF r
  <1>15. SubSeq(r, 1, total) = a \o b \o value
    <2>1. PICK x \in Seq(Nat) :
            /\ x = a \o b \o value /\ Len(x) = Len(a) + Len(b) + Len(value)
            /\ \A i \in 1 .. Len(a) : x[i] = a[i]
            /\ \A i \in 1 .. Len(b) : x[Len(a) + i] = b[i]
            /\ \A i \in 1 .. Len(value) : x[Len(a) + Len(b) + i] = value[i]
      <3>1. /\ a \o b \o value \in Seq(Nat)
            /\ Len(a \o b \o value) = Len(a) + Len(b) + Len(value)
            /\ \A i \in 1 .. Len(a) : (a \o b \o value)[i] = a[i]
            /\ \A i \in 1 .. Len(b) : (a \o b \o value)[Len(a) + i] = b[i]
            /\ \A i \in 1 .. Len(value) : (a \o b \o value)[Len(a) + Len(b) + i] = value[i]
        BY Joined, SMTT(60)
      <3> QED
        BY <3>1, Zenon
    <2>2. /\ Len(x) = tl + ll + n
          /\ \A i \in 1 .. tl : x[i] = a[i]
          /\ \A i \in 1 .. ll : x[tl + i] = b[i]
          /\ \A i \in 1 .. n : x[tl + ll + i] = value[i]
      BY <1>0, <1>3, <1>4, <2>1, Zenon
    <2>3. ASSUME NEW i \in 1 .. total PROVE r[i] = x[i]
      <3>1. CASE i <= tl
        <4>1. i \in 1 .. tl
          BY <3>1
        <4> QED
          BY <1>14, <2>2, <4>1, Zenon
      <3>2. CASE tl < i /\ i <= tl + ll
        <4>1. PICK k \in 1 .. ll : i = tl + k
          <5>1. i - tl \in 1 .. ll /\ i = tl + (i - tl)
            BY <3>2
          <5> QED
            BY <5>1, Zenon
        <4> QED
          BY <1>14, <2>2, <4>1, Zenon
      <3>3. CASE tl + ll < i
        <4>1. PICK k \in 1 .. n : i = tl + ll + k
          <5>1. i - (tl + ll) \in 1 .. n /\ i = tl + ll + (i - (tl + ll))
            BY <1>6, <3>3
          <5> QED
            BY <5>1, Zenon
        <4> QED
          BY <1>14, <2>2, <4>1, Zenon
      <3>4. i <= tl \/ (tl < i /\ i <= tl + ll) \/ tl + ll < i
        OBVIOUS
      <3> QED
        BY <3>1, <3>2, <3>3, <3>4, Zenon
    <2>4. PICK y \in Seq(Nat) : /\ y = SubSeq(r, 1, total) /\ Len(y) = total
                                /\ \A i \in 1 .. total : y[i] = r[i]
      <3>1. total <= Len(r)
        BY <1>9, <1>13
      <3> QED
        <4>1. /\ SubSeq(r, 1, total) \in Seq(Nat) /\ Len(SubSeq(r, 1, total)) = total
              /\ \A i \in 1 .. total : SubSeq(r, 1, total)[i] = r[i]
          BY <1>13, <3>1, Prefix, Zenon
        <4> QED
          BY <4>1, Zenon
    <2>5. y = x
      BY <1>6, <2>2, <2>3, <2>4, SeqEqual
    <2> QED
      BY <2>1, <2>4, <2>5, Zenon
  <1>16. a \o b \o value = HeaderBytes(ShortHeader(t, Len(value))) \o value
    <2>1. HeaderBytes(ShortHeader(t, n)) = a \o b
      BY <1>0, <1>3, <1>4, ShortHeaderFacts, Zenon
    <2> QED
      BY <1>0, <2>1, Zenon
  <1> QED
    BY <1>5, <1>12, <1>15, <1>16, Zenon DEF c
-----------------------------------------------------------------------------
(* Errors.                                                                  *)


LEMMA ComparedIs ==
  ASSUME NEW S, NEW e \in Seq(S), e # <<>>
  PROVE  \E n \in 1 .. Len(e) :
           /\ Compared(e) = SubSeq(e, 1, n)
           /\ n = Len(e) \/ e[n].variant # "H3DatagramError"
           /\ \A i \in 1 .. n - 1 : e[i].variant = "H3DatagramError"
  <1> DEFINE T == {n \in 1 .. Len(e) : n = Len(e) \/ e[n].variant # "H3DatagramError"}
  <1>1. T \subseteq Nat /\ Len(e) \in T
    OBVIOUS
  <1>2. PICK n \in T : \A m \in T : ~(m < n)
    <2> HIDE DEF T
    <2> QED
      BY <1>1, Least
  <1>3. /\ n \in DOMAIN e /\ (n = Len(e) \/ e[n].variant # "H3DatagramError")
        /\ \A i \in 1 .. n - 1 : e[i].variant = "H3DatagramError"
    BY <1>2
  <1>4. PICK m \in DOMAIN e :
          /\ Compared(e) = SubSeq(e, 1, m)
          /\ m = Len(e) \/ e[m].variant # "H3DatagramError"
          /\ \A i \in 1 .. m - 1 : e[i].variant = "H3DatagramError"
    <2> DEFINE P(k) == /\ k = Len(e) \/ e[k].variant # "H3DatagramError"
                       /\ \A i \in 1 .. k - 1 : e[i].variant = "H3DatagramError"
    <2>1. \E k \in DOMAIN e : P(k)
      BY <1>3, Zenon
    <2>2. Compared(e) = SubSeq(e, 1, CHOOSE k \in DOMAIN e : P(k))
      BY Zenon DEF Compared
    <2> HIDE DEF P
    <2>3. PICK k \in DOMAIN e : P(k) /\ Compared(e) = SubSeq(e, 1, k)
      BY <2>1, <2>2, Zenon
    <2> QED
      BY <2>3, Zenon DEF P
  <1> QED
    BY <1>4

LEMMA Whole ==
  ASSUME NEW S, NEW e \in Seq(S)
  PROVE  SubSeq(e, 1, Len(e)) = e
  OBVIOUS

LEMMA OneLayer ==
  ASSUME NEW kind \in H3DatagramErrorKinds, NEW message
  PROVE  LET e == h3_datagram_error(kind, message)
         IN  IsError(e) /\ Clone(e) = e /\ Compared(e) = e /\ source(e) = <<>>
  <1> DEFINE l == [variant |-> "H3DatagramError", kind |-> kind, message |-> message]
  <1>1. h3_datagram_error(kind, message) = <<l>>
    BY DEF h3_datagram_error
  <1>2. /\ l.variant = "H3DatagramError" /\ l.kind = kind
        /\ DOMAIN l = {"variant", "kind", "message"}
        /\ [f \in DOMAIN l |-> l[f]] = l
    OBVIOUS
  <1>3. IsLayer(l)
    BY <1>2 DEF IsLayer, Fields, KindsOf
  <1> HIDE DEF l
  <1>4. source(<<l>>) = <<>>
    BY <1>2 DEF source, HasSource
  <1>5. IsError(<<l>>)
    BY <1>3 DEF IsError
  <1>6. Clone(<<l>>) = <<l>>
    BY <1>2, <1>4 DEF Clone
  <1>7. Compared(<<l>>) = <<l>>
    <2>1. PICK e \in Seq({l}) : e = <<l>> /\ Len(e) = 1 /\ SubSeq(e, 1, 1) = e
      <3>1. <<l>> \in Seq({l}) /\ Len(<<l>>) = 1
        OBVIOUS
      <3> QED
        BY <3>1, Whole, Zenon
    <2>2. PICK n \in 1 .. Len(e) : Compared(e) = SubSeq(e, 1, n)
      BY <2>1, ComparedIs
    <2> QED
      BY <2>1, <2>2
  <1> QED
    BY <1>1, <1>4, <1>5, <1>6, <1>7, Zenon

LEMMA TwoLayers ==
  ASSUME NEW kind \in VarIntErrorKinds, NEW message
  PROVE  LET e == map_varint_err(InvalidVarInt(kind, message))
         IN  /\ IsError(e) /\ Clone(e) = e /\ Compared(e) = e
             /\ e[1].kind = "InvalidVarint" /\ source(e) = InvalidVarInt(kind, message)
          /\ e[Len(e)].variant = "InvalidVarInt"
             /\ e[Len(e)].variant = "InvalidVarInt"
  <1> DEFINE l == [variant |-> "H3DatagramError", kind |-> "InvalidVarint",
                   message |-> <<"malformed capsule varint">>]
             v == [variant |-> "InvalidVarInt", kind |-> kind, message |-> message]
  <1>1. map_varint_err(InvalidVarInt(kind, message)) = <<l>> \o <<v>>
    BY DEF map_varint_err, h3_datagram_error_with_source, h3_datagram_error, InvalidVarInt
  <1>2. /\ l.variant = "H3DatagramError" /\ l.kind = "InvalidVarint"
        /\ DOMAIN l = {"variant", "kind", "message"}
        /\ [f \in DOMAIN l |-> l[f]] = l
    OBVIOUS
  <1>3. IsLayer(l)
    BY <1>2 DEF IsLayer, Fields, KindsOf, H3DatagramErrorKinds
  <1>4. v.variant = "InvalidVarInt" /\ v.kind = kind /\ DOMAIN v = {"variant", "kind", "message"}
    OBVIOUS
  <1>5. IsLayer(v)
    BY <1>4 DEF IsLayer, Fields, KindsOf
  <1>6. InvalidVarInt(kind, message) = <<v>>
    BY DEF InvalidVarInt
  <1> HIDE DEF l, v
  <1>7. <<l>> \o <<v>> = <<l, v>> /\ Tail(<<l, v>>) = <<v>>
    <2>1. <<l>> \in Seq({l, v}) /\ <<v>> \in Seq({l, v}) /\ <<l, v>> \in Seq({l, v})
      OBVIOUS
    <2>2. <<l>> \o <<v>> = <<l, v>>
      <3>1. PICK x \in Seq({l, v}) : x = <<l>> /\ Len(x) = 1 /\ x[1] = l
        BY <2>1
      <3>2. PICK y \in Seq({l, v}) : y = <<v>> /\ Len(y) = 1 /\ y[1] = v
        BY <2>1
      <3>3. PICK z \in Seq({l, v}) : z = <<l, v>> /\ Len(z) = 2 /\ z[1] = l /\ z[2] = v
        BY <2>1
      <3>4. x \o y = z
        <4>1. /\ x \o y \in Seq({l, v}) /\ Len(x \o y) = 2
              /\ (x \o y)[1] = x[1] /\ (x \o y)[2] = y[1]
          BY <3>1, <3>2
        <4>2. \A i \in 1 .. 2 : (x \o y)[i] = z[i]
          BY <3>1, <3>2, <3>3, <4>1
        <4>3. Len(x \o y) = Len(z) /\ \A i \in 1 .. Len(x \o y) : (x \o y)[i] = z[i]
          BY <3>3, <4>1, <4>2, Zenon
        <4> QED
          BY <4>1, <4>3, SeqEqual, Zenon
      <3> QED
        BY <3>1, <3>2, <3>3, <3>4, Zenon
    <2>3. Tail(<<l, v>>) = <<v>>
      BY <2>1
    <2> QED
      BY <2>2, <2>3
  <1>8. source(<<l, v>>) = <<v>>
    BY <1>2, <1>7 DEF source, HasSource
  <1>9. IsError(<<l, v>>)
    BY <1>2, <1>3, <1>5 DEF IsError, HasSource
  <1>10. Clone(<<l, v>>) = <<l, v>>
    BY <1>2, <1>7, <1>8 DEF Clone
  <1>11. Compared(<<l, v>>) = <<l, v>>
    <2>1. PICK e \in Seq({l, v}) : /\ e = <<l, v>> /\ Len(e) = 2 /\ SubSeq(e, 1, 2) = e
                                  /\ e[1].variant = "H3DatagramError"
      <3>1. <<l, v>> \in Seq({l, v}) /\ Len(<<l, v>>) = 2 /\ <<l, v>>[1] = l
        OBVIOUS
      <3> QED
        BY <1>2, <3>1, Whole, Zenon
    <2>2. PICK n \in 1 .. Len(e) : /\ Compared(e) = SubSeq(e, 1, n)
                                   /\ n = Len(e) \/ e[n].variant # "H3DatagramError"
      BY <2>1, ComparedIs
    <2> QED
      BY <2>1, <2>2
  <1>12. <<l, v>>[1].kind = "InvalidVarint"
    BY <1>2
  <1>13. <<l, v>>[Len(<<l, v>>)].variant = "InvalidVarInt"
    BY <1>4
  <1> QED
    BY <1>1, <1>13, <1>6, <1>7, <1>8, <1>9, <1>10, <1>11, <1>12, Zenon

LEMMA EqualIsSame ==
  ASSUME NEW a, NEW b, IsError(a), IsError(b), Compared(a) = a, Equal(a, b),
         a[Len(a)].variant \notin HasSource \ {"H3DatagramError"},
         a[Len(a)].variant # "foreign"
  PROVE  a = b
  <1>1. PICK S : b \in Seq(S) /\ b # <<>>
    BY DEF IsError
  <1>2. PICK n \in 1 .. Len(b) : /\ Compared(b) = SubSeq(b, 1, n)
                                 /\ n = Len(b) \/ b[n].variant # "H3DatagramError"
    BY <1>1, ComparedIs
  <1>3. a = SubSeq(b, 1, n)
    BY <1>2 DEF Equal
  <1>4. Len(a) = n /\ a[n] = b[n]
    BY <1>1, <1>2, <1>3
  <1>5. CASE n = Len(b)
    BY <1>1, <1>3, <1>5
  <1>6. CASE n # Len(b)
    <2>1. n \in 1 .. Len(b) - 1
      BY <1>1, <1>6
    <2>2. b[n].variant \in HasSource \cup {"foreign"}
      BY <2>1 DEF IsError
    <2> QED
      BY <1>2, <1>4, <1>6, <2>2
  <1> QED
    BY <1>5, <1>6

\* What is known of an error decode returns.
Plain(e) ==
  /\ IsError(e) /\ Clone(e) = e /\ Compared(e) = e
  /\ e[Len(e)].variant \in {"H3DatagramError", "InvalidVarInt"}

LEMMA TornFacts ==
  ASSUME NEW e \in TornErrors
  PROVE  Plain(e) /\ NeedsMore(e)
  <1>1. ASSUME NEW kind \in {"EmptyBuffer", "OffsetOutOfBounds", "BufferTooShort"}, NEW message,
               e = map_varint_err(InvalidVarInt(kind, message))
        PROVE  Plain(e) /\ NeedsMore(e)
    <2>1. /\ IsError(e) /\ Clone(e) = e /\ Compared(e) = e
          /\ e[1].kind = "InvalidVarint" /\ source(e) = InvalidVarInt(kind, message)
          /\ e[Len(e)].variant = "InvalidVarInt"
      BY <1>1, TwoLayers DEF VarIntErrorKinds
    <2>2. is_incomplete_varint(source(e))
      BY <2>1 DEF is_incomplete_varint, InvalidVarInt
    <2> QED
      BY <2>1, <2>2 DEF Plain, NeedsMore
  <1>2. ASSUME e = h3_datagram_error("Truncated", <<"capsule value truncated">>)
        PROVE  Plain(e) /\ NeedsMore(e)
    <2>1. IsError(e) /\ Clone(e) = e /\ Compared(e) = e
      BY <1>2, OneLayer DEF H3DatagramErrorKinds
    <2>2. e[Len(e)].variant = "H3DatagramError" /\ e[1].kind = "Truncated"
      BY <1>2 DEF h3_datagram_error
    <2> QED
      BY <2>1, <2>2 DEF Plain, NeedsMore
  <1> QED
    BY <1>1, <1>2 DEF TornErrors, VarintErrors

LEMMA RefusalFacts ==
  ASSUME NEW e \in RefusalErrors
  PROVE  Plain(e) /\ ~NeedsMore(e)
  <1>1. ASSUME NEW kind \in {"LengthTooLarge", "LengthOverflow"}, NEW message,
               e = h3_datagram_error(kind, message)
        PROVE  Plain(e) /\ ~NeedsMore(e)
    <2>1. IsError(e) /\ Clone(e) = e /\ Compared(e) = e
      BY <1>1, OneLayer DEF H3DatagramErrorKinds
    <2>2. e[Len(e)].variant = "H3DatagramError" /\ e[1].kind = kind
      BY <1>1 DEF h3_datagram_error
    <2> QED
      BY <2>1, <2>2 DEF Plain, NeedsMore
  <1> QED
    BY <1>1 DEF RefusalErrors
-----------------------------------------------------------------------------
(* CodecStream.                                                             *)

\* On the stream bs, from start on, stands what the record s of sent says: a
\* header and a value, of the length declared unless that is too large.
CapsuleAt(bs, start, s, h, value) ==
  /\ s.end = start + HeaderSize(h) + Len(value) /\ s.end <= Len(bs)
  /\ Holds(bs, start, HeaderBytes(h) \o value)
  /\ s.capsule = [type |-> h.type, value |-> value]
  /\ IF s.huge THEN HeaderSize(h) + h.length > UsizeMax /\ value = <<>>
     ELSE h.length = Len(value) /\ HeaderSize(h) + Len(value) <= UsizeMax

IsCapsule(bs, start, s) ==
  \E h \in Headers, value \in Seq(Nat) : CapsuleAt(bs, start, s, h, value)

Decoded == [type : Nat, value : Seq(Nat)]

TypeOK ==
  /\ bytes \in Seq(Nat) /\ Len(bytes) <= Capacity
  /\ sent \in Seq([capsule : Decoded, huge : BOOLEAN, end : Nat])
  /\ arrived \in Nat /\ arrived <= Len(bytes)
  /\ offset \in Nat /\ offset <= arrived
  /\ read \in Seq(Decoded)

\* The stream is the capsules written, one after the other, and nothing else.
OnlyCapsules ==
  /\ \A i \in 1 .. Len(sent) : IsCapsule(bytes, EndOf(i - 1), sent[i])
  /\ EndOf(Len(sent)) = Len(bytes)

HugeIsLast == \A i \in 1 .. Len(sent) : sent[i].huge => i = Len(sent)

StreamInv == TypeOK /\ OnlyCapsules /\ HugeIsLast /\ ReadBack

\* The next capsule to be read is there, as far as byte n.
There(n) == Len(read) + 1 <= Len(sent) /\ n >= EndOf(Len(read) + 1)

\* What decode says of the bytes as far as n.
LEMMA Attempts ==
  ASSUME StreamInv, NEW n \in Nat, offset <= n, n <= Len(bytes)
  PROVE  LET next == Len(read) + 1
             a == decode_capsule(Unread(n))
         IN  /\ ~There(n) => \E e \in TornErrors : a = Err(e)
             /\ There(n) =>
                  IF sent[next].huge THEN \E e \in RefusalErrors : a = Err(e)
                  ELSE a = Ok([capsule  |-> sent[next].capsule,
                               consumed |-> EndOf(next) - offset])
  <1> DEFINE next == Len(read) + 1
             u == Unread(n)
  <1>1. /\ bytes \in Seq(Nat) /\ sent \in Seq([capsule : Decoded, huge : BOOLEAN, end : Nat])
        /\ offset \in Nat /\ read \in Seq(Decoded)
        /\ Len(read) <= Len(sent) /\ offset = EndOf(Len(read))
    BY DEF StreamInv, TypeOK, ReadBack
  <1>2. u \in Seq(Nat) /\ Len(u) = n - offset /\ \A i \in 1 .. n - offset : u[i] = bytes[offset + i]
    BY <1>1, Slice, Zenon DEF Unread
  <1> HIDE DEF u
  <1>3. CASE next > Len(sent)
    <2>1. EndOf(Len(sent)) = Len(bytes) /\ Len(read) = Len(sent)
      BY <1>1, <1>3 DEF StreamInv, OnlyCapsules
    <2>2. Len(u) = 0
      BY <1>1, <1>2, <2>1
    <2>3. u = <<>>
      BY <1>2, <2>2
    <2>4. decode(u) = EmptyBuffer
      BY <2>3 DEF decode
    <2>5. ~decode(u).ok /\ decode(u).error = InvalidVarInt("EmptyBuffer", <<"empty buffer">>)
      <3>1. \A e : ~Err(e).ok /\ Err(e).error = e
        BY DEF Err
      <3> QED
        BY <2>4, <3>1, Zenon DEF EmptyBuffer
    <2>6. decode_capsule(u) = Err(map_varint_err(InvalidVarInt("EmptyBuffer", <<"empty buffer">>)))
      BY <2>5, Zenon DEF decode_capsule
    <2>7. \E e \in TornErrors : decode_capsule(u) = Err(e)
      BY <2>6, Zenon DEF TornErrors, VarintErrors
    <2>8. ~There(n)
      BY <1>1, <1>3 DEF There
    <2> QED
      BY <2>7, <2>8, Zenon DEF u
  <1>4. CASE next <= Len(sent)
    <2>1. PICK k \in 1 .. Len(sent) : k = next /\ k - 1 = Len(read)
      BY <1>1, <1>4
    <2>2. EndOf(k - 1) = offset /\ EndOf(next) = sent[k].end
      BY <1>1, <2>1 DEF EndOf
    <2>3. IsCapsule(bytes, offset, sent[k])
      BY <2>2 DEF StreamInv, OnlyCapsules
    <2>4. PICK h \in Headers, value \in Seq(Nat) : CapsuleAt(bytes, offset, sent[k], h, value)
      BY <2>3, Zenon DEF IsCapsule
    <2>5. PICK w \in Seq(Nat) : w = HeaderBytes(h) \o value
      <3>1. PICK x \in Seq(Nat) : x = HeaderBytes(h)
        BY HeaderFacts, Zenon
      <3>2. x \o value \in Seq(Nat)
        OBVIOUS
      <3> QED
        BY <3>1, <3>2, Zenon
    <2>6. Holds(u, 0, w)
      <3>1. \A i \in 1 .. Len(w) : offset + i <= Len(bytes) => bytes[offset + i] = w[i]
        BY <2>4, <2>5, Zenon DEF CapsuleAt, Holds
      <3>2. ASSUME NEW i \in 1 .. Len(w), 0 + i <= Len(u) PROVE u[0 + i] = w[i]
        <4>1. i \in 1 .. n - offset /\ offset + i <= Len(bytes) /\ 0 + i = i
          BY <1>1, <1>2, <3>2
        <4> QED
          BY <1>2, <3>1, <4>1
      <3> QED
        BY <3>2, Zenon DEF Holds
    <2>7. Holds(u, 0, HeaderBytes(h) \o value)
      BY <2>5, <2>6, Zenon
    <2>8. PICK size \in Nat : size = HeaderSize(h)
      BY HeaderFacts, Zenon
    <2>9. /\ sent[k].end = offset + size + Len(value)
          /\ sent[k].capsule = [type |-> h.type, value |-> value]
          /\ sent[k].huge => size + h.length > UsizeMax /\ value = <<>>
          /\ ~sent[k].huge => h.length = Len(value) /\ size + Len(value) <= UsizeMax
      BY <2>4, <2>8, Zenon DEF CapsuleAt
    <2>10. There(n) <=> Len(u) >= size + Len(value)
      <3>1. There(n) <=> n >= EndOf(next)
        BY <1>4, Zenon DEF There
      <3>2. PICK e \in Nat : e = offset + size + Len(value)
        BY <1>1
      <3>3. There(n) <=> n >= e
        BY <2>2, <2>9, <3>1, <3>2, Zenon
      <3>4. n >= e <=> Len(u) >= size + Len(value)
        <4>1. offset \in Nat /\ Len(u) = n - offset
          BY <1>1, <1>2, Zenon
        <4> QED
          BY <3>2, <4>1
      <3> QED
        BY <3>3, <3>4, Zenon
    <2>11. CASE sent[k].huge
      <3>1. /\ Len(u) < size => \E e \in TornErrors : decode_capsule(u) = Err(e)
            /\ Len(u) >= size => \E e \in RefusalErrors : decode_capsule(u) = Err(e)
        BY <1>2, <2>7, <2>8, <2>9, <2>11, DecodeHuge, Zenon
      <3>2. Len(value) = 0
        BY <2>9, <2>11
      <3>3. There(n) <=> ~(Len(u) < size)
        BY <1>2, <2>10, <3>2
      <3>4. ~(Len(u) < size) => Len(u) >= size
        BY <1>2
      <3> QED
        BY <2>1, <2>11, <3>1, <3>3, <3>4, Zenon DEF u
    <2>12. CASE ~sent[k].huge
      <3>1. /\ Len(u) < size + Len(value) => \E e \in TornErrors : decode_capsule(u) = Err(e)
            /\ Len(u) >= size + Len(value) =>
                 decode_capsule(u) = Ok([capsule  |-> [type |-> h.type, value |-> value],
                                         consumed |-> size + Len(value)])
        BY <1>2, <2>7, <2>8, <2>9, <2>12, DecodeWhole, Zenon
      <3>2. ~(Len(u) >= size + Len(value)) => Len(u) < size + Len(value)
        BY <1>2
      <3>3. EndOf(next) - offset = size + Len(value)
        BY <1>1, <2>2, <2>9
      <3> QED
        BY <2>1, <2>9, <2>10, <2>12, <3>1, <3>2, <3>3, Zenon DEF u
    <2> QED
      BY <2>11, <2>12
  <1>5. next > Len(sent) \/ next <= Len(sent)
    BY <1>1
  <1> QED
    BY <1>3, <1>4, <1>5, Zenon

LEMMA PieceFacts ==
  ASSUME NEW h \in Headers, NEW value \in Seq(Nat)
  PROVE  /\ HeaderBytes(h) \o value \in Seq(Nat)
         /\ Len(HeaderBytes(h) \o value) = HeaderSize(h) + Len(value)
  <1>1. PICK x \in Seq(Nat) : x = HeaderBytes(h) /\ Len(x) = HeaderSize(h)
    BY HeaderFacts, Zenon
  <1>2. x \o value \in Seq(Nat) /\ Len(x \o value) = Len(x) + Len(value)
    OBVIOUS
  <1> QED
    BY <1>1, <1>2, Zenon

\* What is on the stream stays there when more is written behind it.
LEMMA StaysThere ==
  ASSUME NEW a \in Seq(Nat), NEW b \in Seq(Nat), NEW start \in Nat, NEW s,
         IsCapsule(a, start, s)
  PROVE  IsCapsule(a \o b, start, s)
  <1>1. PICK h \in Headers, value \in Seq(Nat) : CapsuleAt(a, start, s, h, value)
    BY Zenon DEF IsCapsule
  <1>2. PICK size \in Nat : size = HeaderSize(h)
    BY HeaderFacts, Zenon
  <1>3. PICK w \in Seq(Nat) : w = HeaderBytes(h) \o value /\ Len(w) = size + Len(value)
    BY <1>2, PieceFacts, Zenon
  <1>4. /\ s.end = start + size + Len(value) /\ s.end <= Len(a)
        /\ \A i \in 1 .. Len(w) : start + i <= Len(a) => a[start + i] = w[i]
    BY <1>1, <1>2, <1>3, Zenon DEF CapsuleAt, Holds
  <1>5. \A i \in 1 .. Len(w) : start + i <= Len(a)
    BY <1>3, <1>4
  <1>6. ASSUME NEW i \in 1 .. Len(w) PROVE (a \o b)[start + i] = w[i]
    <2>1. PICK k \in 1 .. Len(a) : k = start + i
      BY <1>5
    <2>2. (a \o b)[k] = a[k]
      OBVIOUS
    <2> QED
      BY <1>4, <2>1, <2>2
  <1>7. Holds(a \o b, start, w)
    BY <1>6, Zenon DEF Holds
  <1>8. s.end <= Len(a \o b)
    <2>1. Len(a \o b) = Len(a) + Len(b)
      OBVIOUS
    <2> QED
      BY <1>4, <2>1
  <1>9. CapsuleAt(a \o b, start, s, h, value)
    BY <1>1, <1>3, <1>7, <1>8, Zenon DEF CapsuleAt
  <1> QED
    BY <1>9, Zenon DEF IsCapsule

\* A writer that puts a header and a value on the stream keeps the invariant.
LEMMA PutKeeps ==
  ASSUME StreamInv, MayWrite, NEW h \in Headers, NEW value \in Seq(Nat), NEW huge \in BOOLEAN,
         Put(HeaderBytes(h) \o value, [type |-> h.type, value |-> value], huge),
         huge => HeaderSize(h) + h.length > UsizeMax /\ value = <<>>,
         ~huge => h.length = Len(value)
  PROVE  StreamInv'
  <1>1. PICK size \in Nat : size = HeaderSize(h)
    BY HeaderFacts, Zenon
  <1>2. PICK w \in Seq(Nat) : w = HeaderBytes(h) \o value /\ Len(w) = size + Len(value)
    BY <1>1, PieceFacts, Zenon
  <1>3. PICK c \in Decoded : c = [type |-> h.type, value |-> value]
    BY HeaderFacts DEF Decoded
  <1>4. PICK s : s = [capsule |-> c, huge |-> huge, end |-> Len(bytes) + Len(w)]
    OBVIOUS
  <1>5. /\ Len(bytes) + Len(w) <= Capacity /\ bytes' = bytes \o w /\ sent' = Append(sent, s)
        /\ arrived' = arrived /\ offset' = offset /\ read' = read
    BY <1>2, <1>3, <1>4, Zenon DEF Put
  <1>6. /\ bytes \in Seq(Nat) /\ sent \in Seq([capsule : Decoded, huge : BOOLEAN, end : Nat])
        /\ arrived \in Nat /\ arrived <= Len(bytes) /\ offset \in Nat /\ offset <= arrived
        /\ read \in Seq(Decoded)
    BY DEF StreamInv, TypeOK
  <1>7. /\ s \in [capsule : Decoded, huge : BOOLEAN, end : Nat]
        /\ s.capsule = c /\ s.huge = huge /\ s.end = Len(bytes) + Len(w)
    BY <1>4, <1>6
  <1>8. bytes \o w \in Seq(Nat) /\ Len(bytes \o w) = Len(bytes) + Len(w)
    BY <1>6
  <1>9. /\ sent' \in Seq([capsule : Decoded, huge : BOOLEAN, end : Nat])
        /\ Len(sent') = Len(sent) + 1 /\ sent'[Len(sent) + 1] = s
        /\ \A i \in 1 .. Len(sent) : sent'[i] = sent[i]
    BY <1>5, <1>6, <1>7
  <1>10. TypeOK'
    <2>1. Len(bytes') <= Capacity /\ arrived' <= Len(bytes')
      BY <1>5, <1>6, <1>8
    <2> QED
      BY <1>5, <1>6, <1>8, <1>9, <2>1, Zenon DEF TypeOK
  <1>11. \A i \in 0 .. Len(sent) : EndOf(i)' = EndOf(i)
    BY <1>6, <1>9, SMTT(30) DEF EndOf
  <1>12. EndOf(Len(sent)) = Len(bytes)
    BY DEF StreamInv, OnlyCapsules
  <1>13. OnlyCapsules'
    <2>1. ASSUME NEW i \in 1 .. Len(sent)
          PROVE  IsCapsule(bytes', EndOf(i - 1)', sent'[i])
      <3>1. IsCapsule(bytes, EndOf(i - 1), sent[i])
        BY DEF StreamInv, OnlyCapsules
      <3>2. i - 1 \in 0 .. Len(sent)
        BY <1>6
      <3>3. EndOf(i - 1) \in Nat
        <4>1. CASE i = 1
          BY <4>1 DEF EndOf
        <4>2. CASE i # 1
          <5>1. PICK k \in 1 .. Len(sent) : k = i - 1
            BY <1>6, <4>2
          <5>2. sent[k] \in [capsule : Decoded, huge : BOOLEAN, end : Nat]
            BY <1>6, ElementOfSeq, Zenon
          <5>3. EndOf(k) \in Nat
            BY <5>2 DEF EndOf
          <5> QED
            BY <5>1, <5>3, Zenon
        <4> QED
          BY <4>1, <4>2
      <3>4. IsCapsule(bytes \o w, EndOf(i - 1), sent[i])
        BY <1>6, <3>1, <3>3, StaysThere, Zenon
      <3> QED
        BY <1>5, <1>9, <1>11, <3>2, <3>4, Zenon
    <2>2. IsCapsule(bytes', Len(bytes), s)
      <3>1. Holds(bytes \o w, Len(bytes), w)
        <4>1. \A i \in 1 .. Len(w) : (bytes \o w)[Len(bytes) + i] = w[i]
          BY <1>6, SMTT(30)
        <4> QED
          BY <4>1, Zenon DEF Holds
      <3>2. s.end = Len(bytes) + size + Len(value) /\ s.end <= Len(bytes')
        BY <1>2, <1>5, <1>6, <1>7, <1>8
      <3>3. ~huge => size + Len(value) <= UsizeMax
        <4>1. Capacity \in Nat /\ Capacity <= UsizeMax
          BY StreamAssumption, UsizeAssumption
        <4> QED
          BY <1>2, <1>5, <1>6, <4>1, UsizeAssumption
      <3>4. CapsuleAt(bytes', Len(bytes), s, h, value)
        BY <1>1, <1>2, <1>3, <1>5, <1>7, <3>1, <3>2, <3>3, Zenon DEF CapsuleAt
      <3> QED
        BY <3>4, Zenon DEF IsCapsule
    <2>3. ASSUME NEW i \in 1 .. Len(sent')
          PROVE  IsCapsule(bytes', EndOf(i - 1)', sent'[i])
      <3>1. CASE i \in 1 .. Len(sent)
        BY <2>1, <3>1, Zenon
      <3>2. CASE i = Len(sent) + 1
        <4>1. i - 1 = Len(sent) /\ Len(sent) \in 0 .. Len(sent)
          BY <1>6, <3>2
        <4>2. EndOf(i - 1)' = Len(bytes)
          BY <1>11, <1>12, <4>1, Zenon
        <4> QED
          BY <1>9, <2>2, <3>2, <4>2, Zenon
      <3>3. i \in 1 .. Len(sent) \/ i = Len(sent) + 1
        BY <1>6, <1>9
      <3> QED
        BY <3>1, <3>2, <3>3, Zenon
    <2>4. EndOf(Len(sent))' = Len(bytes')
      <3>1. Len(sent') # 0
        BY <1>6, <1>9
      <3> QED
        BY <1>5, <1>7, <1>8, <1>9, <3>1, Zenon DEF EndOf
    <2> QED
      BY <2>3, <2>4, Zenon DEF OnlyCapsules
  <1>14. HugeIsLast'
    <2>1. ASSUME NEW i \in 1 .. Len(sent'), sent'[i].huge PROVE i = Len(sent')
      <3>1. CASE i \in 1 .. Len(sent)
        <4>1. sent[i].huge
          BY <1>9, <2>1, <3>1
        <4>2. i = Len(sent)
          BY <3>1, <4>1 DEF StreamInv, HugeIsLast
        <4>3. sent # <<>>
          BY <1>6, <3>1
        <4> QED
          BY <4>1, <4>2, <4>3 DEF MayWrite
      <3>2. CASE i = Len(sent) + 1
        BY <1>9, <3>2
      <3>3. i \in 1 .. Len(sent) \/ i = Len(sent) + 1
        BY <1>6, <1>9
      <3> QED
        BY <3>1, <3>2, <3>3, Zenon
    <2> QED
      BY <2>1, Zenon DEF HugeIsLast
  <1>15. ReadBack'
    <2>1. /\ Len(read) <= Len(sent) /\ \A i \in DOMAIN read : read[i] = sent[i].capsule
          /\ offset = EndOf(Len(read))
      BY DEF StreamInv, ReadBack
    <2>2. Len(read') <= Len(sent')
      BY <1>5, <1>6, <1>9, <2>1
    <2>3. ASSUME NEW i \in DOMAIN read PROVE read[i] = sent'[i].capsule
      <3>1. i \in 1 .. Len(sent)
        BY <1>6, <2>1, SMTT(30)
      <3> QED
        BY <1>9, <2>1, <3>1, Zenon
    <2>4. EndOf(Len(read))' = offset
      <3>1. Len(read) \in 0 .. Len(sent)
        BY <1>6, <2>1
      <3> QED
        BY <1>5, <1>11, <2>1, <3>1, Zenon
    <2> QED
      BY <1>5, <2>2, <2>3, <2>4, Zenon DEF ReadBack
  <1> QED
    BY <1>10, <1>13, <1>14, <1>15 DEF StreamInv

LEMMA StreamInit ==
  ASSUME Init
  PROVE  StreamInv
  <1>1. /\ bytes = <<>> /\ sent = <<>> /\ arrived = 0 /\ offset = 0 /\ read = <<>>
        /\ Len(<<>>) = 0
    BY DEF Init
  <1>2. TypeOK
    BY <1>1, StreamAssumption, UsizeAssumption DEF TypeOK
  <1>3. OnlyCapsules /\ HugeIsLast /\ ReadBack
    BY <1>1 DEF OnlyCapsules, HugeIsLast, ReadBack, EndOf
  <1> QED
    BY <1>2, <1>3 DEF StreamInv

LEMMA PayloadFacts ==
  ASSUME NEW value \in Payloads
  PROVE  value \in Seq(Nat)
  <1>1. 0 .. Base - 1 \subseteq Nat
    BY BaseFacts
  <1> QED
    BY <1>1, StreamAssumption, SeqMonotonic

\* What may be written: a value whose length an integer can hold.
LEMMA Writable ==
  ASSUME NEW type \in Types, NEW value \in Payloads
  PROVE  /\ type \in Nat /\ value \in Seq(Nat)
         /\ NewCapsuleType(type).ok => NewCapsuleType(type).value = type /\ type <= MAX_VARINT
         /\ NewCapsule(type, value).ok =>
              /\ NewCapsule(type, value).value = [type |-> type, value |-> value]
              /\ Len(value) <= MAX_VARINT
  <1>1. type \in Nat /\ value \in Seq(Nat)
    BY PayloadFacts, StreamAssumption
  <1>2. /\ \A v : Ok(v).ok /\ Ok(v).value = v
        /\ \A e : ~Err(e).ok
    BY DEF Ok, Err
  <1>3. NewCapsuleType(type).ok => NewCapsuleType(type).value = type /\ ~(type > MAX_VARINT)
    BY <1>2, Zenon DEF NewCapsuleType
  <1>4. NewCapsule(type, value).ok =>
          /\ NewCapsule(type, value).value = [type |-> type, value |-> value]
          /\ ~(Len(value) > MAX_VARINT)
    BY <1>2, Zenon DEF NewCapsule
  <1> QED
    BY <1>1, <1>3, <1>4, RoomFacts

LEMMA WriteEncodedKeeps ==
  ASSUME StreamInv, NEW type \in Types, NEW value \in Payloads, WriteEncoded(type, value)
  PROVE  StreamInv'
  <1>1. /\ MayWrite /\ type \in Nat /\ type <= MAX_VARINT
        /\ value \in Seq(Nat) /\ Len(value) <= MAX_VARINT
        /\ Put(encode_capsule([type |-> type, value |-> value]),
               [type |-> type, value |-> value], FALSE)
    <2>1. type \in Nat /\ value \in Seq(Nat)
      BY Writable
    <2>2. MayWrite /\ NewCapsuleType(type).ok
      BY Zenon DEF WriteEncoded
    <2>3. NewCapsuleType(type).value = type /\ type <= MAX_VARINT
      BY <2>2, Writable, Zenon
    <2>4. NewCapsule(type, value).ok
      BY <2>3, Zenon DEF WriteEncoded
    <2>5. /\ NewCapsule(type, value).value = [type |-> type, value |-> value]
          /\ Len(value) <= MAX_VARINT
      BY <2>4, Writable, Zenon
    <2>6. Put(encode_capsule(NewCapsule(type, value).value), NewCapsule(type, value).value, FALSE)
      BY <2>3, Zenon DEF WriteEncoded
    <2> QED
      BY <2>1, <2>2, <2>3, <2>5, <2>6, Zenon
  <1>2. PICK h \in Headers : h = ShortHeader(type, Len(value)) /\ h.type = type /\ h.length = Len(value)
    <2>1. Len(value) \in Nat
      BY <1>1
    <2> QED
      BY <1>1, <2>1, ShortHeaderFacts, ZenonT(40)
  <1>3. PICK c : c = [type |-> type, value |-> value] /\ c.type = type /\ c.value = value
    <2>1. /\ [type |-> type, value |-> value].type = type
          /\ [type |-> type, value |-> value].value = value
      OBVIOUS
    <2> QED
      BY <2>1, Zenon
  <1>4. encode_capsule(c) = HeaderBytes(h) \o value
    BY <1>1, <1>2, <1>3, EncodedCapsule, Zenon DEF encode_capsule
  <1>5. Put(HeaderBytes(h) \o value, [type |-> h.type, value |-> value], FALSE)
    BY <1>1, <1>2, <1>3, <1>4, Zenon
  <1> QED
    BY <1>1, <1>2, <1>5, PutKeeps, Zenon

LEMMA WriteIntoKeeps ==
  ASSUME StreamInv, NEW type \in Types, NEW value \in Payloads, WriteInto(type, value)
  PROVE  StreamInv'
  <1> DEFINE c == [type |-> type, value |-> value]
             w == encode_capsule_into(c, Zeros(Capacity - Len(bytes)))
  <1>1. /\ MayWrite /\ type \in Nat /\ type <= MAX_VARINT
        /\ value \in Seq(Nat) /\ Len(value) <= MAX_VARINT
        /\ w.ok /\ Put(SubSeq(w.value.buf, 1, w.value.total), c, FALSE)
    BY Writable, Zenon DEF WriteInto
  <1>2. PICK h \in Headers : h = ShortHeader(type, Len(value)) /\ h.type = type /\ h.length = Len(value)
    <2>1. Len(value) \in Nat
      BY <1>1
    <2> QED
      BY <1>1, <2>1, ShortHeaderFacts, Zenon
  <1>3. PICK room \in Nat : room = Capacity - Len(bytes)
    <2>1. bytes \in Seq(Nat) /\ Len(bytes) <= Capacity
      BY DEF StreamInv, TypeOK
    <2> QED
      BY <2>1, StreamAssumption, UsizeAssumption
  <1>4. SubSeq(w.value.buf, 1, w.value.total) = HeaderBytes(h) \o value
    BY <1>1, <1>2, <1>3, EncodeInto, Zenon
  <1>5. Put(HeaderBytes(h) \o value, [type |-> h.type, value |-> value], FALSE)
    BY <1>1, <1>2, <1>4, Zenon
  <1> QED
    BY <1>1, <1>2, <1>5, PutKeeps, Zenon

LEMMA WriteDatagramKeeps ==
  ASSUME StreamInv, NEW stream_id \in Streams, NEW payload \in Payloads,
         WriteDatagram(stream_id, payload)
  PROVE  StreamInv'
  <1>1. payload \in Seq(Nat)
    BY PayloadFacts
  <1>2. /\ \A v : Ok(v).ok /\ Ok(v).value = v
        /\ \A e : ~Err(e).ok
    BY DEF Ok, Err
  <1>3. PICK d : d = [stream_id |-> stream_id, payload |-> payload] /\ d.payload = payload
    <2>1. [stream_id |-> stream_id, payload |-> payload].payload = payload
      OBVIOUS
    <2> QED
      BY <2>1, Zenon
  <1>4. NewHttpDatagram(stream_id, payload).ok => NewHttpDatagram(stream_id, payload).value = d
    BY <1>2, <1>3, Zenon DEF NewHttpDatagram
  <1>5. /\ MayWrite
        /\ Put(append_datagram_capsule(d, <<>>), [type |-> DATAGRAM, value |-> payload], FALSE)
    BY <1>4, Zenon DEF WriteDatagram
  <1>6. PICK n \in Nat : n = Len(payload) /\ n <= MAX_VARINT
    <2>1. encode_into(Len(payload), Zeros(8)).ok
      BY Zenon DEF WriteDatagram
    <2>2. Valid(Len(payload))
      BY <1>2, <2>1, Zenon DEF encode_into, encode_into_at
    <2> QED
      BY <1>1, <2>2, RoomFacts DEF Valid
  <1>7. 0 \in Nat /\ 0 <= MAX_VARINT
    BY RoomFacts
  <1>8. PICK h \in Headers : h = ShortHeader(0, n) /\ h.type = 0 /\ h.length = n
    BY <1>6, <1>7, ShortHeaderFacts, Zenon
  <1>9. append_datagram_capsule(d, <<>>) = HeaderBytes(h) \o payload
    <2>1. append_datagram_capsule(d, <<>>) = <<>> \o Encoded(0) \o Encoded(n) \o payload
      BY <1>3, <1>6, Zenon DEF append_datagram_capsule, DATAGRAM
    <2>2. PICK a \in Seq(Nat) : a = Encoded(0)
      BY <1>7, EncodedIsForm, ShortestFacts, IsFormFacts, Zenon
    <2>3. <<>> \o a = a
      OBVIOUS
    <2>4. Encoded(0) \o Encoded(n) \o payload = HeaderBytes(h) \o payload
      BY <1>1, <1>6, <1>7, <1>8, EncodedCapsule, Zenon
    <2> QED
      BY <2>1, <2>2, <2>3, <2>4, Zenon
  <1>10. Put(HeaderBytes(h) \o payload, [type |-> h.type, value |-> payload], FALSE)
    BY <1>5, <1>8, <1>9, Zenon DEF DATAGRAM
  <1> QED
    BY <1>1, <1>5, <1>6, <1>8, <1>10, PutKeeps, Zenon

LEMMA WriteForeignKeeps ==
  ASSUME StreamInv, NEW type \in ForeignTypes, NEW value \in Payloads,
         NEW tl \in Lengths, NEW ll \in Lengths, WriteForeign(type, value, tl, ll)
  PROVE  StreamInv'
  <1>1. value \in Seq(Nat)
    BY PayloadFacts
  <1>2. type \in Nat /\ type < Room(tl)
    <2>1. type \in 0 .. 1
      BY StreamAssumption
    <2>2. Room(tl) \in Nat /\ Room(tl) >= Quarter
      BY RoomFacts, BaseFacts DEF Lengths
    <2> QED
      BY <2>1, <2>2, BaseFacts
  <1>3. /\ MayWrite /\ Len(value) < Room(ll)
        /\ Put(Form(type, tl) \o Form(Len(value), ll) \o value,
               [type |-> type, value |-> value], FALSE)
    BY Zenon DEF WriteForeign
  <1>h. PICK h : h = [type |-> type, type_len |-> tl, length |-> Len(value), length_len |-> ll]
    OBVIOUS
  <1>4. h.type = type /\ h.type_len = tl /\ h.length = Len(value) /\ h.length_len = ll
    BY <1>h
  <1>5. h \in Headers
    <2>1. h \in [type : Nat, type_len : Lengths, length : Nat, length_len : Lengths]
      BY <1>1, <1>2, <1>h
    <2> QED
      BY <1>2, <1>3, <1>4, <2>1, Zenon DEF Headers
  <1>6. Put(HeaderBytes(h) \o value, [type |-> h.type, value |-> value], FALSE)
    BY <1>3, <1>4, Zenon DEF HeaderBytes
  <1> QED
    BY <1>1, <1>3, <1>4, <1>5, <1>6, PutKeeps, Zenon

LEMMA WriteHugeKeeps ==
  ASSUME StreamInv, NEW type \in ForeignTypes, NEW length \in {UsizeMax - 1, UsizeMax + 1},
         WriteHuge(type, length)
  PROVE  StreamInv'
  <1>1. type \in Nat /\ type < Room(1) /\ 1 \in Lengths /\ 8 \in Lengths
    <2>1. type \in 0 .. 1
      BY StreamAssumption
    <2>2. Room(1) = Quarter
      BY RoomFacts
    <2> QED
      BY <2>1, <2>2, BaseFacts DEF Lengths
  <1>2. length \in Nat /\ length < Room(8)
    <2>1. length \in 0 .. MAX_VARINT
      BY Zenon DEF WriteHuge, Valid
    <2>2. Room(8) \in Nat /\ MAX_VARINT = Room(8) - 1
      BY <1>1, RoomFacts
    <2> QED
      BY <2>1, <2>2
  <1>3. /\ MayWrite
        /\ Put(Form(type, 1) \o Form(length, 8), [type |-> type, value |-> <<>>], TRUE)
    BY Zenon DEF WriteHuge
  <1>h. PICK h : h = [type |-> type, type_len |-> 1, length |-> length, length_len |-> 8]
    OBVIOUS
  <1>4. h.type = type /\ h.type_len = 1 /\ h.length = length /\ h.length_len = 8
    BY <1>h
  <1>5. h \in Headers
    <2>1. h \in [type : Nat, type_len : Lengths, length : Nat, length_len : Lengths]
      BY <1>1, <1>2, <1>h
    <2> QED
      BY <1>1, <1>2, <1>4, <2>1, Zenon DEF Headers
  <1>6. HeaderSize(h) + h.length > UsizeMax
    <2>1. HeaderSize(h) = 9
      BY <1>4 DEF HeaderSize
    <2> QED
      BY <1>4, <2>1, UsizeAssumption
  <1>7. <<>> \in Seq(Nat)
    OBVIOUS
  <1>8. HeaderBytes(h) \o <<>> = Form(type, 1) \o Form(length, 8)
    <2>1. PICK x \in Seq(Nat) : x = HeaderBytes(h)
      BY <1>5, HeaderFacts, Zenon
    <2>2. x \o <<>> = x
      OBVIOUS
    <2> QED
      BY <1>4, <2>1, <2>2, Zenon DEF HeaderBytes
  <1>9. Put(HeaderBytes(h) \o <<>>, [type |-> h.type, value |-> <<>>], TRUE)
    BY <1>3, <1>4, <1>8, Zenon
  <1> QED
    BY <1>3, <1>5, <1>6, <1>7, <1>9, PutKeeps, Zenon

LEMMA StutterKeeps ==
  ASSUME StreamInv, UNCHANGED <<bytes, sent, arrived, offset, read>>
  PROVE  StreamInv'
  <1>1. TypeOK'
    BY DEF StreamInv, TypeOK
  <1>2. /\ \A i : EndOf(i)' = EndOf(i)
        /\ EndOf(Len(sent))' = EndOf(Len(sent)) /\ EndOf(Len(read))' = EndOf(Len(read))
    BY DEF EndOf
  <1>3. OnlyCapsules' /\ HugeIsLast' /\ ReadBack'
    BY <1>2, Zenon DEF StreamInv, OnlyCapsules, HugeIsLast, ReadBack
  <1> QED
    BY <1>1, <1>3 DEF StreamInv

LEMMA ArriveKeeps ==
  ASSUME StreamInv, Arrive
  PROVE  StreamInv'
  <1>1. /\ arrived' \in Nat /\ arrived' <= Len(bytes) /\ arrived <= arrived'
        /\ UNCHANGED <<bytes, sent, offset, read>>
    BY DEF Arrive, StreamInv, TypeOK
  <1>2. TypeOK'
    BY <1>1 DEF StreamInv, TypeOK
  <1>3. /\ \A i : EndOf(i)' = EndOf(i)
        /\ EndOf(Len(sent))' = EndOf(Len(sent)) /\ EndOf(Len(read))' = EndOf(Len(read))
    BY <1>1 DEF EndOf
  <1>4. OnlyCapsules' /\ HugeIsLast' /\ ReadBack'
    BY <1>1, <1>3, Zenon DEF StreamInv, OnlyCapsules, HugeIsLast, ReadBack
  <1> QED
    BY <1>2, <1>4 DEF StreamInv

\* What an attempt that succeeds has read: the next capsule, which is all there.
LEMMA Succeeds ==
  ASSUME StreamInv, Attempt.ok
  PROVE  LET next == Len(read) + 1
         IN  /\ There(arrived) /\ ~sent[next].huge
             /\ Attempt = Ok([capsule  |-> sent[next].capsule,
                              consumed |-> EndOf(next) - offset])
  <1>1. arrived \in Nat /\ offset <= arrived /\ arrived <= Len(bytes)
    BY DEF StreamInv, TypeOK
  <1>2. \A e : ~Err(e).ok
    BY DEF Err
  <1> QED
    BY <1>1, <1>2, Attempts, Zenon DEF Attempt

LEMMA ConsumeKeeps ==
  ASSUME StreamInv, There(arrived),
         Consume(sent[Len(read) + 1].capsule, EndOf(Len(read) + 1) - offset)
  PROVE  StreamInv'
  <1>1. /\ sent \in Seq([capsule : Decoded, huge : BOOLEAN, end : Nat])
        /\ arrived \in Nat /\ arrived <= Len(bytes) /\ offset \in Nat /\ offset <= arrived
        /\ read \in Seq(Decoded)
    BY DEF StreamInv, TypeOK
  <1>2. /\ Len(read) <= Len(sent) /\ \A i \in DOMAIN read : read[i] = sent[i].capsule
        /\ offset = EndOf(Len(read))
    BY DEF StreamInv, ReadBack
  <1>3. PICK n \in 1 .. Len(sent) : n = Len(read) + 1
    BY <1>1 DEF There
  <1>4. PICK s \in [capsule : Decoded, huge : BOOLEAN, end : Nat] : s = sent[n]
    BY <1>1, ElementOfSeq, Zenon
  <1>5. EndOf(n) = s.end /\ s.end \in Nat /\ s.capsule \in Decoded /\ s.end <= arrived
    <2>1. EndOf(n) = s.end
      BY <1>3, <1>4 DEF EndOf
    <2>2. arrived >= s.end
      BY <1>3, <2>1, Zenon DEF There
    <2> QED
      BY <1>1, <1>4, <2>1, <2>2
  <1>6. /\ read' = Append(read, s.capsule) /\ offset' = offset + (s.end - offset)
        /\ UNCHANGED <<bytes, sent, arrived>>
    BY <1>3, <1>4, <1>5, Zenon DEF Consume
  <1>7. /\ read' \in Seq(Decoded) /\ Len(read') = n /\ read'[n] = s.capsule
        /\ \A i \in 1 .. Len(read) : read'[i] = read[i]
    BY <1>1, <1>3, <1>5, <1>6
  <1>8. offset' = s.end
    BY <1>1, <1>5, <1>6
  <1>9. TypeOK'
    BY <1>5, <1>6, <1>7, <1>8 DEF StreamInv, TypeOK
  <1>10. /\ \A i : EndOf(i)' = EndOf(i) /\ EndOf(Len(sent))' = EndOf(Len(sent))
    BY <1>6 DEF EndOf
  <1>11. OnlyCapsules' /\ HugeIsLast'
    BY <1>6, <1>10, Zenon DEF StreamInv, OnlyCapsules, HugeIsLast
  <1>12. ReadBack'
    <2>1. Len(read') <= Len(sent')
      BY <1>6, <1>7
    <2>2. ASSUME NEW i \in DOMAIN read' PROVE read'[i] = sent'[i].capsule
      <3>1. i \in 1 .. Len(read) \/ i = n
        BY <1>1, <1>3, <1>7
      <3>2. CASE i \in 1 .. Len(read)
        <4>1. i \in DOMAIN read
          BY <1>1, <3>2
        <4> QED
          BY <1>2, <1>6, <1>7, <3>2, <4>1, Zenon
      <3>3. CASE i = n
        BY <1>4, <1>6, <1>7, <3>3, Zenon
      <3> QED
        BY <3>1, <3>2, <3>3, Zenon
    <2>3. offset' = EndOf(Len(read))'
      <3>1. EndOf(Len(read))' = IF Len(read') = 0 THEN 0 ELSE sent'[Len(read')].end
        BY DEF EndOf
      <3> QED
        BY <1>3, <1>4, <1>6, <1>7, <1>8, <3>1
    <2> QED
      BY <2>1, <2>2, <2>3 DEF ReadBack
  <1> QED
    BY <1>9, <1>11, <1>12 DEF StreamInv

LEMMA ReadCapsuleKeeps ==
  ASSUME StreamInv, ReadCapsule
  PROVE  StreamInv'
  <1>1. Attempt.ok /\ Consume(Attempt.value.capsule, Attempt.value.consumed)
    BY DEF ReadCapsule
  <1>2. PICK c, n : /\ There(arrived) /\ Attempt = Ok([capsule |-> c, consumed |-> n])
                    /\ c = sent[Len(read) + 1].capsule /\ n = EndOf(Len(read) + 1) - offset
    BY <1>1, Succeeds, Zenon
  <1>3. Attempt.value.capsule = c /\ Attempt.value.consumed = n
    BY <1>2 DEF Ok
  <1> QED
    BY <1>1, <1>2, <1>3, ConsumeKeeps, Zenon

LEMMA ReadDatagramKeeps ==
  ASSUME StreamInv, NEW stream_id \in Streams, ReadDatagram(stream_id)
  PROVE  StreamInv'
  <1> DEFINE d == decode_datagram_capsule(Unread(arrived), stream_id)
  <1>1. d.ok /\ Consume([type |-> DATAGRAM, value |-> d.value.datagram.payload], d.value.consumed)
    BY DEF ReadDatagram
  <1>2. /\ \A v : Ok(v).ok /\ Ok(v).value = v
        /\ \A e : ~Err(e).ok
    BY DEF Ok, Err
  <1>3. Attempt.ok /\ is_datagram(Attempt.value.capsule.type)
    BY <1>1, <1>2, Zenon DEF decode_datagram_capsule, Attempt
  <1>4. PICK c, n : /\ There(arrived) /\ Attempt = Ok([capsule |-> c, consumed |-> n])
                    /\ c = sent[Len(read) + 1].capsule /\ n = EndOf(Len(read) + 1) - offset
    BY <1>3, Succeeds, Zenon
  <1>5. Attempt.value.capsule = c /\ Attempt.value.consumed = n
    BY <1>4 DEF Ok
  <1>6. PICK p : p = [stream_id |-> stream_id, payload |-> c.value]
    OBVIOUS
  <1>7. d.value = [datagram |-> p, consumed |-> n]
    <2>1. /\ NewHttpDatagram(stream_id, c.value).ok
          /\ d = Ok([datagram |-> NewHttpDatagram(stream_id, c.value).value, consumed |-> n])
      BY <1>1, <1>2, <1>3, <1>5, Zenon DEF decode_datagram_capsule, Attempt
    <2>2. NewHttpDatagram(stream_id, c.value).value = p
      BY <1>2, <1>6, <2>1, Zenon DEF NewHttpDatagram
    <2> QED
      BY <1>2, <2>1, <2>2, Zenon
  <1>8. d.value.datagram.payload = c.value /\ d.value.consumed = n
    BY <1>6, <1>7
  <1>9. c = [type |-> DATAGRAM, value |-> c.value]
    <2>1. c \in Decoded
      <3>1. sent \in Seq([capsule : Decoded, huge : BOOLEAN, end : Nat]) /\ read \in Seq(Decoded)
        BY DEF StreamInv, TypeOK
      <3>2. PICK k \in 1 .. Len(sent) : k = Len(read) + 1
        BY <1>4, <3>1 DEF There
      <3>3. sent[k] \in [capsule : Decoded, huge : BOOLEAN, end : Nat]
        BY <3>1, ElementOfSeq, Zenon
      <3> QED
        BY <1>4, <3>2, <3>3
    <2>2. c.type = DATAGRAM
      BY <1>3, <1>5 DEF is_datagram
    <2> QED
      BY <2>1, <2>2 DEF Decoded
  <1> QED
    BY <1>1, <1>4, <1>8, <1>9, ConsumeKeeps, Zenon

LEMMA StreamNext ==
  ASSUME StreamInv, [Next]_vars
  PROVE  StreamInv'
  <1>1. ASSUME NEW type \in Types, NEW value \in Payloads,
               WriteEncoded(type, value) \/ WriteInto(type, value)
        PROVE  StreamInv'
    BY <1>1, WriteEncodedKeeps, WriteIntoKeeps
  <1>2. ASSUME NEW stream_id \in Streams, NEW payload \in Payloads,
               WriteDatagram(stream_id, payload)
        PROVE  StreamInv'
    BY <1>2, WriteDatagramKeeps
  <1>3. ASSUME NEW stream_id, NEW payload, SendFrame(stream_id, payload)
        PROVE  StreamInv'
    BY <1>3, StutterKeeps DEF SendFrame
  <1>4. ASSUME NEW type \in ForeignTypes, NEW value \in Payloads, NEW tl \in Lengths, NEW ll \in Lengths,
               WriteForeign(type, value, tl, ll)
        PROVE  StreamInv'
    BY <1>4, WriteForeignKeeps
  <1>5. ASSUME NEW type \in ForeignTypes, NEW length \in {UsizeMax - 1, UsizeMax + 1},
               WriteHuge(type, length)
        PROVE  StreamInv'
    BY <1>5, WriteHugeKeeps
  <1>6. CASE Arrive
    BY <1>6, ArriveKeeps
  <1>7. CASE ReadCapsule
    BY <1>7, ReadCapsuleKeeps
  <1>8. ASSUME NEW stream_id \in Streams, ReadDatagram(stream_id)
        PROVE  StreamInv'
    BY <1>8, ReadDatagramKeeps
  <1>9. ASSUME NEW quarter, NEW ql, NEW context, NEW cl, NEW udp, NEW size,
               SendForeignFrame(quarter, ql, context, cl, udp, size)
        PROVE  StreamInv'
    BY <1>9, StutterKeeps DEF SendForeignFrame
  <1>10. CASE EndFrame
    BY <1>10, StutterKeeps DEF EndFrame
  <1>11. CASE UNCHANGED vars
    BY <1>11, StutterKeeps DEF vars
  <1> QED
    BY <1>1, <1>2, <1>3, <1>4, <1>5, <1>6, <1>7, <1>8, <1>9, <1>10, <1>11, Zenon DEF Next

LEMMA StreamInvariant == Spec => []StreamInv
  BY StreamInit, StreamNext, PTL DEF Spec

\* ReadBack: the reader gets back what was written, in order.
THEOREM CapsulesAreReadBack == Spec => []ReadBack
  <1>1. StreamInv => ReadBack
    BY DEF StreamInv
  <1> QED
    BY <1>1, StreamInvariant, PTL

LEMMA ErrIs == \A e : ~Err(e).ok /\ Err(e).error = e
  BY DEF Err

\* IncompleteIsExact: decode succeeds on the next capsule as soon as it is all
\* there, and asks for more bytes exactly as long as it is not.
THEOREM MoreIsAskedExactly == Spec => []IncompleteIsExact
  <1>1. ASSUME StreamInv PROVE IncompleteIsExact
    <2>1. arrived \in Nat /\ offset <= arrived /\ arrived <= Len(bytes)
      BY <1>1 DEF StreamInv, TypeOK
    <2> DEFINE next == Len(read) + 1
    <2>2. /\ ~There(arrived) => \E e \in TornErrors : Attempt = Err(e)
          /\ There(arrived) => IF sent[next].huge THEN \E e \in RefusalErrors : Attempt = Err(e)
                               ELSE Attempt = Ok([capsule  |-> sent[next].capsule,
                                                  consumed |-> EndOf(next) - offset])
      BY <1>1, <2>1, Attempts, Zenon DEF Attempt
    <2>3. ASSUME ~There(arrived)
          PROVE  ~Attempt.ok /\ NeedsMore(Clone(Attempt.error))
      <3>1. PICK e \in TornErrors : Attempt = Err(e)
        BY <2>2, <2>3
      <3>2. Clone(e) = e /\ NeedsMore(e)
        BY TornFacts DEF Plain
      <3> QED
        BY <3>1, <3>2, ErrIs, Zenon
    <2>4. ASSUME There(arrived), sent[next].huge
          PROVE  ~Attempt.ok /\ ~NeedsMore(Clone(Attempt.error))
      <3>1. PICK e \in RefusalErrors : Attempt = Err(e)
        BY <2>2, <2>4
      <3>2. Clone(e) = e /\ ~NeedsMore(e)
        BY RefusalFacts DEF Plain
      <3> QED
        BY <3>1, <3>2, ErrIs, Zenon
    <2>5. ASSUME There(arrived), ~sent[next].huge PROVE Attempt.ok
      BY <2>2, <2>5 DEF Ok
    <2>6. There(arrived) <=> next <= Len(sent) /\ arrived >= EndOf(next)
      BY DEF There
    <2> QED
      BY <2>3, <2>4, <2>5, <2>6, Zenon DEF IncompleteIsExact
  <1> QED
    BY <1>1, StreamInvariant, PTL

\* EqualErrorsAlike: an error of decode is equal to its clone, and to no error
\* that prints or is decided differently.
THEOREM EqualErrorsAreAlike == Spec => []EqualErrorsAlike
  <1>1. ASSUME StreamInv PROVE EqualErrorsAlike
    <2>1. offset \in Nat /\ arrived \in Nat /\ offset <= arrived /\ arrived <= Len(bytes)
      BY <1>1 DEF StreamInv, TypeOK
    <2>2. ASSUME NEW n \in offset .. arrived, ~decode_capsule(Unread(n)).ok
          PROVE  Plain(decode_capsule(Unread(n)).error)
      <3>1. n \in Nat /\ offset <= n /\ n <= Len(bytes)
        BY <2>1
      <3>2. \A v : Ok(v).ok
        BY DEF Ok
      <3>3. \E e \in TornErrors \cup RefusalErrors : decode_capsule(Unread(n)) = Err(e)
        BY <1>1, <2>2, <3>1, <3>2, Attempts, Zenon
      <3> QED
        BY <3>3, ErrIs, TornFacts, RefusalFacts, Zenon
    <2>3. \A a \in LatestError : Plain(a)
      <3>1. arrived \in offset .. arrived
        BY <2>1
      <3>2. \A a \in LatestError : ~Attempt.ok /\ a = Attempt.error
        BY DEF LatestError
      <3> QED
        BY <2>2, <3>1, <3>2, Zenon DEF Attempt
    <2>4. \A b \in MetErrors \cup OtherErrors : IsError(b)
      <3>1. \A b \in MetErrors : \E n \in offset .. arrived :
              ~decode_capsule(Unread(n)).ok /\ b = decode_capsule(Unread(n)).error
        BY DEF MetErrors, Met
      <3>2. \A b \in MetErrors : Plain(b)
        BY <2>2, <3>1, Zenon
      <3>3. \A b \in OtherErrors : IsError(b)
        BY StreamAssumption, Zenon
      <3> QED
        BY <3>2, <3>3, Zenon DEF Plain
    <2>5. ASSUME NEW a \in LatestError, NEW b \in MetErrors \cup OtherErrors
          PROVE  /\ Equal(a, Clone(a)) /\ IsError(a)
                 /\ Equal(a, b) => a = b
      <3>1. Plain(a)
        BY <2>3
      <3>2. IsError(a) /\ Clone(a) = a /\ Compared(a) = a
        BY <3>1 DEF Plain
      <3>3. /\ a[Len(a)].variant \notin HasSource \ {"H3DatagramError"}
            /\ a[Len(a)].variant # "foreign"
        BY <3>1 DEF Plain, HasSource
      <3>4. Equal(a, Clone(a))
        BY <3>2, Zenon DEF Equal
      <3>5. Equal(a, b) => a = b
        BY <2>4, <3>2, <3>3, EqualIsSame, Zenon
      <3> QED
        BY <3>2, <3>4, <3>5, Zenon
    <2> QED
      BY <2>5, Zenon DEF EqualErrorsAlike
  <1> QED
    BY <1>1, StreamInvariant, PTL
-----------------------------------------------------------------------------
(* QUIC datagrams.                                                          *)

Received(b) ==
  LET d == decode_h3(b)
      u == Unframed(d.value.payload)
  IN  IF d.ok /\ u.ok THEN Ok([stream_id |-> d.value.stream_id, udp |-> u.value])
      ELSE Refused

\* What a peer may send: two integers, each in some form, and a payload.
Frames ==
  {m \in [quarter : Nat, quarter_len : Lengths, context : Nat, context_len : Lengths,
          udp : Seq(Nat)] :
     m.quarter < Room(m.quarter_len) /\ m.context < Room(m.context_len)}

FrameBytes(m) == Form(m.quarter, m.quarter_len) \o Form(m.context, m.context_len) \o m.udp

\* What the first bytes of it are to be received as.
Meant(m, size) ==
  IF /\ 4 * m.quarter <= MAX_VARINT
     /\ <<m.context, m.context_len>> = <<0, 1>>
     /\ size > m.quarter_len
  THEN Ok([stream_id |-> 4 * m.quarter,
           udp |-> SubSeq(m.udp, 1, size - m.quarter_len - 1)])
  ELSE Refused

LEMMA FrameParts ==
  ASSUME NEW m \in Frames
  PROVE  \E q \in Nat, ql \in 1 .. 8, f \in Seq(Nat), c \in Nat, cl \in 1 .. 8, g \in Seq(Nat),
            udp \in Seq(Nat) :
           /\ m.quarter = q /\ m.quarter_len = ql /\ m.context = c /\ m.context_len = cl
           /\ m.udp = udp /\ IsForm(f, q, ql) /\ IsForm(g, c, cl)
           /\ FrameBytes(m) = f \o g \o udp
  <1>1. /\ m \in [quarter : Nat, quarter_len : Lengths, context : Nat, context_len : Lengths,
                  udp : Seq(Nat)]
        /\ m.quarter < Room(m.quarter_len) /\ m.context < Room(m.context_len)
    BY Zenon DEF Frames
  <1>2. /\ m.quarter \in Nat /\ m.context \in Nat /\ m.udp \in Seq(Nat)
        /\ m.quarter_len \in Lengths /\ m.context_len \in Lengths
    BY <1>1
  <1>3. PICK q \in Nat : q = m.quarter
    BY <1>2
  <1>4. PICK c \in Nat : c = m.context
    BY <1>2
  <1>5. PICK ql \in 1 .. 8 : ql = m.quarter_len
    BY <1>2, LengthFacts
  <1>6. PICK cl \in 1 .. 8 : cl = m.context_len
    BY <1>2, LengthFacts
  <1>7. Room(ql) \in Nat /\ Room(cl) \in Nat
    BY <1>2, <1>5, <1>6, RoomFacts
  <1>8. q \in 0 .. Room(ql) - 1 /\ c \in 0 .. Room(cl) - 1
    BY <1>1, <1>3, <1>4, <1>5, <1>6, <1>7
  <1>9. IsForm(Form(q, ql), q, ql) /\ IsForm(Form(c, cl), c, cl)
    BY <1>2, <1>5, <1>6, <1>8, Zenon DEF IsForm
  <1>10. Form(q, ql) \in Seq(Nat) /\ Form(c, cl) \in Seq(Nat)
    BY <1>9, IsFormFacts, Zenon
  <1>11. PICK udp \in Seq(Nat) : udp = m.udp
    BY <1>2
  <1>12. FrameBytes(m) = Form(q, ql) \o Form(c, cl) \o udp
    BY <1>3, <1>4, <1>5, <1>6, <1>11, Zenon DEF FrameBytes
  <1>13. PICK f \in Seq(Nat), g \in Seq(Nat) :
           IsForm(f, q, ql) /\ IsForm(g, c, cl) /\ FrameBytes(m) = f \o g \o udp
    BY <1>9, <1>10, <1>12, Zenon
  <1> QED
    BY <1>3, <1>4, <1>5, <1>6, <1>11, <1>13, Zenon

\* A datagram, or the part of it that is there, as decode_h3 and Unframed read
\* it: a stream and a UDP payload if both integers are there, the quarter is in
\* range and the Context ID is 0 in one byte.
LEMMA FrameIs ==
  ASSUME NEW m \in Frames, NEW size \in Nat, size <= Len(FrameBytes(m))
  PROVE  Received(SubSeq(FrameBytes(m), 1, size)) = Meant(m, size)
  <1>0. PICK q \in Nat, ql \in 1 .. 8, f \in Seq(Nat), c \in Nat, cl \in 1 .. 8, g \in Seq(Nat),
             udp \in Seq(Nat) :
           /\ m.quarter = q /\ m.quarter_len = ql /\ m.context = c /\ m.context_len = cl
           /\ m.udp = udp /\ IsForm(f, q, ql) /\ IsForm(g, c, cl)
           /\ FrameBytes(m) = f \o g \o udp
    BY FrameParts, Zenon
  <1>m. Meant(m, size) =
          IF 4 * q <= MAX_VARINT /\ <<c, cl>> = <<0, 1>> /\ size > ql
          THEN Ok([stream_id |-> 4 * q, udp |-> SubSeq(udp, 1, size - ql - 1)])
          ELSE Refused
    BY <1>0, Zenon DEF Meant
  <1>1. PICK w \in Seq(Nat) :
          /\ w = f \o g \o udp /\ Len(w) = ql + cl + Len(udp)
          /\ \A i \in 1 .. ql : w[i] = f[i]
          /\ \A i \in 1 .. cl : w[ql + i] = g[i]
          /\ \A i \in 1 .. Len(udp) : w[ql + cl + i] = udp[i]
    <2>1. Len(f) = ql /\ Len(g) = cl
      BY <1>0, IsFormFacts
    <2>2. /\ f \o g \o udp \in Seq(Nat) /\ Len(f \o g \o udp) = Len(f) + Len(g) + Len(udp)
          /\ \A i \in 1 .. Len(f) : (f \o g \o udp)[i] = f[i]
          /\ \A i \in 1 .. Len(g) : (f \o g \o udp)[Len(f) + i] = g[i]
          /\ \A i \in 1 .. Len(udp) : (f \o g \o udp)[Len(f) + Len(g) + i] = udp[i]
      BY Joined, ZenonT(40)
    <2> QED
      BY <2>1, <2>2, Zenon
  <1>2. PICK b \in Seq(Nat) : /\ b = SubSeq(f \o g \o udp, 1, size) /\ Len(b) = size
                              /\ \A i \in 1 .. size : b[i] = w[i]
    <2>1. size <= Len(w)
      BY <1>0, <1>1, Zenon
    <2>2. /\ SubSeq(w, 1, size) \in Seq(Nat) /\ Len(SubSeq(w, 1, size)) = size
          /\ \A i \in 1 .. size : SubSeq(w, 1, size)[i] = w[i]
      BY <2>1, Prefix, Zenon
    <2> QED
      BY <1>1, <2>2, Zenon
  <1>3. size <= ql + cl + Len(udp) /\ Len(f) = ql /\ Len(g) = cl
    BY <1>0, <1>1, <1>2, IsFormFacts
  <1>4. Holds(b, 0, f)
    <2>1. ASSUME NEW i \in 1 .. Len(f), 0 + i <= Len(b) PROVE b[0 + i] = f[i]
      <3>1. 0 + i = i /\ i \in 1 .. size /\ i \in 1 .. ql
        BY <1>2, <1>3, <2>1
      <3> QED
        BY <1>1, <1>2, <3>1, Zenon
    <2> QED
      BY <2>1, Zenon DEF Holds
  <1>5. /\ Len(b) < ql => \E e \in VarintErrors : decode(b) = Err(e)
        /\ Len(b) >= ql => decode(b).ok /\ decode(b).value.value = q /\ decode(b).value.consumed = ql
    <2>1. 0 \in Nat /\ 0 + ql = ql
      OBVIOUS
    <2>2. /\ Len(b) < 0 + ql => \E e \in VarintErrors : decode_at(b, 0) = Err(e)
          /\ Len(b) >= 0 + ql =>
               /\ decode_at(b, 0).ok
               /\ decode_at(b, 0).value.value = q /\ decode_at(b, 0).value.consumed = ql
      BY <1>0, <1>4, <2>1, DecodeForm, Zenon
    <2> QED
      BY <2>1, <2>2, DecodeIsDecodeAt, Zenon
  <1>6. q > MAX_QUARTER_STREAM_ID <=> ~(4 * q <= MAX_VARINT)
    <2>1. MAX_VARINT \in Nat
      BY RoomFacts
    <2> QED
      BY <2>1 DEF MAX_QUARTER_STREAM_ID
  <1>7. \A v : Ok(v).ok /\ Ok(v).value = v
    BY DEF Ok
  <1>8. CASE size < ql
    <2>1. ~decode(b).ok
      BY <1>2, <1>5, <1>8, ErrIs
    <2>2. ~decode_h3(b).ok
      BY <2>1, ErrIs, Zenon DEF decode_h3
    <2>3. ~(size > ql)
      BY <1>8
    <2> QED
      BY <1>0, <1>2, <1>m, <2>2, <2>3, Zenon DEF Received
  <1>9. CASE size >= ql /\ ~(4 * q <= MAX_VARINT)
    <2>1. decode(b).ok /\ decode(b).value.value = q
      BY <1>2, <1>5, <1>9
    <2>2. ~decode_h3(b).ok
      BY <1>6, <1>9, <2>1, ErrIs, Zenon DEF decode_h3
    <2> QED
      BY <1>0, <1>2, <1>9, <1>m, <2>2, Zenon DEF Received
  <1>10. CASE size >= ql /\ 4 * q <= MAX_VARINT
    <2>1. decode(b).ok /\ decode(b).value.value = q /\ decode(b).value.consumed = ql
      BY <1>2, <1>5, <1>10
    <2>2. PICK p \in Seq(Nat) : /\ p = SubSeq(b, ql + 1, Len(b)) /\ Len(p) = size - ql
                                /\ \A i \in 1 .. size - ql : p[i] = b[ql + i]
      <3>1. ql \in Nat /\ ql <= Len(b) /\ Len(b) \in Nat /\ Len(b) <= Len(b) /\ Len(b) - ql = size - ql
        BY <1>2, <1>10
      <3>2. /\ SubSeq(b, ql + 1, Len(b)) \in Seq(Nat) /\ Len(SubSeq(b, ql + 1, Len(b))) = Len(b) - ql
            /\ \A i \in 1 .. Len(b) - ql : SubSeq(b, ql + 1, Len(b))[i] = b[ql + i]
        BY <3>1, Slice, Zenon
      <3> QED
        BY <3>1, <3>2, Zenon
    <2>3. decode_h3(b) = Ok([stream_id |-> q * 4, payload |-> p])
      BY <1>6, <1>10, <2>1, <2>2, Zenon DEF decode_h3
    <2>4. /\ decode_h3(b).ok /\ decode_h3(b).value.payload = p
          /\ decode_h3(b).value.stream_id = 4 * q
      <3>1. /\ [stream_id |-> q * 4, payload |-> p].payload = p
            /\ [stream_id |-> q * 4, payload |-> p].stream_id = 4 * q
        OBVIOUS
      <3> QED
        BY <1>7, <2>3, <3>1, Zenon
    <2>5. \A i \in 1 .. Len(p) : p[i] = w[ql + i]
      <3>1. ASSUME NEW i \in 1 .. Len(p) PROVE p[i] = w[ql + i]
        <4>1. i \in 1 .. size - ql /\ ql + i \in 1 .. size
          BY <2>2
        <4> QED
          BY <1>2, <2>2, <4>1, Zenon
      <3> QED
        BY <3>1
    <2>6. Holds(p, 0, g)
      <3>1. ASSUME NEW i \in 1 .. Len(g), 0 + i <= Len(p) PROVE p[0 + i] = g[i]
        <4>1. 0 + i = i /\ i \in 1 .. Len(p) /\ i \in 1 .. cl
          BY <1>3, <3>1
        <4> QED
          BY <1>1, <2>5, <4>1, Zenon
      <3> QED
        BY <3>1, Zenon DEF Holds
    <2>7. /\ Len(p) < cl => \E e \in VarintErrors : decode(p) = Err(e)
          /\ Len(p) >= cl => decode(p).ok /\ decode(p).value.value = c /\ decode(p).value.consumed = cl
      <3>1. 0 \in Nat /\ 0 + cl = cl
        OBVIOUS
      <3>2. /\ Len(p) < 0 + cl => \E e \in VarintErrors : decode_at(p, 0) = Err(e)
            /\ Len(p) >= 0 + cl =>
                 /\ decode_at(p, 0).ok
                 /\ decode_at(p, 0).value.value = c /\ decode_at(p, 0).value.consumed = cl
        BY <1>0, <2>6, <3>1, DecodeForm, Zenon
      <3> QED
        BY <3>1, <3>2, DecodeIsDecodeAt, Zenon
    <2>8. CASE Len(p) < cl
      <3>1. ~decode(p).ok
        BY <2>7, <2>8, ErrIs
      <3>2. ~Unframed(p).ok
        BY <3>1, ErrIs, Zenon DEF Unframed
      <3>3. ~(cl = 1 /\ size > ql)
        BY <2>2, <2>8
      <3>4. <<c, cl>> = <<0, 1>> => cl = 1
        OBVIOUS
      <3> QED
        BY <1>0, <1>2, <1>m, <2>4, <3>2, <3>3, <3>4, Zenon DEF Received
    <2>9. CASE Len(p) >= cl /\ ~(c = 0 /\ cl = 1)
      <3>1. decode(p).ok /\ decode(p).value.value = c /\ decode(p).value.consumed = cl
        BY <2>7, <2>9
      <3>2. ~Unframed(p).ok
        BY <2>9, <3>1, ErrIs, Zenon DEF Unframed
      <3>3. <<c, cl>> # <<0, 1>>
        BY <2>9
      <3> QED
        BY <1>0, <1>2, <1>m, <2>4, <3>2, <3>3, Zenon DEF Received
    <2>10. CASE Len(p) >= cl /\ c = 0 /\ cl = 1
      <3>1. decode(p).ok /\ decode(p).value.value = 0 /\ decode(p).value.consumed = 1
        BY <2>7, <2>10
      <3>2. Unframed(p) = Ok(SubSeq(p, 1 + 1, Len(p)))
        BY <3>1, Zenon DEF Unframed
      <3>3. size > ql
        BY <2>2, <2>10
      <3>4. SubSeq(p, 1 + 1, Len(p)) = SubSeq(udp, 1, size - ql - 1)
        <4>1. PICK n \in Nat : n = size - ql - 1 /\ n <= Len(udp) /\ n = Len(p) - 1
          BY <1>3, <2>2, <2>10, <3>3
        <4>2. PICK x \in Seq(Nat) : /\ x = SubSeq(p, 1 + 1, Len(p)) /\ Len(x) = n
                                    /\ \A i \in 1 .. n : x[i] = p[1 + i]
          <5>1. 1 \in Nat /\ 1 <= Len(p) /\ Len(p) \in Nat /\ Len(p) <= Len(p)
            BY <2>10
          <5>2. /\ SubSeq(p, 1 + 1, Len(p)) \in Seq(Nat) /\ Len(SubSeq(p, 1 + 1, Len(p))) = Len(p) - 1
                /\ \A i \in 1 .. Len(p) - 1 : SubSeq(p, 1 + 1, Len(p))[i] = p[1 + i]
            BY <5>1, Slice, ZenonT(40)
          <5> QED
            BY <4>1, <5>2, Zenon
        <4>3. PICK y \in Seq(Nat) : /\ y = SubSeq(udp, 1, n) /\ Len(y) = n
                                    /\ \A i \in 1 .. n : y[i] = udp[i]
          <5>1. /\ SubSeq(udp, 1, n) \in Seq(Nat) /\ Len(SubSeq(udp, 1, n)) = n
                /\ \A i \in 1 .. n : SubSeq(udp, 1, n)[i] = udp[i]
            BY <4>1, Prefix, Zenon
          <5> QED
            BY <5>1, Zenon
        <4>4. ASSUME NEW i \in 1 .. n PROVE x[i] = y[i]
          <5>1. 1 + i \in 1 .. Len(p) /\ ql + (1 + i) = ql + cl + i /\ i \in 1 .. Len(udp)
            BY <2>10, <4>1
          <5>2. p[1 + i] = w[ql + (1 + i)]
            BY <2>5, <5>1, Zenon
          <5> QED
            BY <1>1, <4>2, <4>3, <5>1, <5>2, Zenon
        <4> QED
          BY <4>1, <4>2, <4>3, <4>4, SeqEqual, Zenon
      <3>5. Received(b) = Ok([stream_id |-> 4 * q, udp |-> SubSeq(udp, 1, size - ql - 1)])
        <4>1. Unframed(p).ok /\ Unframed(p).value = SubSeq(udp, 1, size - ql - 1)
          BY <1>7, <3>2, <3>4, Zenon
        <4> QED
          BY <2>4, <4>1, Zenon DEF Received
      <3>6. <<c, cl>> = <<0, 1>>
        BY <2>10
      <3> QED
        BY <1>0, <1>2, <1>10, <1>m, <3>3, <3>5, <3>6, Zenon
    <2>11. Len(p) < cl \/ Len(p) >= cl
      OBVIOUS
    <2> QED
      BY <2>8, <2>9, <2>10, <2>11, Zenon
  <1> QED
    BY <1>8, <1>9, <1>10

LEMMA Regrouped ==
  ASSUME NEW a \in Seq(Nat), NEW b \in Seq(Nat), NEW c \in Seq(Nat)
  PROVE  a \o (b \o c) = (a \o b) \o c
  BY SMTT(30)

LEMMA NothingReceived == Received(<<>>) = Refused
  <1>1. decode(<<>>) = EmptyBuffer
    BY Zenon DEF decode
  <1>2. ~decode(<<>>).ok
    BY <1>1, ErrIs, Zenon DEF EmptyBuffer
  <1>3. ~decode_h3(<<>>).ok
    BY <1>2, ErrIs, Zenon DEF decode_h3
  <1> QED
    BY <1>3, Zenon DEF Received

\* Context ID 0 is one byte.
LEMMA ContextByte == IsForm(<<0>>, 0, 1)
  <1>1. Room(1) = Quarter /\ 1 \in Lengths
    BY RoomFacts DEF Lengths
  <1>2. 0 \in 0 .. Room(1) - 1
    BY <1>1, BaseFacts
  <1>3. Form(0, 1) = BigEndian(0, 1)
    <2>1. Tag(1) * Room(1) + 0 = 0
      BY <1>1, BaseFacts, LengthFacts
    <2> QED
      BY <2>1, Zenon DEF Form
  <1>4. BigEndian(0, 1) = <<0>>
    <2>1. (0 \div Weight[1 - 1]) % Base = 0
      <3>1. Weight[1 - 1] = 1
        BY WeightFacts
      <3> QED
        BY <3>1, BaseFacts
    <2>2. \A i \in 1 .. 1 : (0 \div Weight[1 - i]) % Base = 0
      BY <2>1
    <2>3. BigEndian(0, 1) = [i \in 1 .. 1 |-> 0]
      BY <2>2, Zenon DEF BigEndian
    <2> QED
      BY <2>3
  <1> QED
    BY <1>1, <1>2, <1>3, <1>4, Zenon DEF IsForm

LEMMA SentFrame ==
  ASSUME NEW stream_id \in Streams, NEW udp \in Payloads, SendFrame(stream_id, udp)
  PROVE  FramePreserved'
  <1>1. udp \in Seq(Nat) /\ stream_id \in Nat
    BY PayloadFacts, StreamAssumption
  <1>2. /\ \A v : Ok(v).ok /\ Ok(v).value = v
        /\ \A e : ~Err(e).ok
    BY DEF Ok, Err
  <1>3. PICK d : d = [stream_id |-> stream_id, payload |-> <<0>> \o udp]
    OBVIOUS
  <1>4. d.stream_id = stream_id /\ d.payload = <<0>> \o udp
    BY <1>3
  <1>5. /\ NewHttpDatagram(stream_id, <<0>> \o udp).value = d
        /\ ~(stream_id > MAX_VARINT) /\ stream_id % 4 = 0
    BY <1>2, <1>3, Zenon DEF SendFrame, NewHttpDatagram, Framed
  <1>6. frame' = [bytes |-> encode_h3(d), meant |-> Ok([stream_id |-> stream_id, udp |-> udp])]
    BY <1>5, Zenon DEF SendFrame, Framed
  <1>7. PICK q \in Nat : q = stream_id \div 4 /\ 4 * q = stream_id /\ q <= MAX_VARINT
    BY <1>1, <1>5, RoomFacts
  <1>8. PICK ql \in 1 .. 8, f \in Seq(Nat) :
          ql = Shortest(q) /\ f = encode_to_array(q) /\ IsForm(f, q, ql) /\ Len(f) = ql
    BY <1>7, ShortestFacts, IsFormFacts, Zenon
  <1>9. encode_h3(d) = f \o (<<0>> \o udp)
    <2>1. Valid(q)
      BY <1>7, ShortestFacts
    <2> QED
      BY <1>4, <1>7, <1>8, <2>1, Zenon DEF encode_h3, encode
  <1>10. PICK g \in Seq(Nat) : g = <<0>> /\ Len(g) = 1
    <2>1. <<0>> \in Seq(Nat) /\ Len(<<0>>) = 1
      OBVIOUS
    <2> QED
      BY <2>1, Zenon
  <1>m. PICK m : m = [quarter |-> q, quarter_len |-> ql, context |-> 0, context_len |-> 1,
                      udp |-> udp]
    OBVIOUS
  <1>n. /\ m.quarter = q /\ m.quarter_len = ql /\ m.context = 0 /\ m.context_len = 1
        /\ m.udp = udp
    BY <1>m
  <1>11. /\ m \in Frames /\ FrameBytes(m) = f \o g \o udp
    <2>1. /\ ql \in Lengths /\ q \in 0 .. Room(ql) - 1 /\ f = Form(q, ql)
          /\ 1 \in Lengths /\ 0 \in 0 .. Room(1) - 1 /\ <<0>> = Form(0, 1)
      BY <1>8, ContextByte, Zenon DEF IsForm
    <2>2. Room(ql) \in Nat /\ Room(1) \in Nat
      BY <2>1, RoomFacts
    <2>3. q < Room(ql) /\ 0 < Room(1)
      BY <2>1, <2>2
    <2>4. m \in [quarter : Nat, quarter_len : Lengths, context : Nat, context_len : Lengths,
                 udp : Seq(Nat)]
      BY <1>1, <1>m, <2>1
    <2>5. m \in Frames
      BY <1>n, <2>3, <2>4, Zenon DEF Frames
    <2>6. FrameBytes(m) = f \o g \o udp
      BY <1>10, <1>n, <2>1, Zenon DEF FrameBytes
    <2> QED
      BY <2>5, <2>6
  <1>12. PICK w \in Seq(Nat) : w = f \o g \o udp /\ Len(w) = ql + 1 + Len(udp)
    <2>1. /\ f \o g \o udp \in Seq(Nat)
          /\ Len(f \o g \o udp) = Len(f) + Len(g) + Len(udp)
      BY <1>1, Joined
    <2> QED
      BY <1>8, <1>10, <2>1, Zenon
  <1>13. encode_h3(d) = SubSeq(FrameBytes(m), 1, Len(w))
    <2>1. f \o (g \o udp) = (f \o g) \o udp
      BY <1>1, Regrouped, Zenon
    <2> QED
      BY <1>9, <1>10, <1>11, <1>12, <2>1, Whole, Zenon
  <1>14. PICK size \in Nat : size = Len(w) /\ size > ql /\ size - ql - 1 = Len(udp)
    <2>1. Len(udp) \in Nat
      BY <1>1
    <2> QED
      BY <1>12, <2>1
  <1>15. size <= Len(FrameBytes(m))
    <2>1. size <= size
      OBVIOUS
    <2> QED
      BY <1>11, <1>12, <1>14, <2>1, Zenon
  <1>17. Received(encode_h3(d)) = Meant(m, size)
    BY <1>11, <1>13, <1>14, <1>15, FrameIs, Zenon
  <1>18. 4 * q <= MAX_VARINT
    BY <1>1, <1>5, <1>7, RoomFacts
  <1>19. SubSeq(udp, 1, size - ql - 1) = udp
    BY <1>1, <1>14, Whole, Zenon
  <1>20. Received(encode_h3(d)) = Ok([stream_id |-> stream_id, udp |-> udp])
    BY <1>7, <1>14, <1>17, <1>18, <1>19, <1>n, Zenon DEF Meant
  <1>21. frame'.bytes = encode_h3(d) /\ frame'.meant = Ok([stream_id |-> stream_id, udp |-> udp])
    BY <1>6
  <1> QED
    BY <1>20, <1>21, Zenon DEF FramePreserved, ReceivedFrame, Received

LEMMA ForeignFrame ==
  ASSUME NEW q \in Nat, NEW ql \in Lengths, NEW c \in {0, 1}, NEW cl \in Lengths,
         NEW udp \in Payloads, NEW size \in Nat, SendForeignFrame(q, ql, c, cl, udp, size)
  PROVE  FramePreserved'
  <1>1. udp \in Seq(Nat) /\ c \in Nat
    BY PayloadFacts
  <1>m. PICK m : m = [quarter |-> q, quarter_len |-> ql, context |-> c, context_len |-> cl,
                      udp |-> udp]
    OBVIOUS
  <1>n. /\ m.quarter = q /\ m.quarter_len = ql /\ m.context = c /\ m.context_len = cl
        /\ m.udp = udp
    BY <1>m
  <1>2. q < Room(ql) /\ c < Room(cl) /\ size <= Len(FrameBytes(m))
    BY <1>n, Zenon DEF SendForeignFrame, FrameBytes
  <1>3. m \in Frames
    <2>1. m \in [quarter : Nat, quarter_len : Lengths, context : Nat, context_len : Lengths,
                 udp : Seq(Nat)]
      BY <1>1, <1>m
    <2> QED
      BY <1>2, <1>n, <2>1, Zenon DEF Frames
  <1>4. frame' = [bytes |-> SubSeq(FrameBytes(m), 1, size), meant |-> Meant(m, size)]
    BY <1>n, Zenon DEF SendForeignFrame, FrameBytes, Meant
  <1>5. Received(SubSeq(FrameBytes(m), 1, size)) = Meant(m, size)
    BY <1>2, <1>3, FrameIs, Zenon
  <1>6. frame'.bytes = SubSeq(FrameBytes(m), 1, size) /\ frame'.meant = Meant(m, size)
    BY <1>4
  <1> QED
    BY <1>5, <1>6, Zenon DEF FramePreserved, ReceivedFrame, Received

\* FramePreserved: a datagram the library sends is received as it was sent, and
\* of a peer's, whole or cut short, exactly those meant for the library.
THEOREM FramesArePreserved == Spec => []FramePreserved
  <1>1. NoFrame.bytes = <<>> /\ NoFrame.meant = Refused
    BY DEF NoFrame
  <1>2. Init => FramePreserved
    BY <1>1, NothingReceived, Zenon DEF Init, FramePreserved, ReceivedFrame, Received
  <1>3. ASSUME FramePreserved, [Next]_vars PROVE FramePreserved'
    <2>1. ASSUME frame' = frame PROVE FramePreserved'
      BY <1>3, <2>1, Zenon DEF FramePreserved, ReceivedFrame
    <2>2. ASSUME NEW type, NEW value, WriteEncoded(type, value) \/ WriteInto(type, value)
          PROVE  FramePreserved'
      BY <2>1, <2>2 DEF WriteEncoded, WriteInto, Put
    <2>3. ASSUME NEW stream_id, NEW payload, WriteDatagram(stream_id, payload)
          PROVE  FramePreserved'
      BY <2>1, <2>3 DEF WriteDatagram, Put
    <2>4. ASSUME NEW stream_id \in Streams, NEW payload \in Payloads, SendFrame(stream_id, payload)
          PROVE  FramePreserved'
      BY <2>4, SentFrame
    <2>5. ASSUME NEW type, NEW value, NEW tl, NEW ll, WriteForeign(type, value, tl, ll)
          PROVE  FramePreserved'
      BY <2>1, <2>5 DEF WriteForeign, Put
    <2>6. ASSUME NEW type, NEW length, WriteHuge(type, length) PROVE FramePreserved'
      BY <2>1, <2>6 DEF WriteHuge, Put
    <2>7. CASE Arrive
      BY <2>1, <2>7 DEF Arrive
    <2>8. CASE ReadCapsule
      BY <2>1, <2>8 DEF ReadCapsule, Consume
    <2>9. ASSUME NEW stream_id, ReadDatagram(stream_id) PROVE FramePreserved'
      BY <2>1, <2>9 DEF ReadDatagram, Consume
    <2>10. ASSUME NEW quarter \in {1, MAX_QUARTER_STREAM_ID, MAX_QUARTER_STREAM_ID + 1},
                  NEW ql \in Lengths, NEW context \in {0, 1}, NEW cl \in Lengths,
                  NEW udp \in Payloads, NEW size \in 0 .. 18,
                  SendForeignFrame(quarter, ql, context, cl, udp, size)
           PROVE  FramePreserved'
      <3>1. quarter \in Nat /\ size \in Nat
        <4>1. MAX_QUARTER_STREAM_ID \in Nat
          BY RoomFacts DEF MAX_QUARTER_STREAM_ID
        <4> QED
          BY <4>1
      <3> QED
        BY <2>10, <3>1, ForeignFrame
    <2>11. CASE EndFrame
      <3>1. frame' = NoFrame
        BY <2>11 DEF EndFrame
      <3> QED
        BY <1>1, <3>1, NothingReceived, Zenon DEF FramePreserved, ReceivedFrame, Received
    <2>12. CASE UNCHANGED vars
      BY <2>1, <2>12 DEF vars
    <2> QED
      BY <1>3, <2>2, <2>3, <2>4, <2>5, <2>6, <2>7, <2>8, <2>9, <2>10, <2>11, <2>12, Zenon DEF Next
  <1> QED
    BY <1>2, <1>3, PTL DEF Spec
-----------------------------------------------------------------------------
(* Round trips.                                                             *)

LEMMA HoldsFront ==
  ASSUME NEW s \in Seq(Nat), NEW rest \in Seq(Nat)
  PROVE  /\ s \o rest \in Seq(Nat) /\ Len(s \o rest) = Len(s) + Len(rest)
         /\ Holds(s \o rest, 0, s)
  <1>1. s \o rest \in Seq(Nat) /\ Len(s \o rest) = Len(s) + Len(rest)
    OBVIOUS
  <1>2. \A i \in 1 .. Len(s) : (s \o rest)[0 + i] = s[i]
    OBVIOUS
  <1> QED
    BY <1>1, <1>2, Zenon DEF Holds

\* decode gives back every integer that encode writes, and takes no byte of what
\* follows it.
THEOREM IntegersAreReadBack ==
  ASSUME NEW n \in Nat, n <= MAX_VARINT, NEW rest \in Seq(Nat)
  PROVE  LET d == decode(encode(n) \o rest)
         IN  d.ok /\ d.value.value = n /\ d.value.consumed = Len(encode(n))
  <1>1. PICK len \in 1 .. 8, f \in Seq(Nat) :
          len = Shortest(n) /\ f = encode_to_array(n) /\ IsForm(f, n, len) /\ Len(f) = len
    BY ShortestFacts, IsFormFacts, Zenon
  <1>2. encode(n) = f
    BY <1>1, ShortestFacts, Zenon DEF encode
  <1>3. PICK b \in Seq(Nat) : b = f \o rest /\ Len(b) >= 0 + len /\ Holds(b, 0, f)
    <2>1. Len(f \o rest) >= 0 + len
      BY <1>1, HoldsFront
    <2> QED
      BY <2>1, HoldsFront, Zenon
  <1>4. 0 \in Nat
    OBVIOUS
  <1>5. decode(b).ok /\ decode(b).value.value = n /\ decode(b).value.consumed = len
    BY <1>1, <1>3, <1>4, DecodeForm, DecodeIsDecodeAt, Zenon
  <1> QED
    BY <1>1, <1>2, <1>3, <1>5, Zenon

\* Capsule::decode gives back every capsule that Capsule::encode writes, if its
\* length can be addressed, and takes no byte of what follows it.
THEOREM CapsulesAreDecoded ==
  ASSUME NEW t \in Nat, t <= MAX_VARINT, NEW value \in Seq(Nat), Len(value) <= MAX_VARINT,
         NEW rest \in Seq(Nat), Len(encode_capsule([type |-> t, value |-> value])) <= UsizeMax
  PROVE  LET c == [type |-> t, value |-> value]
         IN  decode_capsule(encode_capsule(c) \o rest)
               = Ok([capsule |-> c, consumed |-> Len(encode_capsule(c))])
  <1>1. PICK h \in Headers : h = ShortHeader(t, Len(value)) /\ h.type = t /\ h.length = Len(value)
    <2>1. Len(value) \in Nat
      OBVIOUS
    <2> QED
      BY <2>1, ShortHeaderFacts, ZenonT(40)
  <1>2. PICK w \in Seq(Nat) : w = HeaderBytes(h) \o value /\ Len(w) = HeaderSize(h) + Len(value)
    BY PieceFacts, Zenon
  <1>c. PICK c : c = [type |-> t, value |-> value]
    OBVIOUS
  <1>d. c.type = t /\ c.value = value
    BY <1>c
  <1>3. encode_capsule(c) = w
    BY <1>1, <1>2, <1>d, EncodedCapsule, Zenon DEF encode_capsule
  <1>4. HeaderSize(h) + Len(value) <= UsizeMax
    BY <1>2, <1>3, <1>c, Zenon
  <1>5. PICK b \in Seq(Nat) :
          /\ b = w \o rest /\ Holds(b, 0, HeaderBytes(h) \o value)
          /\ Len(b) >= HeaderSize(h) + Len(value)
    <2>1. Len(w \o rest) >= Len(w)
      BY HoldsFront
    <2> QED
      BY <1>2, <2>1, HoldsFront, Zenon
  <1>6. decode_capsule(b) = Ok([capsule  |-> [type |-> h.type, value |-> value],
                                consumed |-> HeaderSize(h) + Len(value)])
    BY <1>1, <1>4, <1>5, DecodeWhole, Zenon
  <1> QED
    BY <1>1, <1>2, <1>3, <1>5, <1>6, <1>c, Zenon
=============================================================================
