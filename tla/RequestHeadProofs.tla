--------------------------- MODULE RequestHeadProofs ---------------------------
(***************************************************************************)
(* Proofs about RequestHead, for any hosts, ports, configurations, foreign   *)
(* URIs and fields of any length, and any number of steps in between: a      *)
(* field is parsed exactly if the grammar has it and keeps its flag; a URI   *)
(* is accepted exactly if it is of the template and keeps its request.       *)
(*                                                                          *)
(* The first part is about the field, the second about the URI.  In each,    *)
(* lemmas about single parsers lead to one about a loop, that to an          *)
(* invariant of RequestHead, and that to the theorems.                       *)
(***************************************************************************)
EXTENDS RequestHead, SequenceTheorems, WellFoundedInduction, TLAPS
-----------------------------------------------------------------------------
(* Induction over the naturals, upwards and downwards.                      *)

LEMMA Least ==
  ASSUME NEW T, T \subseteq Nat, T # {}
  PROVE  \E n \in T : \A m \in T : n <= m
  <1>1. IsWellFoundedOn(OpToRel(<, Nat), Nat)
    BY NatLessThanWellFounded
  <1>2. PICK n \in T : \A m \in T : ~(<<m, n>> \in OpToRel(<, Nat))
    BY <1>1, WFMin, Zenon
  <1>3. \A m \in T : m < n => <<m, n>> \in OpToRel(<, Nat)
    BY DEF OpToRel
  <1>4. \A m \in T : ~(m < n) => n <= m
    OBVIOUS
  <1> QED
    BY <1>2, <1>3, <1>4

LEMMA Greatest ==
  ASSUME NEW n \in Nat, NEW T, T \subseteq 0 .. n, T # {}
  PROVE  \E m \in T : \A k \in T : k <= m
  <1> DEFINE D == {n - k : k \in T}
  <1>0. \A k \in T : k \in 0 .. n
    OBVIOUS
  <1>1. D \subseteq Nat /\ D # {}
    <2>1. \A k \in T : n - k \in Nat
      BY <1>0
    <2>2. PICK k \in T : TRUE
      OBVIOUS
    <2>3. n - k \in D
      BY <2>2
    <2> QED
      BY <2>1, <2>3
  <1>2. PICK d \in D : \A e \in D : d <= e
    BY <1>1, Least
  <1>3. PICK m \in T : d = n - m
    OBVIOUS
  <1>4. \A k \in T : d <= n - k
    BY <1>2
  <1> QED
    BY <1>3, <1>4

\* A set of numbers that holds 0 and with each number its successor holds all.
LEMMA Induct ==
  ASSUME NEW n \in Nat, NEW S, 0 \in S, \A m \in 0 .. n - 1 : m \in S => m + 1 \in S
  PROVE  \A m \in 0 .. n : m \in S
  <1> SUFFICES ASSUME (0 .. n) \ S # {} PROVE FALSE
    OBVIOUS
  <1> DEFINE T == (0 .. n) \ S
  <1>0. T \subseteq Nat /\ T # {}
    OBVIOUS
  <1>1. PICK m \in T : \A k \in T : m <= k
    BY <1>0, Least, Zenon
  <1>2. m - 1 \in 0 .. n - 1 /\ m - 1 < m
    BY <1>1
  <1> QED
    BY <1>1, <1>2

\* The same downwards, from a greatest number to a least.
LEMMA Descend ==
  ASSUME NEW from \in Nat, NEW to \in Nat, NEW S,
         \A m \in from .. to : (\A k \in m + 1 .. to : k \in S) => m \in S
  PROVE  \A m \in from .. to : m \in S
  <1> SUFFICES ASSUME (from .. to) \ S # {} PROVE FALSE
    OBVIOUS
  <1> DEFINE T == (from .. to) \ S
  <1>0. T \subseteq 0 .. to /\ T # {}
    OBVIOUS
  <1>1. PICK m \in T : \A k \in T : k <= m
    BY <1>0, Greatest, Zenon
  <1> QED
    BY <1>1

LEMMA MinIs ==
  ASSUME NEW S, S \subseteq Int, NEW m \in S, \A k \in S : m <= k
  PROVE  Min(S) = m
  <1>1. \A x \in S : (\A y \in S : x <= y) => x = m
    OBVIOUS
  <1> QED
    BY <1>1 DEF Min

LEMMA MinFacts ==
  ASSUME NEW S, S \subseteq Nat, S # {}
  PROVE  Min(S) \in S /\ \A k \in S : Min(S) <= k
  <1>1. PICK m \in S : \A k \in S : m <= k
    BY Least
  <1>2. Min(S) = m
    <2>1. S \subseteq Int
      OBVIOUS
    <2> QED
      BY <1>1, <2>1, MinIs, Zenon
  <1> QED
    BY <1>1, <1>2

LEMMA MaxIs ==
  ASSUME NEW S, S \subseteq Int, NEW m \in S, \A k \in S : k <= m
  PROVE  Max(S) = m
  <1>1. \A x \in S : (\A y \in S : x >= y) => x = m
    OBVIOUS
  <1> QED
    BY <1>1 DEF Max

LEMMA MaxFacts ==
  ASSUME NEW n \in Nat, NEW S, S \subseteq 0 .. n, S # {}
  PROVE  Max(S) \in S /\ \A k \in S : k <= Max(S)
  <1>1. PICK m \in S : \A k \in S : k <= m
    BY Greatest
  <1>2. Max(S) = m
    <2>1. S \subseteq Int
      OBVIOUS
    <2> QED
      BY <1>1, <2>1, MaxIs, Zenon
  <1> QED
    BY <1>1, <1>2
-----------------------------------------------------------------------------
(* Parts of a sequence, and the set of its elements.                        *)

\* A sequence is its length and its elements.
LEMMA SeqFacts ==
  ASSUME NEW A, NEW s \in Seq(A)
  PROVE  /\ Len(s) \in Nat /\ DOMAIN s = 1 .. Len(s) /\ (s = <<>> <=> Len(s) = 0)
         /\ \A i \in 1 .. Len(s) : s[i] \in A
         /\ \A c : c \in ToSet(s) <=> \E i \in 1 .. Len(s) : s[i] = c
  <1>1. /\ Len(s) \in Nat /\ DOMAIN s = 1 .. Len(s) /\ (s = <<>> <=> Len(s) = 0)
        /\ \A i \in 1 .. Len(s) : s[i] \in A
    BY LenProperties, EmptySeq, ElementOfSeq
  <1> QED
    BY <1>1 DEF ToSet

\* What SubSeq returns.
LEMMA PartFacts ==
  ASSUME NEW A, NEW s \in Seq(A), NEW i \in Nat \ {0}, NEW e \in i - 1 .. Len(s)
  PROVE  /\ SubSeq(s, i, e) \in Seq(A)
         /\ Len(SubSeq(s, i, e)) = e - i + 1
         /\ \A j \in 1 .. e - i + 1 : SubSeq(s, i, e)[j] = s[i + j - 1]
         /\ \A j \in i .. e : s[j] = SubSeq(s, i, e)[j - i + 1]
         /\ \A C : ToSet(SubSeq(s, i, e)) \subseteq C <=> \A j \in i .. e : s[j] \in C
  <1> DEFINE t == SubSeq(s, i, e)
  <1>1. Len(s) \in Nat /\ \A j \in i .. e : s[j] \in A
    BY SeqFacts
  <1>2. t \in Seq(A) /\ Len(t) = e - i + 1 /\ \A j \in 1 .. e - i + 1 : t[j] = s[i + j - 1]
    BY <1>1, SubSeqProperties
  <1>3. \A j \in i .. e : s[j] = t[j - i + 1]
    BY <1>2, <1>1
  <1>4. \A c : c \in ToSet(t) <=> \E j \in 1 .. Len(t) : t[j] = c
    BY <1>2, SeqFacts
  <1> HIDE DEF t
  <1>5. ASSUME NEW C PROVE ToSet(t) \subseteq C <=> \A j \in i .. e : s[j] \in C
    <2>1. ASSUME ToSet(t) \subseteq C, NEW j \in i .. e PROVE s[j] \in C
      <3>1. j - i + 1 \in 1 .. Len(t)
        BY <1>2, <1>1
      <3> QED
        BY <3>1, <1>3, <1>4, <2>1
    <2>2. ASSUME \A j \in i .. e : s[j] \in C PROVE ToSet(t) \subseteq C
      <3>1. \A j \in 1 .. Len(t) : i + j - 1 \in i .. e /\ t[j] = s[i + j - 1]
        BY <1>2, <1>1
      <3> QED
        BY <3>1, <1>4, <2>2
    <2> QED
      BY <2>1, <2>2
  <1> QED
    BY <1>2, <1>3, <1>5 DEF t

\* Where a run of characters of a class ends.
LEMMA RunEndFacts ==
  ASSUME NEW A, NEW s \in Seq(A), NEW i \in 1 .. Len(s) + 1, NEW C
  PROVE  LET r == RunEnd(s, i, C) IN
         /\ r \in i .. Len(s) + 1
         /\ \A j \in i .. r - 1 : s[j] \in C
         /\ r <= Len(s) => s[r] \notin C
  <1> DEFINE T == {j \in i .. Len(s) : s[j] \notin C} \cup {Len(s) + 1}
  <1>1. Len(s) \in Nat
    BY SeqFacts
  <1>2. T \subseteq Nat /\ T # {} /\ T \subseteq i .. Len(s) + 1
    BY <1>1
  <1>3. Min(T) \in T /\ \A k \in T : Min(T) <= k
    BY <1>2, MinFacts
  <1> DEFINE r == Min(T)
  <1>4. r \in T /\ \A k \in T : r <= k
    BY <1>3
  <1> HIDE DEF r
  <1>5. r \in i .. Len(s) + 1
    BY <1>1, <1>2, <1>4
  <1>6. ASSUME NEW j \in i .. r - 1 PROVE s[j] \in C
    BY <1>1, <1>4, <1>5
  <1>7. r <= Len(s) => s[r] \notin C
    BY <1>1, <1>4
  <1>8. RunEnd(s, i, C) = r
    BY DEF RunEnd, r
  <1> QED
    BY <1>5, <1>6, <1>7, <1>8

LEMMA RunEndIs ==
  ASSUME NEW A, NEW s \in Seq(A), NEW i \in 1 .. Len(s) + 1, NEW C,
         NEW r \in i .. Len(s) + 1, \A j \in i .. r - 1 : s[j] \in C,
         r <= Len(s) => s[r] \notin C
  PROVE  RunEnd(s, i, C) = r
  <1> DEFINE T == {j \in i .. Len(s) : s[j] \notin C} \cup {Len(s) + 1}
  <1>1. Len(s) \in Nat
    BY SeqFacts
  <1>2. T \subseteq Int /\ r \in T /\ \A k \in T : r <= k
    BY <1>1
  <1>3. Min(T) = r
    BY <1>2, MinIs
  <1> QED
    BY <1>3 DEF RunEnd

LEMMA SubPart ==
  ASSUME NEW A, NEW s \in Seq(A), NEW i \in Nat \ {0}, NEW e \in i - 1 .. Len(s),
         NEW m \in Nat \ {0}, NEW n \in m - 1 .. e - i + 1
  PROVE  SubSeq(SubSeq(s, i, e), m, n) = SubSeq(s, i + m - 1, i + n - 1)
  <1> DEFINE t == SubSeq(s, i, e)
             u == SubSeq(t, m, n)
             v == SubSeq(s, i + m - 1, i + n - 1)
  <1>1. Len(s) \in Nat
    BY SeqFacts
  <1>2. t \in Seq(A) /\ Len(t) = e - i + 1 /\ \A j \in 1 .. e - i + 1 : t[j] = s[i + j - 1]
    BY PartFacts
  <1>3. u \in Seq(A) /\ Len(u) = n - m + 1 /\ \A j \in 1 .. n - m + 1 : u[j] = t[m + j - 1]
    <2> HIDE DEF t
    <2>1. n \in m - 1 .. Len(t)
      BY <1>2
    <2> QED
      BY <2>1, <1>2, PartFacts
  <1>4. v \in Seq(A) /\ Len(v) = n - m + 1
        /\ \A j \in 1 .. n - m + 1 : v[j] = s[(i + m - 1) + j - 1]
    <2>1. i + m - 1 \in Nat \ {0} /\ i + n - 1 \in (i + m - 1) - 1 .. Len(s)
      BY <1>1
    <2>2. (i + n - 1) - (i + m - 1) + 1 = n - m + 1
      OBVIOUS
    <2> QED
      BY <2>1, <2>2, PartFacts
  <1> HIDE DEF t, u, v
  <1>5. \A j \in 1 .. n - m + 1 : u[j] = v[j]
    <2> TAKE j \in 1 .. n - m + 1
    <2>1. m + j - 1 \in 1 .. e - i + 1 /\ i + (m + j - 1) - 1 = (i + m - 1) + j - 1
      BY <1>1
    <2> QED
      BY <2>1, <1>2, <1>3, <1>4
  <1>6. u = v
    BY <1>3, <1>4, <1>5, SeqEqual
  <1> QED
    BY <1>6 DEF u, v, t
\* The part of a text from one position up to another.
LEMMA Slice ==
  ASSUME NEW A, NEW s \in Seq(A), NEW i \in Nat \ {0}, NEW e \in i .. Len(s) + 1
  PROVE  LET t == SubSeq(s, i, e - 1) IN
         /\ t \in Seq(A) /\ Len(t) = e - i /\ DOMAIN t = 1 .. e - i
         /\ \A j \in 1 .. e - i : t[j] = s[i + j - 1]
         /\ \A j \in i .. e - 1 : s[j] = t[j - i + 1]
         /\ i < e => t[1] = s[i] /\ t[e - i] = s[e - 1]
         /\ \A C : ToSet(t) \subseteq C <=> \A j \in i .. e - 1 : s[j] \in C
  <1> DEFINE t == SubSeq(s, i, e - 1)
  <1>1. Len(s) \in Nat
    BY SeqFacts
  <1>2. e - 1 \in i - 1 .. Len(s) /\ (e - 1) - i + 1 = e - i
    BY <1>1
  <1>3. /\ t \in Seq(A)
        /\ Len(t) = (e - 1) - i + 1
        /\ \A j \in 1 .. (e - 1) - i + 1 : t[j] = s[i + j - 1]
        /\ \A j \in i .. e - 1 : s[j] = t[j - i + 1]
        /\ \A C : ToSet(t) \subseteq C <=> \A j \in i .. e - 1 : s[j] \in C
    BY <1>2, PartFacts, Zenon
  <1> HIDE DEF t
  <1>4. t \in Seq(A) /\ Len(t) = e - i /\ \A j \in 1 .. e - i : t[j] = s[i + j - 1]
    BY <1>2, <1>3
  <1>5. DOMAIN t = 1 .. e - i
    BY <1>4, SeqFacts
  <1>6. i < e => t[1] = s[i] /\ t[e - i] = s[e - 1]
    BY <1>1, <1>4
  <1> QED
    BY <1>3, <1>4, <1>5, <1>6, Zenon DEF t

LEMMA SliceSet ==
  ASSUME NEW A, NEW s \in Seq(A), NEW i \in Nat \ {0}, NEW e \in i .. Len(s) + 1, NEW C
  PROVE  ToSet(SubSeq(s, i, e - 1)) \subseteq C <=> \A j \in i .. e - 1 : s[j] \in C
  BY Slice, Zenon

LEMMA SubSlice ==
  ASSUME NEW A, NEW s \in Seq(A), NEW i \in Nat \ {0}, NEW e \in i .. Len(s) + 1,
         NEW m \in Nat \ {0}, NEW n \in m - 1 .. e - i
  PROVE  SubSeq(SubSeq(s, i, e - 1), m, n) = SubSeq(s, i + m - 1, i + n - 1)
  <1>1. Len(s) \in Nat
    BY SeqFacts
  <1>2. e - 1 \in i - 1 .. Len(s) /\ n \in m - 1 .. (e - 1) - i + 1
    BY <1>1
  <1> QED
    BY <1>2, SubPart

LEMMA Pieces ==
  ASSUME NEW A, NEW s \in Seq(A), NEW i \in Nat \ {0}, NEW e \in i .. Len(s) + 1,
         NEW j \in 1 .. e - i
  PROVE  /\ SubSeq(SubSeq(s, i, e - 1), 1, j - 1) = SubSeq(s, i, i + j - 2)
         /\ SubSeq(SubSeq(s, i, e - 1), j + 1, e - i) = SubSeq(s, i + j, e - 1)
  <1>1. Len(s) \in Nat
    BY SeqFacts
  <1>2. SubSeq(SubSeq(s, i, e - 1), 1, j - 1) = SubSeq(s, i, i + j - 2)
    <2>1. j - 1 \in 1 - 1 .. e - i
      BY <1>1
    <2> QED
      BY <1>1, <2>1, SubSlice
  <1>3. SubSeq(SubSeq(s, i, e - 1), j + 1, e - i) = SubSeq(s, i + j, e - 1)
    <2>1. j + 1 \in Nat \ {0} /\ e - i \in (j + 1) - 1 .. e - i
      BY <1>1
    <2> QED
      BY <1>1, <2>1, SubSlice
  <1> QED
    BY <1>2, <1>3
-----------------------------------------------------------------------------
(* Numbers.                                                                  *)

AllDigits(s, from, end, most) ==
  /\ end - from \in 1 .. most
  /\ \A j \in from .. end - 1 : s[j] \in Digit

LEMMA DigitsFacts ==
  ASSUME NEW s \in Seq(FieldCharacter), NEW from \in Nat \ {0}, NEW end \in from .. Len(s) + 1, NEW most
  PROVE  IsDigits(SubSeq(s, from, end - 1), most) <=> AllDigits(s, from, end, most)
  <1>1. Len(s) \in Nat
    BY SeqFacts
  <1>2. Len(SubSeq(s, from, end - 1)) = end - from
    BY Slice
  <1>3. ToSet(SubSeq(s, from, end - 1)) \subseteq Digit <=> \A j \in from .. end - 1 : s[j] \in Digit
    BY SliceSet, Zenon
  <1> QED
    BY <1>2, <1>3 DEF IsDigits, AllDigits

First(s, i) == IF s[i] = "-" THEN i + 1 ELSE i

\* A number, minus sign and point included, from i up to e.
NumberAt(s, i, e) ==
  \/ AllDigits(s, First(s, i), e, MaxInteger)
  \/ \E p \in First(s, i) .. e - 1 :
       s[p] = "." /\ AllDigits(s, First(s, i), p, MaxWhole) /\ AllDigits(s, p + 1, e, MaxFraction)

\* A part of a text is a number of the grammar.
LEMMA NumberText ==
  ASSUME NEW s \in Seq(FieldCharacter), NEW i \in 1 .. Len(s), NEW e \in i + 1 .. Len(s) + 1
  PROVE  IsNumber(SubSeq(s, i, e - 1)) <=> NumberAt(s, i, e)
  <1> DEFINE t == SubSeq(s, i, e - 1)
             from == First(s, i)
             d == SubSeq(s, from, e - 1)
  <1>1. Len(s) \in Nat /\ from \in {i, i + 1} /\ from \in Nat \ {0} /\ e - 1 \in from - 1 .. Len(s)
        /\ e \in from .. Len(s) + 1
    BY SeqFacts DEF First
  <1>2. t \in Seq(FieldCharacter) /\ Len(t) = e - i /\ t[1] = s[i]
    <2>1. i \in Nat \ {0} /\ e \in i .. Len(s) + 1 /\ i < e
      BY <1>1
    <2> QED
      BY <2>1, Slice
  <1>3. (IF t[1] = "-" THEN Tail(t) ELSE t) = d
    <2>1. CASE s[i] = "-"
      <3>1. Tail(t) = SubSeq(s, i + 1, e - 1)
        BY <1>1, HeadTailOfSubSeq
      <3> QED
        BY <3>1, <2>1, <1>2 DEF First
    <2>2. CASE s[i] # "-"
      BY <2>2, <1>2 DEF First
    <2> QED
      BY <2>1, <2>2
  <1>4. d \in Seq(FieldCharacter) /\ Len(d) = e - from /\ DOMAIN d = 1 .. e - from
        /\ \A j \in 1 .. e - from : d[j] = s[from + j - 1]
    BY <1>1, Slice
  <1>5. IsDigits(d, MaxInteger) <=> AllDigits(s, from, e, MaxInteger)
    BY <1>1, DigitsFacts
  <1>6. \A j \in 1 .. e - from :
          /\ IsDigits(SubSeq(d, 1, j - 1), MaxWhole) <=> AllDigits(s, from, from + j - 1, MaxWhole)
          /\ IsDigits(SubSeq(d, j + 1, Len(d)), MaxFraction) <=> AllDigits(s, from + j, e, MaxFraction)
    <2> TAKE j \in 1 .. e - from
    <2>1. /\ j \in Nat \ {0} /\ from + j - 1 \in from .. Len(s) + 1 /\ from + j \in Nat \ {0}
          /\ e \in from + j .. Len(s) + 1
      BY <1>1
    <2>2. SubSeq(d, 1, j - 1) = SubSeq(s, from, from + j - 2)
          /\ SubSeq(d, j + 1, e - from) = SubSeq(s, from + j, e - 1)
      <3>1. from \in Nat \ {0} /\ e \in from .. Len(s) + 1
        BY <1>1
      <3> HIDE DEF from
      <3> QED
        BY <3>1, Pieces
    <2>3. from + j - 2 = (from + j - 1) - 1
      BY <1>1
    <2>4. Len(d) = e - from
      BY <1>4
    <2>5. IsDigits(SubSeq(s, from, (from + j - 1) - 1), MaxWhole)
            <=> AllDigits(s, from, from + j - 1, MaxWhole)
      BY <2>1, <1>1, DigitsFacts
    <2>6. IsDigits(SubSeq(s, from + j, e - 1), MaxFraction) <=> AllDigits(s, from + j, e, MaxFraction)
      BY <2>1, <1>1, DigitsFacts
    <2> QED
      BY <2>2, <2>3, <2>4, <2>5, <2>6
  <1> HIDE DEF t, d, from
  <1>7. IsNumber(t) <=> \/ IsDigits(d, MaxInteger)
                        \/ \E j \in 1 .. e - from : /\ d[j] = "."
                             /\ IsDigits(SubSeq(d, 1, j - 1), MaxWhole)
                             /\ IsDigits(SubSeq(d, j + 1, Len(d)), MaxFraction)
    BY <1>3, <1>4 DEF IsNumber
  <1>8. (\E j \in 1 .. e - from : /\ d[j] = "."
                             /\ IsDigits(SubSeq(d, 1, j - 1), MaxWhole)
                             /\ IsDigits(SubSeq(d, j + 1, Len(d)), MaxFraction))
        <=> \E p \in from .. e - 1 :
              s[p] = "." /\ AllDigits(s, from, p, MaxWhole) /\ AllDigits(s, p + 1, e, MaxFraction)
    <2>1. ASSUME NEW j \in 1 .. e - from, d[j] = ".",
                 IsDigits(SubSeq(d, 1, j - 1), MaxWhole),
                 IsDigits(SubSeq(d, j + 1, Len(d)), MaxFraction)
          PROVE  \E p \in from .. e - 1 :
              s[p] = "." /\ AllDigits(s, from, p, MaxWhole) /\ AllDigits(s, p + 1, e, MaxFraction)
      <3>1. from + j - 1 \in from .. e - 1 /\ (from + j - 1) + 1 = from + j
        BY <1>1
      <3>2. s[from + j - 1] = "." /\ AllDigits(s, from, from + j - 1, MaxWhole)
            /\ AllDigits(s, (from + j - 1) + 1, e, MaxFraction)
        BY <3>1, <2>1, <1>4, <1>6
      <3> QED
        BY <3>1, <3>2, Zenon
    <2>2. ASSUME NEW p \in from .. e - 1, s[p] = ".", AllDigits(s, from, p, MaxWhole),
                 AllDigits(s, p + 1, e, MaxFraction)
          PROVE  \E j \in 1 .. e - from : /\ d[j] = "."
                             /\ IsDigits(SubSeq(d, 1, j - 1), MaxWhole)
                             /\ IsDigits(SubSeq(d, j + 1, Len(d)), MaxFraction)
      <3> DEFINE j == p - from + 1
      <3>1. j \in 1 .. e - from /\ from + j - 1 = p /\ from + j = p + 1
        BY <1>1
      <3> HIDE DEF j
      <3>2. d[j] = "." /\ IsDigits(SubSeq(d, 1, j - 1), MaxWhole)
            /\ IsDigits(SubSeq(d, j + 1, Len(d)), MaxFraction)
        BY <3>1, <2>2, <1>4, <1>6
      <3> QED
        BY <3>1, <3>2, Zenon
    <2> QED
      BY <2>1, <2>2, Zenon
  <1> QED
    BY <1>5, <1>7, <1>8 DEF NumberAt, t, from

\* What comes after a value, if anything, is another parameter.
Stops(s, e) == e <= Len(s) => s[e] = ";"

\* parse_number ends behind a number.
LEMMA NumberParsed ==
  ASSUME NEW s \in Seq(FieldCharacter), NEW i \in 1 .. Len(s), At(s, i, {"-"} \cup Digit),
         parse_number(s, i) # Failed
  PROVE  parse_number(s, i) \in i + 1 .. Len(s) + 1 /\ NumberAt(s, i, parse_number(s, i))
  <1> DEFINE from == First(s, i)
             point == RunEnd(s, from, Digit)
             end == RunEnd(s, point + 1, Digit)
  <1>1. Len(s) \in Nat /\ from \in {i, i + 1} /\ from \in 1 .. Len(s) + 1
    BY SeqFacts DEF First
  <1>2. from = IF At(s, i, {"-"}) THEN i + 1 ELSE i
    BY <1>1 DEF First, At
  <1>3. point \in from .. Len(s) + 1 /\ \A j \in from .. point - 1 : s[j] \in Digit
    BY <1>1, RunEndFacts
  <1>4. point + 1 \in 1 .. Len(s) + 1 => end \in point + 1 .. Len(s) + 1
                                         /\ \A j \in point + 1 .. end - 1 : s[j] \in Digit
    BY RunEndFacts
  <1>5. parse_number(s, i) = IF point - from \notin 1 .. MaxInteger THEN Failed
                             ELSE IF ~At(s, point, {"."}) THEN point
                             ELSE IF point - from > MaxWhole THEN Failed
                             ELSE IF end - (point + 1) \notin 1 .. MaxFraction THEN Failed
                             ELSE end
    BY <1>2, Zenon DEF parse_number
  <1> HIDE DEF from, point, end
  <1>6. point - from \in 1 .. MaxInteger /\ point \in i + 1 .. Len(s) + 1
    BY <1>5, <1>1, <1>3
  <1>7. CASE ~At(s, point, {"."})
    <2>1. parse_number(s, i) = point
      BY <1>5, <1>6, <1>7
    <2>2. AllDigits(s, from, point, MaxInteger)
      BY <1>3, <1>6 DEF AllDigits
    <2> QED
      BY <2>1, <2>2, <1>6 DEF NumberAt, from
  <1>8. CASE At(s, point, {"."})
    <2>1. parse_number(s, i) = end /\ ~(point - from > MaxWhole)
          /\ end - (point + 1) \in 1 .. MaxFraction
      BY <1>5, <1>6, <1>8
    <2>2. s[point] = "." /\ point <= Len(s)
      BY <1>8 DEF At
    <2>3. end \in point + 1 .. Len(s) + 1 /\ \A j \in point + 1 .. end - 1 : s[j] \in Digit
      BY <1>1, <1>3, <1>4, <2>2
    <2>4. AllDigits(s, from, point, MaxWhole)
      BY <1>1, <1>3, <1>6, <2>1, DigitsAssumption DEF AllDigits
    <2>5. AllDigits(s, point + 1, end, MaxFraction)
      BY <2>1, <2>3 DEF AllDigits
    <2>6. end \in i + 1 .. Len(s) + 1 /\ point \in from .. end - 1
      BY <1>1, <1>3, <1>6, <2>3, <2>1, DigitsAssumption
    <2>7. \E p \in from .. end - 1 :
            s[p] = "." /\ AllDigits(s, from, p, MaxWhole) /\ AllDigits(s, p + 1, end, MaxFraction)
      BY <2>2, <2>4, <2>5, <2>6, Zenon
    <2> QED
      BY <2>1, <2>6, <2>7, Zenon DEF NumberAt, from
  <1> QED
    BY <1>7, <1>8

\* It ends behind the whole number, if parameters follow.
LEMMA NumberRead ==
  ASSUME NEW s \in Seq(FieldCharacter), NEW i \in 1 .. Len(s), NEW e \in i + 1 .. Len(s) + 1,
         NumberAt(s, i, e), Stops(s, e)
  PROVE  At(s, i, {"-"} \cup Digit) /\ parse_number(s, i) = e
  <1> DEFINE from == First(s, i)
             point == RunEnd(s, from, Digit)
             end == RunEnd(s, point + 1, Digit)
  <1>1. Len(s) \in Nat /\ from \in {i, i + 1} /\ from \in 1 .. Len(s) + 1 /\ (s[i] # "-" => from = i)
    BY SeqFacts DEF First
  <1>2. from = IF At(s, i, {"-"}) THEN i + 1 ELSE i
    BY <1>1 DEF First, At
  <1>3. parse_number(s, i) = IF point - from \notin 1 .. MaxInteger THEN Failed
                             ELSE IF ~At(s, point, {"."}) THEN point
                             ELSE IF point - from > MaxWhole THEN Failed
                             ELSE IF end - (point + 1) \notin 1 .. MaxFraction THEN Failed
                             ELSE end
    BY <1>2, Zenon DEF parse_number
  <1>4. e <= Len(s) => s[e] \notin Digit /\ s[e] # "."
    BY <1>1 DEF Digit, Stops
  <1>5. CASE AllDigits(s, from, e, MaxInteger)
    <2>1. e - from \in 1 .. MaxInteger /\ \A j \in from .. e - 1 : s[j] \in Digit
      BY <1>5 DEF AllDigits
    <2>2. e \in from .. Len(s) + 1 /\ from \in from .. e - 1
      BY <1>1, <2>1, DigitsAssumption
    <2>3. point = e
      BY <1>1, <1>4, <2>1, <2>2, RunEndIs
    <2>4. ~At(s, e, {"."})
      BY <1>4 DEF At
    <2>5. s[from] \in Digit
      BY <2>1, <2>2
    <2>6. At(s, i, {"-"} \cup Digit)
      BY <1>1, <2>5 DEF At
    <2> HIDE DEF from, point, end
    <2> QED
      BY <1>3, <2>1, <2>3, <2>4, <2>6
  <1>6. CASE \E p \in from .. e - 1 :
               s[p] = "." /\ AllDigits(s, from, p, MaxWhole) /\ AllDigits(s, p + 1, e, MaxFraction)
    <2>1. PICK p \in from .. e - 1 :
            s[p] = "." /\ AllDigits(s, from, p, MaxWhole) /\ AllDigits(s, p + 1, e, MaxFraction)
      BY <1>6, Zenon
    <2>2. p - from \in 1 .. MaxWhole /\ (\A j \in from .. p - 1 : s[j] \in Digit)
      BY <2>1 DEF AllDigits
    <2>3. e - (p + 1) \in 1 .. MaxFraction /\ (\A j \in p + 1 .. e - 1 : s[j] \in Digit)
      BY <2>1 DEF AllDigits
    <2>4. p \in from .. Len(s) + 1 /\ from \in from .. p - 1 /\ p + 1 \in 1 .. Len(s) + 1
          /\ e \in p + 1 .. Len(s) + 1
      BY <1>1, <2>2, <2>3, DigitsAssumption
    <2>5. s[p] \notin Digit
      BY <2>1 DEF Digit
    <2>6. point = p
      BY <1>1, <2>2, <2>4, <2>5, RunEndIs
    <2>7. RunEnd(s, p + 1, Digit) = e
      BY <1>1, <1>4, <2>3, <2>4, RunEndIs
    <2>8. end = e
      BY <2>6, <2>7
    <2>9. At(s, p, {"."})
      BY <1>1, <2>1, <2>4 DEF At
    <2>10. s[from] \in Digit
      BY <2>2, <2>4
    <2>11. At(s, i, {"-"} \cup Digit)
      BY <1>1, <2>10 DEF At
    <2> HIDE DEF from, point, end
    <2>12. p - from \in 1 .. MaxInteger /\ ~(p - from > MaxWhole)
      BY <2>2, DigitsAssumption
    <2> QED
      BY <1>3, <2>3, <2>6, <2>8, <2>9, <2>11, <2>12
  <1> QED
    BY <1>5, <1>6 DEF NumberAt
-----------------------------------------------------------------------------
(* Booleans and tokens.                                                      *)

LEMMA TwoFacts ==
  ASSUME NEW A, NEW a \in A, NEW b \in A
  PROVE  <<a, b>> \in Seq(A) /\ Len(<<a, b>>) = 2 /\ <<a, b>>[1] = a /\ <<a, b>>[2] = b
  OBVIOUS

LEMMA BooleanText ==
  ASSUME NEW s \in Seq(FieldCharacter), NEW i \in 1 .. Len(s), NEW e \in i + 1 .. Len(s) + 1
  PROVE  SubSeq(s, i, e - 1) \in {<<"?", "0">>, <<"?", "1">>}
           <=> e = i + 2 /\ s[i] = "?" /\ s[i + 1] \in {"0", "1"}
  <1> DEFINE t == SubSeq(s, i, e - 1)
  <1>1. Len(s) \in Nat
    BY SeqFacts
  <1>2. t \in Seq(FieldCharacter) /\ Len(t) = e - i /\ \A j \in 1 .. e - i : t[j] = s[i + j - 1]
    BY <1>1, Slice
  <1> HIDE DEF t
  <1>4. ASSUME NEW c \in FieldCharacter PROVE t = <<"?", c>> <=> e = i + 2 /\ s[i] = "?" /\ s[i + 1] = c
    <2>0. <<"?", c>> \in Seq(FieldCharacter) /\ Len(<<"?", c>>) = 2
          /\ <<"?", c>>[1] = "?" /\ <<"?", c>>[2] = c
      <3>1. "?" \in FieldCharacter
        BY DEF FieldCharacter
      <3> QED
        BY <3>1, TwoFacts, Zenon
    <2>1. ASSUME t = <<"?", c>> PROVE e = i + 2 /\ s[i] = "?" /\ s[i + 1] = c
      BY <2>1, <1>1, <1>2, <2>0
    <2>2. ASSUME e = i + 2, s[i] = "?", s[i + 1] = c PROVE t = <<"?", c>>
      <3>1. Len(t) = 2 /\ t[1] = "?" /\ t[2] = c
        BY <2>2, <1>1, <1>2
      <3>2. \A j \in 1 .. Len(t) : t[j] = <<"?", c>>[j]
        BY <3>1, <2>0
      <3> QED
        BY <3>1, <3>2, <1>2, <2>0, SeqEqual
    <2> QED
      BY <2>1, <2>2
  <1>5. t = <<"?", "0">> <=> e = i + 2 /\ s[i] = "?" /\ s[i + 1] = "0"
    <2>1. "0" \in FieldCharacter
      BY DEF FieldCharacter, TokenChars, Digit
    <2> QED
      BY <2>1, <1>4, Zenon
  <1>6. t = <<"?", "1">> <=> e = i + 2 /\ s[i] = "?" /\ s[i + 1] = "1"
    <2>1. "1" \in FieldCharacter
      BY DEF FieldCharacter, TokenChars, Digit
    <2> QED
      BY <2>1, <1>4, Zenon
  <1> QED
    BY <1>5, <1>6, Zenon DEF t

LEMMA TokenText ==
  ASSUME NEW s \in Seq(FieldCharacter), NEW i \in 1 .. Len(s), NEW e \in i + 1 .. Len(s) + 1
  PROVE  LET t == SubSeq(s, i, e - 1) IN
         t[1] \in TokenStart /\ ToSet(t) \subseteq TokenChars
           <=> s[i] \in TokenStart /\ \A j \in i + 1 .. e - 1 : s[j] \in TokenChars
  <1>1. Len(s) \in Nat /\ i \in Nat \ {0} /\ e \in i .. Len(s) + 1 /\ i < e
    BY SeqFacts
  <1>2. SubSeq(s, i, e - 1)[1] = s[i]
    BY <1>1, Slice
  <1>3. ToSet(SubSeq(s, i, e - 1)) \subseteq TokenChars <=> \A j \in i .. e - 1 : s[j] \in TokenChars
    BY <1>1, SliceSet, Zenon
  <1>4. TokenStart \subseteq TokenChars
    BY DEF TokenStart, TokenChars
  <1> QED
    BY <1>1, <1>2, <1>3, <1>4

\* parse_token and parse_boolean_value end behind what they are for.
LEMMA TokenParsed ==
  ASSUME NEW s \in Seq(FieldCharacter), NEW i \in 1 .. Len(s)
  PROVE  /\ parse_token(s, i) \in i + 1 .. Len(s) + 1
         /\ \A j \in i + 1 .. parse_token(s, i) - 1 : s[j] \in TokenChars
  <1>1. i + 1 \in 1 .. Len(s) + 1
    BY SeqFacts
  <1> QED
    BY <1>1, RunEndFacts DEF parse_token

LEMMA TokenRead ==
  ASSUME NEW s \in Seq(FieldCharacter), NEW i \in 1 .. Len(s), NEW e \in i + 1 .. Len(s) + 1,
         \A j \in i + 1 .. e - 1 : s[j] \in TokenChars, Stops(s, e)
  PROVE  parse_token(s, i) = e
  <1>1. Len(s) \in Nat /\ i + 1 \in 1 .. Len(s) + 1
    BY SeqFacts
  <1>2. e <= Len(s) => s[e] \notin TokenChars
    BY <1>1 DEF TokenChars, Alpha, Digit, Stops
  <1> QED
    BY <1>1, <1>2, RunEndIs DEF parse_token

(* Byte sequences.                                                           *)

\* n base64 characters with no bit left over, and their padding.
Base64Of(text, n) ==
  LET unused == (6 * n) % 8 IN
  /\ \A j \in 1 .. n : text[j] \in DOMAIN Base64Value
  /\ \A j \in n + 1 .. Len(text) : text[j] = "="
  /\ Len(text) - n \in {0, (4 - (n % 4)) % 4}
  /\ unused < 6
  /\ unused > 0 => Base64Value[text[n]] % 2 ^ unused = 0

LEMMA Bits ==
  ASSUME NEW n \in Nat
  PROVE  \/ n % 4 = 0 /\ (6 * n) % 8 = 0
         \/ n % 4 = 1 /\ (6 * n) % 8 = 6
         \/ n % 4 = 2 /\ (6 * n) % 8 = 4
         \/ n % 4 = 3 /\ (6 * n) % 8 = 2
  OBVIOUS

\* Padding that was left out can be restored in one way.
LEMMA Restored ==
  ASSUME NEW n \in Nat, NEW r \in Nat
  PROVE  /\ n % 4 \in 0 .. 3
         /\ n % 4 = 0 => (4 - (n % 4)) % 4 = 0
         /\ n % 4 = 1 => (4 - (n % 4)) % 4 = 3
         /\ n % 4 = 2 => (4 - (n % 4)) % 4 = 2
         /\ n % 4 = 3 => (4 - (n % 4)) % 4 = 1
         /\ r \in 0 .. 2 /\ (n + r) % 4 = 0 => r = (4 - (n % 4)) % 4
         /\ r = (4 - (n % 4)) % 4 => (n + r) % 4 = 0
  OBVIOUS

\* A length that is valid once restored leaves no, two or four bits unused.
LEMMA RestoredUnused ==
  ASSUME NEW L \in Nat, NEW m \in 0 .. L, L - m <= 2, NEW r,
         r = IF L - m = 0 THEN (4 - (m % 4)) % 4 ELSE L - m, r # 3, (m + r) % 4 = 0
  PROVE  /\ L - m \in {0, (4 - (m % 4)) % 4}
         /\ \/ (6 * m) % 8 = 0
            \/ (6 * m) % 8 = 4 /\ r = 2
            \/ (6 * m) % 8 = 2 /\ r = 1
  <1>1. r \in 0 .. 2 /\ L - m \in {0, r}
    BY Restored
  <1>2. r = (4 - (m % 4)) % 4
    BY <1>1, Restored
  <1> QED
    BY <1>1, <1>2, Bits, Restored

LEMMA UnusedRestored ==
  ASSUME NEW L \in Nat, NEW m \in 0 .. L, L - m \in {0, (4 - (m % 4)) % 4}, (6 * m) % 8 < 6, NEW r,
         r = IF L - m = 0 THEN (4 - (m % 4)) % 4 ELSE L - m
  PROVE  /\ L - m <= 2 /\ r # 3 /\ (m + r) % 4 = 0
         /\ r = 1 => (6 * m) % 8 = 2
         /\ r = 2 => (6 * m) % 8 = 4
  <1>1. r = (4 - (m % 4)) % 4
    OBVIOUS
  <1>2. \/ m % 4 = 0 /\ (6 * m) % 8 = 0 /\ r = 0
        \/ m % 4 = 2 /\ (6 * m) % 8 = 4 /\ r = 2
        \/ m % 4 = 3 /\ (6 * m) % 8 = 2 /\ r = 1
    BY <1>1, Bits, Restored
  <1>3. r \in Nat /\ L - m <= 2
    BY <1>1, <1>2
  <1>4. (m + r) % 4 = 0
    BY <1>1, <1>3, Restored
  <1> QED
    BY <1>2, <1>3, <1>4

Cleared(text, n, k) == Base64Value[text[n]] % k = 0

\* is_valid_base64 takes the base64 texts of whole octets, padded or not.
LEMMA Base64Facts ==
  ASSUME NEW text \in Seq(FieldCharacter)
  PROVE  is_valid_base64(text) <=> \E n \in 0 .. Len(text) : Base64Of(text, n)
  <1> DEFINE L == Len(text)
             T == {i \in DOMAIN text : text[i] # "="} \cup {0}
             m == Max(T)
             r == IF L - m = 0 THEN (4 - (m % 4)) % 4 ELSE L - m
             V == Base64Value
  <1>1. L \in Nat /\ DOMAIN text = 1 .. L /\ (text = <<>> <=> L = 0)
    BY SeqFacts
  <1>2. m \in 0 .. L /\ (\A j \in m + 1 .. L : text[j] = "=") /\ (m > 0 => text[m] # "=")
    <2>1. T \subseteq 0 .. L /\ T # {}
      BY <1>1
    <2>2. m \in T /\ \A k \in T : k <= m
      BY <2>1, <1>1, MaxFacts
    <2>3. m \in 0 .. L
      BY <2>1, <2>2
    <2>4. m > 0 => text[m] # "="
      BY <2>2
    <2>5. ASSUME NEW j \in m + 1 .. L, text[j] # "=" PROVE FALSE
      <3>1. j \in 1 .. L /\ ~(j <= m)
        BY <2>3, <1>1
      <3>2. j \in T
        BY <3>1, <2>5, <1>1, Zenon
      <3> QED
        BY <3>1, <3>2, <2>2, Zenon
    <2> QED
      BY <2>3, <2>4, <2>5
  <1>3. is_valid_base64(text) <=>
          \/ text = <<>>
          \/ /\ L - m <= 2 /\ m # 0 /\ (\A j \in 1 .. m : text[j] \in DOMAIN V)
             /\ r # 3 /\ (m + r) % 4 = 0
             /\ r = 1 => Cleared(text, m, 4)
             /\ r = 2 => Cleared(text, m, 16)
    <2> USE DEF Cleared
    <2> DEFINE content == SubSeq(text, 1, L - (L - m))
               s == IF L - m = 0 THEN (4 - (Len(content) % 4)) % 4 ELSE L - m
    <2>1. is_valid_base64(text) <=>
            \/ text = <<>>
            \/ /\ L - m <= 2 /\ content # <<>> /\ ToSet(content) \subseteq DOMAIN V
               /\ s # 3 /\ (Len(content) + s) % 4 = 0
               /\ s = 1 => V[Last(content)] % 4 = 0
               /\ s = 2 => V[Last(content)] % 16 = 0
      BY Zenon DEF is_valid_base64
    <2>2. L - (L - m) = (m + 1) - 1 /\ m + 1 \in 1 .. L + 1 /\ 1 \in Nat \ {0} /\ (m + 1) - 1 = m
      BY <1>1, <1>2
    <2> HIDE DEF m
    <2>3. content \in Seq(FieldCharacter) /\ Len(content) = m /\ (m > 0 => content[m] = text[m])
      <3>1. SubSeq(text, 1, (m + 1) - 1) \in Seq(FieldCharacter)
            /\ Len(SubSeq(text, 1, (m + 1) - 1)) = (m + 1) - 1
            /\ (1 < m + 1 => SubSeq(text, 1, (m + 1) - 1)[(m + 1) - 1] = text[(m + 1) - 1])
        BY <2>2, Slice
      <3> QED
        BY <3>1, <2>2, <1>2
    <2>4. ToSet(content) \subseteq DOMAIN V <=> \A j \in 1 .. m : text[j] \in DOMAIN V
      <3>1. ToSet(SubSeq(text, 1, (m + 1) - 1)) \subseteq DOMAIN V
              <=> \A j \in 1 .. (m + 1) - 1 : text[j] \in DOMAIN V
        BY <2>2, SliceSet, Zenon
      <3> QED
        BY <3>1, <2>2, Zenon
    <2> HIDE DEF content
    <2>5. (content # <<>> <=> m # 0) /\ s = r /\ (m > 0 => Last(content) = text[m])
      BY <2>3, SeqFacts DEF Last
    <2> HIDE DEF s, r
    <2> QED
      <3>1. CASE m = 0
        BY <3>1, <2>1, <2>5
      <3>2. CASE m # 0
        <4>1. m > 0
          BY <3>2, <1>2
        <4> QED
          BY <4>1, <3>2, <2>1, <2>3, <2>4, <2>5, Zenon
      <3> QED
        BY <3>1, <3>2
  <1>4. "=" \notin DOMAIN V
    BY DEF Base64Value
  <1>5. 2 ^ 2 = 4 /\ 2 ^ 4 = 16
    OBVIOUS
  <1> HIDE DEF m, V, T
  <1>6. ASSUME text # <<>>, L - m <= 2, m # 0, \A j \in 1 .. m : text[j] \in DOMAIN V,
               r # 3, (m + r) % 4 = 0,
               r = 1 => Cleared(text, m, 4), r = 2 => Cleared(text, m, 16)
        PROVE  Base64Of(text, m)
    <2>1. /\ L - m \in {0, (4 - (m % 4)) % 4}
          /\ \/ (6 * m) % 8 = 0
             \/ (6 * m) % 8 = 4 /\ r = 2
             \/ (6 * m) % 8 = 2 /\ r = 1
      <3> HIDE DEF L
      <3> QED
        BY <1>6, <1>1, <1>2, RestoredUnused, ZenonT(60)
    <2>2. (6 * m) % 8 < 6
      BY <2>1
    <2> HIDE DEF r
    <2>3. (6 * m) % 8 > 0 => Cleared(text, m, 2 ^ ((6 * m) % 8))
      <3>1. CASE (6 * m) % 8 = 0
        BY <3>1
      <3>2. CASE (6 * m) % 8 = 4 /\ r = 2
        BY <3>2, <1>6, <1>5, Zenon
      <3>3. CASE (6 * m) % 8 = 2 /\ r = 1
        BY <3>3, <1>6, <1>5, Zenon
      <3> QED
        BY <2>1, <3>1, <3>2, <3>3, Zenon
    <2> QED
      BY <2>1, <2>2, <2>3, <1>6, <1>2, Zenon DEF Base64Of, V, L, Cleared
  <1>7. ASSUME NEW n \in 0 .. L, Base64Of(text, n), n # 0
        PROVE  /\ L - m <= 2 /\ m # 0 /\ (\A j \in 1 .. m : text[j] \in DOMAIN V)
               /\ r # 3 /\ (m + r) % 4 = 0
               /\ r = 1 => Cleared(text, m, 4)
               /\ r = 2 => Cleared(text, m, 16)
    <2>1. /\ \A j \in 1 .. n : text[j] \in DOMAIN V
          /\ \A j \in n + 1 .. L : text[j] = "="
          /\ L - n \in {0, (4 - (n % 4)) % 4}
          /\ (6 * n) % 8 < 6
          /\ (6 * n) % 8 > 0 => Cleared(text, n, 2 ^ ((6 * n) % 8))
      BY <1>7, Zenon DEF Base64Of, V, L, Cleared
    <2>2. text[n] # "="
      <3>1. n \in 1 .. n
        BY <1>7, <1>1
      <3> QED
        BY <3>1, <2>1, <1>4, Zenon
    <2>3. m = n
      <3>1. ~(m < n)
        <4>1. m < n => n \in m + 1 .. L
          BY <1>1, <1>2, <1>7
        <4> QED
          BY <4>1, <1>2, <2>2, Zenon
      <3>2. ~(n < m)
        <4>1. n < m => m \in n + 1 .. L /\ m > 0
          BY <1>1, <1>2, <1>7
        <4> QED
          BY <4>1, <1>2, <2>1, Zenon
      <3> HIDE DEF L
      <3> QED
        BY <3>1, <3>2, <1>1, <1>2
    <2>4. /\ L - m <= 2 /\ r # 3 /\ (m + r) % 4 = 0
          /\ r = 1 => (6 * m) % 8 = 2
          /\ r = 2 => (6 * m) % 8 = 4
      <3> HIDE DEF L
      <3>1. L - m \in {0, (4 - (m % 4)) % 4} /\ (6 * m) % 8 < 6
        BY <2>1, <2>3, Zenon
      <3> QED
        BY <3>1, <1>1, <1>2, UnusedRestored, Zenon
    <2> HIDE DEF r
    <2>5. 2 > 0 /\ 4 > 0
      OBVIOUS
    <2>6. r = 1 => Cleared(text, m, 4)
      BY <2>1, <2>3, <2>4, <2>5, <1>5, Zenon
    <2>7. r = 2 => Cleared(text, m, 16)
      BY <2>1, <2>3, <2>4, <2>5, <1>5, Zenon
    <2> QED
      BY <2>1, <2>3, <2>4, <2>6, <2>7, <1>7, Zenon
  <1>8. ASSUME text = <<>> PROVE Base64Of(text, 0) /\ 0 \in 0 .. L
    BY <1>8, <1>1 DEF Base64Of
  <1>9. ASSUME Base64Of(text, 0) PROVE text = <<>>
    BY <1>9, <1>1 DEF Base64Of
  <1> HIDE DEF L, r
  <1>10. ASSUME is_valid_base64(text) PROVE \E n \in 0 .. L : Base64Of(text, n)
    BY <1>10, <1>2, <1>3, <1>6, <1>8, Zenon
  <1>11. ASSUME NEW n \in 0 .. L, Base64Of(text, n) PROVE is_valid_base64(text)
    BY <1>11, <1>3, <1>7, <1>9, Zenon
  <1> QED
    BY <1>10, <1>11, Zenon DEF L

BinaryAt(s, i, e) ==
  /\ e >= i + 2 /\ s[i] = ":" /\ s[e - 1] = ":"
  /\ is_valid_base64(SubSeq(s, i + 1, e - 2))

LEMMA InsideFacts ==
  ASSUME NEW A, NEW s \in Seq(A), NEW i \in 1 .. Len(s), NEW e \in i + 2 .. Len(s) + 1
  PROVE  LET t == SubSeq(s, i, e - 1)
             text == SubSeq(s, i + 1, e - 2)
         IN  /\ text \in Seq(A) /\ Len(text) = e - i - 2
             /\ \A j \in 1 .. Len(text) : text[j] = s[i + j]
             /\ t \in Seq(A) /\ Len(t) = e - i /\ t[1] = s[i] /\ t[Len(t)] = s[e - 1]
             /\ \A j \in 2 .. Len(t) - 1 : t[j] = text[j - 1]
  <1>1. Len(s) \in Nat /\ i + 1 \in Nat \ {0} /\ e - 1 \in i + 1 .. Len(s) + 1
        /\ i \in Nat \ {0} /\ e \in i .. Len(s) + 1 /\ i < e
    BY SeqFacts
  <1>2. (e - 1) - 1 = e - 2 /\ (e - 1) - (i + 1) = e - i - 2
    BY <1>1
  <1> DEFINE t == SubSeq(s, i, e - 1)
             text == SubSeq(s, i + 1, e - 2)
  <1>3. t \in Seq(A) /\ Len(t) = e - i /\ t[1] = s[i] /\ t[e - i] = s[e - 1]
        /\ \A j \in 1 .. e - i : t[j] = s[i + j - 1]
    BY <1>1, Slice
  <1>4. text \in Seq(A) /\ Len(text) = e - i - 2
        /\ \A j \in 1 .. e - i - 2 : text[j] = s[(i + 1) + j - 1]
    <2>1. /\ SubSeq(s, i + 1, (e - 1) - 1) \in Seq(A)
          /\ Len(SubSeq(s, i + 1, (e - 1) - 1)) = (e - 1) - (i + 1)
          /\ \A j \in 1 .. (e - 1) - (i + 1) : SubSeq(s, i + 1, (e - 1) - 1)[j] = s[(i + 1) + j - 1]
      BY <1>1, Slice
    <2> QED
      BY <2>1, <1>2, Zenon
  <1> HIDE DEF t, text
  <1>5. \A j \in 1 .. e - i - 2 : text[j] = s[i + j]
    <2> TAKE j \in 1 .. e - i - 2
    <2>1. (i + 1) + j - 1 = i + j
      OBVIOUS
    <2> QED
      BY <2>1, <1>4, Zenon
  <1>6. \A j \in 2 .. (e - i) - 1 : t[j] = text[j - 1]
    <2> TAKE j \in 2 .. (e - i) - 1
    <2>1. j \in 1 .. e - i /\ j - 1 \in 1 .. e - i - 2 /\ i + j - 1 = i + (j - 1)
      BY <1>1
    <2> QED
      BY <2>1, <1>3, <1>5, Zenon
  <1> QED
    BY <1>3, <1>4, <1>5, <1>6, Zenon DEF t, text

LEMMA BinaryText ==
  ASSUME NEW s \in Seq(FieldCharacter), NEW i \in 1 .. Len(s), NEW e \in i + 1 .. Len(s) + 1
  PROVE  IsBinary(SubSeq(s, i, e - 1), TRUE) <=> BinaryAt(s, i, e)
  <1>1. Len(s) \in Nat
    BY SeqFacts
  <1>2. CASE ~(e >= i + 2)
    <2>1. Len(SubSeq(s, i, e - 1)) = e - i
      BY <1>1, Slice
    <2> QED
      BY <2>1, <1>2, <1>1 DEF IsBinary, BinaryAt
  <1>3. CASE e >= i + 2
    <2> DEFINE t == SubSeq(s, i, e - 1)
               text == SubSeq(s, i + 1, e - 2)
               L == Len(text)
               Lt == Len(t)
    <2>1. e \in i + 2 .. Len(s) + 1
      BY <1>3, <1>1
    <2>2. /\ text \in Seq(FieldCharacter) /\ L = e - i - 2
          /\ t \in Seq(FieldCharacter) /\ Lt = e - i /\ t[1] = s[i] /\ t[Lt] = s[e - 1]
          /\ \A j \in 2 .. Lt - 1 : t[j] = text[j - 1]
      BY <2>1, InsideFacts
    <2>3. is_valid_base64(text) <=> \E n \in 0 .. L : Base64Of(text, n)
      BY <2>2, Base64Facts, Zenon
    <2> HIDE DEF t, text
    <2>4. L \in Nat /\ Lt = L + 2 /\ Lt >= 2
      BY <2>2, <2>1, <1>1
    <2> HIDE DEF L, Lt
    <2>5. ASSUME NEW n \in 0 .. L
          PROVE  /\ ToSet(SubSeq(t, 2, n + 1)) \subseteq DOMAIN Base64Value
                      <=> \A j \in 1 .. n : text[j] \in DOMAIN Base64Value
                 /\ ToSet(SubSeq(t, n + 2, Lt - 1)) \subseteq {"="}
                      <=> \A j \in n + 1 .. L : text[j] = "="
                 /\ n > 0 => t[n + 1] = text[n]
      <3>1. /\ 2 \in Nat \ {0} /\ n + 2 \in 2 .. Lt + 1 /\ (n + 2) - 1 = n + 1
            /\ n + 2 \in Nat \ {0} /\ Lt \in n + 2 .. Lt + 1
        BY <2>4
      <3>2. ToSet(SubSeq(t, 2, n + 1)) \subseteq DOMAIN Base64Value
              <=> \A j \in 2 .. n + 1 : t[j] \in DOMAIN Base64Value
        <4>1. ToSet(SubSeq(t, 2, (n + 2) - 1)) \subseteq DOMAIN Base64Value
              <=> \A j \in 2 .. (n + 2) - 1 : t[j] \in DOMAIN Base64Value
          BY <3>1, <2>2, SliceSet, Zenon DEF Lt
        <4> QED
          BY <4>1, <3>1, Zenon
      <3>3. ToSet(SubSeq(t, n + 2, Lt - 1)) \subseteq {"="} <=> \A j \in n + 2 .. Lt - 1 : t[j] = "="
        <4>1. ToSet(SubSeq(t, n + 2, Lt - 1)) \subseteq {"="} <=> \A j \in n + 2 .. Lt - 1 : t[j] \in {"="}
          BY <3>1, <2>2, SliceSet, Zenon DEF Lt
        <4> QED
          BY <4>1, Zenon
      <3>4. \A j \in 1 .. L : j + 1 \in 2 .. Lt - 1 /\ t[j + 1] = text[j]
        <4> TAKE j \in 1 .. L
        <4>1. j + 1 \in 2 .. Lt - 1 /\ (j + 1) - 1 = j
          BY <2>4
        <4> QED
          BY <4>1, <2>2, Zenon
      <3>5. (\A j \in 2 .. n + 1 : t[j] \in DOMAIN Base64Value)
              <=> \A j \in 1 .. n : text[j] \in DOMAIN Base64Value
        <4>1. \A j \in 1 .. n : j \in 1 .. L /\ j + 1 \in 2 .. n + 1
          BY <2>4
        <4>2. \A j \in 2 .. n + 1 : j - 1 \in 1 .. n /\ j - 1 \in 1 .. L /\ (j - 1) + 1 = j
          BY <2>4
        <4> QED
          BY <4>1, <4>2, <3>4, Zenon
      <3>6. (\A j \in n + 2 .. Lt - 1 : t[j] = "=") <=> \A j \in n + 1 .. L : text[j] = "="
        <4>1. \A j \in n + 1 .. L : j \in 1 .. L /\ j + 1 \in n + 2 .. Lt - 1
          BY <2>4
        <4>2. \A j \in n + 2 .. Lt - 1 : j - 1 \in n + 1 .. L /\ j - 1 \in 1 .. L /\ (j - 1) + 1 = j
          BY <2>4
        <4> QED
          BY <4>1, <4>2, <3>4, Zenon
      <3>7. n > 0 => t[n + 1] = text[n]
        <4>1. n > 0 => n \in 1 .. L
          BY <2>4
        <4> QED
          BY <4>1, <3>4, Zenon
      <3> QED
        BY <3>2, <3>3, <3>5, <3>6, <3>7, Zenon
    <2>6. Lt - 2 = L /\ \A n \in 0 .. L : Lt - 2 - n = L - n
      BY <2>4
    <2>7. \A n \in 0 .. L : (6 * n) % 8 > 0 => n > 0
      BY <2>4
    <2>8. IsBinary(t, TRUE) <=>
            /\ t[1] = ":" /\ t[Lt] = ":"
            /\ \E n \in 0 .. L :
                 LET unused == (6 * n) % 8 IN
                 /\ ToSet(SubSeq(t, 2, n + 1)) \subseteq DOMAIN Base64Value
                 /\ ToSet(SubSeq(t, n + 2, Lt - 1)) \subseteq {"="}
                 /\ L - n \in {0, (4 - (n % 4)) % 4}
                 /\ unused < 6
                 /\ unused > 0 => Base64Value[t[n + 1]] % 2 ^ unused = 0
      BY <2>4, <2>6, Zenon DEF IsBinary, Lt
    <2>9. ASSUME NEW n \in 0 .. L
          PROVE  (LET unused == (6 * n) % 8 IN
                 /\ ToSet(SubSeq(t, 2, n + 1)) \subseteq DOMAIN Base64Value
                 /\ ToSet(SubSeq(t, n + 2, Lt - 1)) \subseteq {"="}
                 /\ L - n \in {0, (4 - (n % 4)) % 4}
                 /\ unused < 6
                 /\ unused > 0 => Base64Value[t[n + 1]] % 2 ^ unused = 0) <=> Base64Of(text, n)
      BY <2>5, <2>7, Zenon DEF Base64Of, L
    <2>10. IsBinary(t, TRUE) <=> t[1] = ":" /\ t[Lt] = ":" /\ \E n \in 0 .. L : Base64Of(text, n)
      BY <2>8, <2>9, Zenon
    <2> QED
      BY <2>2, <2>3, <2>10, <1>3, Zenon DEF BinaryAt, t, text
  <1> QED
    BY <1>2, <1>3

LEMMA BinaryParsed ==
  ASSUME NEW s \in Seq(FieldCharacter), NEW i \in 1 .. Len(s), At(s, i, {":"}),
         parse_binary(s, i) # Failed
  PROVE  parse_binary(s, i) \in i + 1 .. Len(s) + 1 /\ BinaryAt(s, i, parse_binary(s, i))
  <1> DEFINE T == {j \in i + 1 .. Len(s) : s[j] = ":"} \cup {Len(s) + 1}
             end == Min(T)
  <1>1. Len(s) \in Nat
    BY SeqFacts
  <1>2. T \subseteq Nat /\ T # {} /\ T \subseteq i + 1 .. Len(s) + 1
    BY <1>1
  <1>3. end \in T
    BY <1>2, MinFacts
  <1>4. end \in i + 1 .. Len(s) + 1 /\ (end <= Len(s) => s[end] = ":")
    BY <1>1, <1>2, <1>3
  <1>5. parse_binary(s, i) = IF end <= Len(s) /\ is_valid_base64(SubSeq(s, i + 1, end - 1))
                             THEN end + 1 ELSE Failed
    BY Zenon DEF parse_binary
  <1> HIDE DEF end
  <1>6. parse_binary(s, i) = end + 1 /\ end <= Len(s) /\ is_valid_base64(SubSeq(s, i + 1, end - 1))
    BY <1>5, Zenon
  <1>7. end + 1 >= i + 2 /\ (end + 1) - 1 = end /\ (end + 1) - 2 = end - 1 /\ end + 1 \in i + 1 .. Len(s) + 1
    BY <1>1, <1>4, <1>6
  <1>8. s[i] = ":"
    BY DEF At
  <1> QED
    BY <1>4, <1>6, <1>7, <1>8, Zenon DEF BinaryAt

LEMMA BinaryRead ==
  ASSUME NEW s \in Seq(FieldCharacter), NEW i \in 1 .. Len(s), NEW e \in i + 1 .. Len(s) + 1,
         BinaryAt(s, i, e)
  PROVE  At(s, i, {":"}) /\ parse_binary(s, i) = e
  <1> DEFINE T == {j \in i + 1 .. Len(s) : s[j] = ":"} \cup {Len(s) + 1}
             text == SubSeq(s, i + 1, e - 2)
  <1>1. Len(s) \in Nat /\ e \in i + 2 .. Len(s) + 1 /\ s[i] = ":" /\ s[e - 1] = ":" /\ is_valid_base64(text)
    BY SeqFacts DEF BinaryAt
  <1>2. text \in Seq(FieldCharacter) /\ Len(text) = e - i - 2 /\ \A j \in 1 .. Len(text) : text[j] = s[i + j]
    BY <1>1, InsideFacts
  <1> HIDE DEF text
  <1>3. PICK n \in 0 .. Len(text) : Base64Of(text, n)
    BY <1>1, <1>2, Base64Facts, Zenon
  <1>4. \A j \in 1 .. Len(text) : text[j] # ":"
    <2>1. /\ \A j \in 1 .. n : text[j] \in DOMAIN Base64Value
          /\ \A j \in n + 1 .. Len(text) : text[j] = "="
      BY <1>3, Zenon DEF Base64Of
    <2>2. ":" \notin DOMAIN Base64Value
      BY DEF Base64Value
    <2> TAKE j \in 1 .. Len(text)
    <2>3. j \in 1 .. n \/ j \in n + 1 .. Len(text)
      BY <1>2, <1>1
    <2> QED
      BY <2>1, <2>2, <2>3, Zenon
  <1>5. \A j \in i + 1 .. e - 2 : s[j] # ":"
    <2> TAKE j \in i + 1 .. e - 2
    <2>1. j - i \in 1 .. Len(text) /\ i + (j - i) = j
      BY <1>1, <1>2
    <2> QED
      BY <2>1, <1>2, <1>4, Zenon
  <1>6. e - 1 \in i + 1 .. Len(s) /\ e - 1 <= Len(s)
    BY <1>1
  <1>7. e - 1 \in T
    BY <1>1, <1>6, Zenon
  <1>8. \A k \in T : e - 1 <= k
    <2> TAKE k \in T
    <2>1. CASE k = Len(s) + 1
      BY <2>1, <1>1
    <2>2. CASE k \in i + 1 .. Len(s) /\ s[k] = ":"
      <3>1. k \notin i + 1 .. e - 2
        BY <2>2, <1>5, Zenon
      <3> QED
        BY <3>1, <2>2, <1>1
    <2> QED
      BY <2>1, <2>2
  <1>9. T \subseteq Int
    BY <1>1
  <1>10. Min(T) = e - 1
    BY <1>7, <1>8, <1>9, MinIs, Zenon
  <1>11. (e - 1) - 1 = e - 2 /\ (e - 1) + 1 = e
    BY <1>1
  <1>12. parse_binary(s, i) = e
    BY <1>10, <1>11, <1>6, <1>1, Zenon DEF parse_binary, text
  <1> QED
    BY <1>12, <1>1 DEF At

(* A recursive function whose values are given at some places and are those  *)
(* of a later place at the others.                                          *)

Jumps(f, a, b, H, given, jump) == f = [j \in a .. b |-> IF j \in H THEN given[j] ELSE f[jump[j]]]

\* There is such a function: by induction from the last place down.
LEMMA JumpsExist ==
  ASSUME NEW a \in Nat, NEW b \in Nat, a <= b, NEW H, NEW given, NEW jump,
         \A j \in a .. b : j \notin H => jump[j] \in j + 1 .. b
  PROVE  \E f : Jumps(f, a, b, H, given, jump)
  <1> DEFINE Is(f, m) == f = [j \in m .. b |-> IF j \in H THEN given[j] ELSE f[jump[j]]]
             S == {m \in a .. b : \E f : Is(f, m)}
  <1>1. ASSUME NEW m \in a .. b, \A k \in m + 1 .. b : k \in S
        PROVE  m \in S
    <2>1. CASE m = b
      <3>1. b \in H
        BY <2>1
      <3> DEFINE f == [j \in m .. b |-> given[j]]
      <3>2. \A j \in m .. b : f[j] = IF j \in H THEN given[j] ELSE f[jump[j]]
        BY <2>1, <3>1
      <3>3. f = [j \in m .. b |-> IF j \in H THEN given[j] ELSE f[jump[j]]]
        BY <3>2
      <3> HIDE DEF f
      <3> QED
        BY <3>3
    <2>2. CASE m # b
      <3>1. m + 1 \in m + 1 .. b
        BY <2>2
      <3>2. PICK g : Is(g, m + 1)
        BY <3>1, <1>1
      <3>3. \A j \in m + 1 .. b : g[j] = IF j \in H THEN given[j] ELSE g[jump[j]]
        BY <3>2, Zenon
      <3> DEFINE f == [j \in m .. b |-> IF j = m THEN IF m \in H THEN given[m] ELSE g[jump[m]] ELSE g[j]]
      <3>4. \A j \in m + 1 .. b : j \in m .. b /\ j # m
        OBVIOUS
      <3>5. \A j \in m + 1 .. b : f[j] = g[j]
        BY <3>4, Zenon
      <3>6. f[m] = IF m \in H THEN given[m] ELSE g[jump[m]]
        OBVIOUS
      <3> HIDE DEF f
      <3>7. ASSUME NEW j \in m .. b PROVE f[j] = IF j \in H THEN given[j] ELSE f[jump[j]]
        <4>1. j \notin H => jump[j] \in m + 1 .. b
          OBVIOUS
        <4>2. j = m \/ j \in m + 1 .. b
          OBVIOUS
        <4> QED
          BY <4>1, <4>2, <3>3, <3>5, <3>6, Zenon
      <3>8. f = [j \in m .. b |-> IF j \in H THEN given[j] ELSE f[jump[j]]]
        <4>1. [j \in m .. b |-> f[j]] = [j \in m .. b |-> IF j \in H THEN given[j] ELSE f[jump[j]]]
          BY <3>7, Zenon
        <4>2. f = [j \in m .. b |-> f[j]]
          BY DEF f
        <4> QED
          BY <4>1, <4>2, Zenon
      <3> QED
        BY <3>8
    <2> QED
      BY <2>1, <2>2
  <1> HIDE DEF S
  <1>2. \A m \in a .. b : m \in S
    BY <1>1, Descend
  <1>3. a \in S
    BY <1>2
  <1> QED
    BY <1>3 DEF S, Jumps
-----------------------------------------------------------------------------
(* Strings.                                                                  *)

Special == {Quote, Backslash}

\* E are the backslashes that escape the character behind them.
Escapes(f, E, from, to) ==
  /\ \A k \in E : k \in from .. to - 1 /\ f[k] = Backslash /\ f[k + 1] \in Special /\ k + 1 \notin E
  /\ \A k \in from .. to : f[k] # "ctl" /\ (f[k] \in Special => k \in E \/ k - 1 \in E)

StringAt(s, i, e) ==
  /\ e >= i + 2 /\ s[i] = Quote /\ s[e - 1] = Quote
  /\ \E E : Escapes(s, E, i + 1, e - 2)

LEMMA EscapesShift ==
  ASSUME NEW f, NEW g, NEW E, NEW from \in Int, NEW to \in Int, NEW d \in Int,
         \A k \in from .. to : g[k + d] = f[k], Escapes(f, E, from, to)
  PROVE  \E F : Escapes(g, F, from + d, to + d)
  <1> DEFINE F == {k + d : k \in E}
  <1>1. \A k \in E : k \in from .. to /\ k + 1 \in from .. to /\ k \in Int
                     /\ f[k] = Backslash /\ f[k + 1] \in Special /\ k + 1 \notin E
    BY DEF Escapes
  <1>2. ASSUME NEW k \in Int PROVE k + d \in F <=> k \in E
    <2>1. ASSUME NEW m \in E, k + d = m + d PROVE k = m
      BY <2>1, <1>1
    <2> QED
      BY <2>1
  <1>3. ASSUME NEW n \in F
        PROVE  n \in from + d .. (to + d) - 1 /\ g[n] = Backslash /\ g[n + 1] \in Special /\ n + 1 \notin F
    <2>1. PICK k \in E : n = k + d
      OBVIOUS
    <2>2. k \in from .. to - 1 /\ n + 1 = (k + 1) + d /\ k + 1 \in Int /\ n \in from + d .. (to + d) - 1
      BY <2>1, <1>1 DEF Escapes
    <2>3. g[n] = f[k] /\ g[n + 1] = f[k + 1]
      BY <2>1, <2>2, <1>1
    <2> HIDE DEF F
    <2> QED
      BY <2>2, <2>3, <1>1, <1>2, Zenon
  <1>4. ASSUME NEW n \in from + d .. to + d
        PROVE  g[n] # "ctl" /\ (g[n] \in Special => n \in F \/ n - 1 \in F)
    <2>1. /\ n - d \in from .. to /\ (n - d) + d = n /\ n - d \in Int /\ (n - d) - 1 \in Int
          /\ ((n - d) - 1) + d = n - 1
      OBVIOUS
    <2>2. g[n] = f[n - d] /\ (n \in F <=> n - d \in E) /\ (n - 1 \in F <=> (n - d) - 1 \in E)
      <3>1. g[(n - d) + d] = f[n - d]
        BY <2>1, Zenon
      <3>2. (n - d) + d \in F <=> n - d \in E
        BY <2>1, <1>2
      <3>3. ((n - d) - 1) + d \in F <=> (n - d) - 1 \in E
        BY <2>1, <1>2
      <3> QED
        BY <3>1, <3>2, <3>3, <2>1
    <2>3. f[n - d] # "ctl" /\ (f[n - d] \in Special => n - d \in E \/ (n - d) - 1 \in E)
      BY <2>1, Zenon DEF Escapes
    <2> QED
      BY <2>2, <2>3, Zenon
  <1> HIDE DEF F
  <1>5. Escapes(g, F, from + d, to + d)
    BY <1>3, <1>4, Zenon DEF Escapes
  <1> QED
    BY <1>5

\* A part of a text is a string of the grammar.
LEMMA StringText ==
  ASSUME NEW s \in Seq(FieldCharacter), NEW i \in 1 .. Len(s), NEW e \in i + 1 .. Len(s) + 1
  PROVE  IsString(SubSeq(s, i, e - 1)) <=> StringAt(s, i, e)
  <1> DEFINE t == SubSeq(s, i, e - 1)
  <1>1. Len(s) \in Nat
    BY SeqFacts
  <1>2. /\ t \in Seq(FieldCharacter) /\ Len(t) = e - i /\ t[1] = s[i] /\ t[e - i] = s[e - 1]
        /\ \A j \in 1 .. e - i : t[j] = s[i + j - 1]
    BY <1>1, Slice
  <1> HIDE DEF t
  <1>3. IsString(t) <=> /\ e - i >= 2 /\ t[1] = Quote /\ t[e - i] = Quote
                        /\ \E E : Escapes(t, E, 2, (e - i) - 1)
    <2>1. (e - i) - 2 = ((e - i) - 1) - 1
      BY <1>1
    <2>2. ASSUME NEW E, Escapes(t, E, 2, (e - i) - 1)
          PROVE  E \in SUBSET (2 .. (e - i) - 2)
      BY <2>1, <2>2, Zenon DEF Escapes
    <2>3. IsString(t) <=>
            /\ e - i >= 2 /\ t[1] = Quote /\ t[e - i] = Quote
            /\ \E E \in SUBSET (2 .. (e - i) - 2) :
                 /\ \A k \in E : t[k] = Backslash /\ t[k + 1] \in Special /\ k + 1 \notin E
                 /\ \A k \in 2 .. (e - i) - 1 :
                      t[k] # "ctl" /\ (t[k] \in Special => k \in E \/ k - 1 \in E)
      BY <1>2, Zenon DEF IsString, Special
    <2>4. ASSUME NEW E \in SUBSET (2 .. (e - i) - 2)
          PROVE  Escapes(t, E, 2, (e - i) - 1) <=>
                   /\ \A k \in E : t[k] = Backslash /\ t[k + 1] \in Special /\ k + 1 \notin E
                   /\ \A k \in 2 .. (e - i) - 1 :
                        t[k] # "ctl" /\ (t[k] \in Special => k \in E \/ k - 1 \in E)
      BY <2>1, Zenon DEF Escapes
    <2> QED
      BY <2>2, <2>3, <2>4, Zenon
  <1>4. ASSUME NEW E, Escapes(t, E, 2, (e - i) - 1)
        PROVE  \E F : Escapes(s, F, i + 1, e - 2)
    <2>1. \A k \in 2 .. (e - i) - 1 : s[k + (i - 1)] = t[k]
      <3> TAKE k \in 2 .. (e - i) - 1
      <3>1. k \in 1 .. e - i /\ k + (i - 1) = i + k - 1
        BY <1>1
      <3> QED
        BY <3>1, <1>2, Zenon
    <2>2. 2 \in Int /\ (e - i) - 1 \in Int /\ i - 1 \in Int /\ 2 + (i - 1) = i + 1
          /\ ((e - i) - 1) + (i - 1) = e - 2
      BY <1>1
    <2>3. \E F : Escapes(s, F, 2 + (i - 1), ((e - i) - 1) + (i - 1))
      BY <2>1, <2>2, <1>4, EscapesShift
    <2> QED
      BY <2>2, <2>3, Zenon
  <1>5. ASSUME NEW E, Escapes(s, E, i + 1, e - 2)
        PROVE  \E F : Escapes(t, F, 2, (e - i) - 1)
    <2>1. \A k \in i + 1 .. e - 2 : t[k + (1 - i)] = s[k]
      <3> TAKE k \in i + 1 .. e - 2
      <3>1. k + (1 - i) \in 1 .. e - i /\ i + (k + (1 - i)) - 1 = k
        BY <1>1
      <3> QED
        BY <3>1, <1>2
    <2>2. i + 1 \in Int /\ e - 2 \in Int /\ 1 - i \in Int /\ (i + 1) + (1 - i) = 2
          /\ (e - 2) + (1 - i) = (e - i) - 1
      BY <1>1
    <2>3. \E F : Escapes(t, F, (i + 1) + (1 - i), (e - 2) + (1 - i))
      BY <2>1, <2>2, <1>5, EscapesShift
    <2> QED
      BY <2>2, <2>3, Zenon
  <1>6. e - i >= 2 <=> e >= i + 2
    BY <1>1
  <1> QED
    BY <1>2, <1>3, <1>4, <1>5, <1>6, Zenon DEF StringAt, t

LEMMA StringEnds ==
  ASSUME NEW s \in Seq(FieldCharacter), NEW i \in 1 .. Len(s)
  PROVE  \E end : /\ parse_string(s, i) = end[i + 1]
                  /\ \A j \in i + 1 .. Len(s) + 2 :
                       end[j] = IF j > Len(s) THEN Failed
                                ELSE IF s[j] = Backslash
                                     THEN IF At(s, j + 1, {Quote, Backslash}) THEN end[j + 2] ELSE Failed
                                ELSE IF s[j] = Quote THEN j + 1
                                ELSE IF s[j] = "ctl" THEN Failed
                                ELSE end[j + 1]
  <1> DEFINE a == i + 1
             b == Len(s) + 2
             H == {j \in a .. b : \/ j > Len(s)
                                  \/ s[j] = Backslash /\ ~At(s, j + 1, {Quote, Backslash})
                                  \/ s[j] = Quote \/ s[j] = "ctl"}
             given == [j \in a .. b |-> IF j <= Len(s) /\ s[j] = Quote THEN j + 1 ELSE Failed]
             jump == [j \in a .. b |-> IF s[j] = Backslash THEN j + 2 ELSE j + 1]
  <1>1. Len(s) \in Nat /\ a \in Nat /\ b \in Nat /\ a <= b /\ i + 1 \in a .. b
    BY SeqFacts
  <1>2. \A j \in a .. b : j \notin H => jump[j] \in j + 1 .. b
    <2> TAKE j \in a .. b
    <2>1. j \notin H => j <= Len(s)
      BY <1>1
    <2>2. j <= Len(s) => j + 2 \in j + 1 .. b /\ j + 1 \in j + 1 .. b
      BY <1>1
    <2>3. jump[j] = IF s[j] = Backslash THEN j + 2 ELSE j + 1
      OBVIOUS
    <2> QED
      BY <2>1, <2>2, <2>3, Zenon
  <1>3. PICK f : f = [j \in a .. b |-> IF j \in H THEN given[j] ELSE f[jump[j]]]
    <2> HIDE DEF a, b, H, given, jump
    <2>1. \E f : Jumps(f, a, b, H, given, jump)
      BY <1>1, <1>2, JumpsExist
    <2> QED
      BY <2>1, Zenon DEF Jumps
  <1>4. \A j \in a .. b : f[j] = IF j \in H THEN given[j] ELSE f[jump[j]]
    BY <1>3, Zenon
  <1>5. ASSUME NEW j \in a .. b
        PROVE  f[j] = IF j > Len(s) THEN Failed
                      ELSE IF s[j] = Backslash
                           THEN IF At(s, j + 1, {Quote, Backslash}) THEN f[j + 2] ELSE Failed
                      ELSE IF s[j] = Quote THEN j + 1
                      ELSE IF s[j] = "ctl" THEN Failed
                      ELSE f[j + 1]
    <2>1. f[j] = IF j \in H THEN given[j] ELSE f[jump[j]]
      BY <1>4
    <2>2. given[j] = IF j <= Len(s) /\ s[j] = Quote THEN j + 1 ELSE Failed
      OBVIOUS
    <2>3. jump[j] = IF s[j] = Backslash THEN j + 2 ELSE j + 1
      OBVIOUS
    <2>4. j \in H <=> \/ j > Len(s)
                      \/ s[j] = Backslash /\ ~At(s, j + 1, {Quote, Backslash})
                      \/ s[j] = Quote \/ s[j] = "ctl"
      OBVIOUS
    <2>5. j > Len(s) <=> ~(j <= Len(s))
      BY <1>1
    <2> HIDE DEF H, given, jump, a, b
    <2>6. Backslash # Quote /\ Backslash # "ctl" /\ Quote # "ctl"
      BY Zenon DEF Backslash, Quote
    <2>7. CASE j > Len(s)
      BY <2>1, <2>2, <2>4, <2>5, <2>7, Zenon
    <2>8. CASE ~(j > Len(s)) /\ s[j] = Backslash /\ At(s, j + 1, {Quote, Backslash})
      BY <2>1, <2>3, <2>4, <2>6, <2>8, Zenon
    <2>9. CASE ~(j > Len(s)) /\ s[j] = Backslash /\ ~At(s, j + 1, {Quote, Backslash})
      BY <2>1, <2>2, <2>4, <2>6, <2>9, Zenon
    <2>10. CASE ~(j > Len(s)) /\ s[j] # Backslash /\ s[j] = Quote
      BY <2>1, <2>2, <2>4, <2>5, <2>6, <2>10, Zenon
    <2>11. CASE ~(j > Len(s)) /\ s[j] # Backslash /\ s[j] # Quote /\ s[j] = "ctl"
      BY <2>1, <2>2, <2>4, <2>6, <2>11, Zenon
    <2>12. CASE ~(j > Len(s)) /\ s[j] # Backslash /\ s[j] # Quote /\ s[j] # "ctl"
      BY <2>1, <2>3, <2>4, <2>6, <2>12, Zenon
    <2> QED
      BY <2>7, <2>8, <2>9, <2>10, <2>11, <2>12, Zenon
  <1>6. f = [j \in a .. b |-> f[j]]
    BY <1>3, Zenon
  <1> HIDE DEF H, given, jump
  <1> DEFINE E(g) == g = [j \in a .. b |->
                      IF j > Len(s) THEN Failed
                      ELSE IF s[j] = Backslash
                           THEN IF At(s, j + 1, {Quote, Backslash}) THEN g[j + 2] ELSE Failed
                      ELSE IF s[j] = Quote THEN j + 1
                      ELSE IF s[j] = "ctl" THEN Failed
                      ELSE g[j + 1]]
             end == CHOOSE g : E(g)
  <1>7. E(f)
    BY <1>5, <1>6, Zenon
  <1>8. E(end)
    <2> HIDE DEF E
    <2> QED
      BY <1>7, Zenon
  <1>9. parse_string(s, i) = end[i + 1]
    BY Zenon DEF parse_string
  <1> HIDE DEF end
  <1>10. \A j \in a .. b :
           end[j] = IF j > Len(s) THEN Failed
                    ELSE IF s[j] = Backslash
                         THEN IF At(s, j + 1, {Quote, Backslash}) THEN end[j + 2] ELSE Failed
                    ELSE IF s[j] = Quote THEN j + 1
                    ELSE IF s[j] = "ctl" THEN Failed
                    ELSE end[j + 1]
    BY <1>8, Zenon
  <1> QED
    BY <1>9, <1>10, Zenon

\* parse_string ends behind a string, so that its skips are the grammar's escapes.
LEMMA StringParsed ==
  ASSUME NEW s \in Seq(FieldCharacter), NEW i \in 1 .. Len(s), At(s, i, {Quote}),
         parse_string(s, i) # Failed
  PROVE  parse_string(s, i) \in i + 1 .. Len(s) + 1 /\ StringAt(s, i, parse_string(s, i))
  <1> DEFINE Ends(end, j) ==
        end[j] = IF j > Len(s) THEN Failed
                 ELSE IF s[j] = Backslash
                      THEN IF At(s, j + 1, {Quote, Backslash}) THEN end[j + 2] ELSE Failed
                 ELSE IF s[j] = Quote THEN j + 1
                 ELSE IF s[j] = "ctl" THEN Failed
                 ELSE end[j + 1]
  <1>1. PICK end : parse_string(s, i) = end[i + 1] /\ \A j \in i + 1 .. Len(s) + 2 : Ends(end, j)
    BY StringEnds
  <1>2. Len(s) \in Nat
    BY SeqFacts
  <1> DEFINE Good(j) == end[j] # Failed =>
                          /\ end[j] \in j + 1 .. Len(s) + 1 /\ s[end[j] - 1] = Quote
                          /\ \E E : Escapes(s, E, j, end[j] - 2)
             S == {j \in i + 1 .. Len(s) + 2 : Good(j)}
  <1>3. ASSUME NEW j \in i + 1 .. Len(s) + 2, \A k \in j + 1 .. Len(s) + 2 : k \in S
        PROVE  j \in S
    <2> SUFFICES ASSUME end[j] # Failed
                 PROVE  /\ end[j] \in j + 1 .. Len(s) + 1 /\ s[end[j] - 1] = Quote
                        /\ \E E : Escapes(s, E, j, end[j] - 2)
      OBVIOUS
    <2>1. Ends(end, j)
      BY <1>1
    <2>2. ~(j > Len(s))
      BY <2>1
    <2>3. CASE s[j] = Backslash
      <3>1. At(s, j + 1, {Quote, Backslash}) /\ end[j] = end[j + 2]
        BY <2>1, <2>2, <2>3, Zenon
      <3>2. j + 1 <= Len(s) /\ s[j + 1] \in Special
        BY <3>1, Zenon DEF At, Special
      <3>3. j + 2 \in j + 1 .. Len(s) + 2
        BY <3>2, <1>2
      <3>4. Good(j + 2)
        BY <3>3, <1>3
      <3>5. /\ end[j + 2] \in (j + 2) + 1 .. Len(s) + 1 /\ s[end[j + 2] - 1] = Quote
            /\ \E E : Escapes(s, E, j + 2, end[j + 2] - 2)
        BY <3>1, <3>4, Zenon
      <3>6. PICK e : e = end[j]
        OBVIOUS
      <3>7. PICK E : Escapes(s, E, j + 2, e - 2)
        BY <3>1, <3>5, <3>6, Zenon
      <3>8. e \in (j + 2) + 1 .. Len(s) + 1
        BY <3>1, <3>5, <3>6, Zenon
      <3>9. Escapes(s, E \cup {j}, j, e - 2)
        <4>1. \A k \in E : k \in j + 2 .. (e - 2) - 1 /\ s[k] = Backslash /\ s[k + 1] \in Special /\ k + 1 \notin E
          BY <3>7, Zenon DEF Escapes
        <4>0. \A k \in E : k \in j + 2 .. (e - 2) - 1
          BY <4>1
        <4>2. \A k \in E : k \in j .. (e - 2) - 1 /\ k + 1 # j
          BY <4>0, <3>8, <1>2
        <4>3. j + 1 \notin E /\ j + 1 # j /\ j \in j .. (e - 2) - 1
          BY <4>0, <3>8, <1>2
        <4>4. \A k \in j .. e - 2 : k = j \/ (k = j + 1 /\ k - 1 = j) \/ k \in j + 2 .. e - 2
          BY <3>8, <1>2
        <4>5. \A k \in j + 2 .. e - 2 : s[k] # "ctl" /\ (s[k] \in Special => k \in E \/ k - 1 \in E)
          BY <3>7, Zenon DEF Escapes
        <4>6. s[j] # "ctl" /\ s[j + 1] # "ctl"
          BY <2>3, <3>2, Zenon DEF Special, Quote, Backslash
        <4>7. ASSUME NEW k \in E \cup {j}
              PROVE  k \in j .. (e - 2) - 1 /\ s[k] = Backslash /\ s[k + 1] \in Special /\ k + 1 \notin E \cup {j}
          <5>1. CASE k = j
            BY <5>1, <2>3, <3>2, <4>3, Zenon
          <5>2. CASE k \in E
            BY <5>2, <4>1, <4>2, Zenon
          <5> QED
            BY <5>1, <5>2, Zenon
        <4>8. ASSUME NEW k \in j .. e - 2
              PROVE  s[k] # "ctl" /\ (s[k] \in Special => k \in E \cup {j} \/ k - 1 \in E \cup {j})
          BY <4>4, <4>5, <4>6, Zenon
        <4> QED
          BY <4>7, <4>8, Zenon DEF Escapes
      <3>10. e \in j + 1 .. Len(s) + 1
        BY <3>8, <1>2
      <3> QED
        BY <3>1, <3>5, <3>6, <3>9, <3>10, Zenon
    <2>4. CASE s[j] = Quote
      <3>1. end[j] = j + 1
        BY <2>1, <2>2, <2>4, Zenon DEF Quote, Backslash
      <3>2. j + 1 \in j + 1 .. Len(s) + 1 /\ (j + 1) - 1 = j /\ (\A k \in j .. (j + 1) - 2 : FALSE)
        BY <1>2, <2>2
      <3>3. Escapes(s, {}, j, (j + 1) - 2)
        BY <3>2, Zenon DEF Escapes
      <3> QED
        BY <3>1, <3>2, <3>3, <2>4, Zenon
    <2>5. CASE s[j] \notin {Backslash, Quote}
      <3>1. s[j] # "ctl" /\ end[j] = end[j + 1] /\ s[j] \notin Special
        BY <2>1, <2>2, <2>5, Zenon DEF Special
      <3>2. j + 1 \in j + 1 .. Len(s) + 2
        BY <2>2, <1>2
      <3>3. Good(j + 1)
        BY <3>2, <1>3
      <3>4. PICK e : e = end[j]
        OBVIOUS
      <3>5. /\ e \in (j + 1) + 1 .. Len(s) + 1 /\ s[e - 1] = Quote
            /\ \E E : Escapes(s, E, j + 1, e - 2)
        BY <3>1, <3>3, <3>4, Zenon
      <3>6. PICK E : Escapes(s, E, j + 1, e - 2)
        BY <3>5
      <3>7. Escapes(s, E, j, e - 2)
        <4>1. \A k \in j .. e - 2 : k = j \/ k \in j + 1 .. e - 2
          BY <3>5, <1>2
        <4>2. \A k \in j + 1 .. (e - 2) - 1 : k \in j .. (e - 2) - 1
          BY <3>5, <1>2
        <4> QED
          BY <4>1, <4>2, <3>1, <3>6, Zenon DEF Escapes
      <3>8. e \in j + 1 .. Len(s) + 1
        BY <3>5, <1>2
      <3> QED
        BY <3>4, <3>5, <3>7, <3>8, Zenon
    <2> QED
      BY <2>3, <2>4, <2>5, Zenon
  <1>4. i + 1 \in Nat /\ Len(s) + 2 \in Nat /\ i + 1 \in i + 1 .. Len(s) + 2
    BY <1>2
  <1>5. i + 1 \in S
    <2> HIDE DEF S
    <2>1. \A j \in i + 1 .. Len(s) + 2 : j \in S
      BY <1>3, <1>4, Descend, ZenonT(60)
    <2> QED
      BY <2>1, <1>4
  <1>6. PICK e : e = end[i + 1]
    OBVIOUS
  <1>7. e \in (i + 1) + 1 .. Len(s) + 1 /\ s[e - 1] = Quote /\ \E E : Escapes(s, E, i + 1, e - 2)
    BY <1>1, <1>5, <1>6, Zenon
  <1>8. e \in i + 1 .. Len(s) + 1 /\ e >= i + 2
    BY <1>7, <1>2
  <1>9. s[i] = Quote
    BY DEF At
  <1> QED
    BY <1>1, <1>6, <1>7, <1>8, <1>9, Zenon DEF StringAt

\* No string begins another: where a string ends is unique.
LEMMA StringRead ==
  ASSUME NEW s \in Seq(FieldCharacter), NEW i \in 1 .. Len(s), NEW e \in i + 1 .. Len(s) + 1,
         StringAt(s, i, e)
  PROVE  At(s, i, {Quote}) /\ parse_string(s, i) = e
  <1> DEFINE Ends(end, j) ==
        end[j] = IF j > Len(s) THEN Failed
                 ELSE IF s[j] = Backslash
                      THEN IF At(s, j + 1, {Quote, Backslash}) THEN end[j + 2] ELSE Failed
                 ELSE IF s[j] = Quote THEN j + 1
                 ELSE IF s[j] = "ctl" THEN Failed
                 ELSE end[j + 1]
  <1>1. PICK end : parse_string(s, i) = end[i + 1] /\ \A j \in i + 1 .. Len(s) + 2 : Ends(end, j)
    BY StringEnds
  <1>2. Len(s) \in Nat /\ e >= i + 2 /\ s[i] = Quote /\ s[e - 1] = Quote
    BY SeqFacts DEF StringAt
  <1>3. PICK E : Escapes(s, E, i + 1, e - 2)
    BY DEF StringAt
  <1>4. \A k \in E : k \in i + 1 .. (e - 2) - 1 /\ s[k] = Backslash /\ s[k + 1] \in Special /\ k + 1 \notin E
    BY <1>3, Zenon DEF Escapes
  <1>5. \A k \in i + 1 .. e - 2 : s[k] # "ctl" /\ (s[k] \in Special => k \in E \/ k - 1 \in E)
    BY <1>3, Zenon DEF Escapes
  <1> DEFINE S == {j \in i + 1 .. e - 1 : j - 1 \notin E => end[j] = e}
  <1>6. ASSUME NEW j \in i + 1 .. e - 1, \A k \in j + 1 .. e - 1 : k \in S
        PROVE  j \in S
    <2> SUFFICES ASSUME j - 1 \notin E PROVE end[j] = e
      OBVIOUS
    <2>1. Ends(end, j) /\ ~(j > Len(s))
      <3>1. j \in i + 1 .. Len(s) + 2 /\ ~(j > Len(s))
        BY <1>2
      <3> QED
        BY <3>1, <1>1, Zenon
    <2>2. CASE j = e - 1
      <3>1. s[j] = Quote /\ j + 1 = e
        BY <2>2, <1>2
      <3>2. Quote # Backslash
        BY Zenon DEF Backslash, Quote
      <3> QED
        BY <3>1, <3>2, <2>1, Zenon
    <2>3. CASE j # e - 1 /\ j \in E
      <3>1. s[j] = Backslash /\ s[j + 1] \in Special /\ j + 1 \notin E /\ j \in i + 1 .. (e - 2) - 1
        BY <2>3, <1>4, Zenon
      <3>2. j + 2 \in j + 1 .. e - 1 /\ (j + 2) - 1 = j + 1 /\ j + 1 <= Len(s)
        BY <3>1, <1>2
      <3>3. end[j + 2] = e
        BY <3>1, <3>2, <1>6, Zenon
      <3>4. At(s, j + 1, {Quote, Backslash})
        BY <3>1, <3>2, Zenon DEF At, Special
      <3> QED
        BY <3>1, <3>3, <3>4, <2>1, Zenon
    <2>4. CASE j # e - 1 /\ j \notin E
      <3>1. j \in i + 1 .. e - 2 /\ j + 1 \in j + 1 .. e - 1 /\ (j + 1) - 1 = j
        BY <2>4, <1>2
      <3>2. s[j] # "ctl" /\ s[j] \notin Special
        BY <3>1, <2>4, <1>5, Zenon
      <3>3. end[j + 1] = e
        BY <3>1, <2>4, <1>6, Zenon
      <3> QED
        BY <3>2, <3>3, <2>1, Zenon DEF Special
    <2> QED
      BY <2>2, <2>3, <2>4, Zenon
  <1>7. i + 1 \in Nat /\ e - 1 \in Nat /\ i + 1 \in i + 1 .. e - 1
    BY <1>2
  <1>8. i + 1 \in S
    <2> HIDE DEF S
    <2> DEFINE a == i + 1
               b == e - 1
    <2>1. \A j \in a .. b : (\A k \in j + 1 .. b : k \in S) => j \in S
      BY <1>6, Zenon
    <2>2. a \in Nat /\ b \in Nat /\ a \in a .. b
      BY <1>7
    <2> HIDE DEF a, b
    <2>3. \A j \in a .. b : j \in S
      BY <2>1, <2>2, Descend
    <2>4. a \in S
      BY <2>2, <2>3
    <2> QED
      BY <2>4 DEF a
  <1>9. (i + 1) - 1 \notin E
    <2>1. \A k \in E : k \in i + 1 .. (e - 2) - 1
      BY <1>4, Zenon
    <2> QED
      BY <2>1, <1>2
  <1>10. parse_string(s, i) = e
    BY <1>1, <1>8, <1>9, Zenon
  <1> QED
    BY <1>10, <1>2 DEF At

BooleanAt(s, i, e) == e = i + 2 /\ s[i] = "?" /\ s[i + 1] \in {"0", "1"}
TokenAt(s, i, e) == s[i] \in TokenStart /\ \A j \in i + 1 .. e - 1 : s[j] \in TokenChars

\* A part of a text is an item of the grammar, of one of the five kinds.
LEMMA ItemText ==
  ASSUME NEW s \in Seq(FieldCharacter), NEW i \in 1 .. Len(s), NEW e \in i + 1 .. Len(s) + 1
  PROVE  IsItem(SubSeq(s, i, e - 1), TRUE) <=>
           NumberAt(s, i, e) \/ StringAt(s, i, e) \/ BinaryAt(s, i, e)
           \/ BooleanAt(s, i, e) \/ TokenAt(s, i, e)
  <1> DEFINE t == SubSeq(s, i, e - 1)
  <1>1. /\ IsNumber(t) <=> NumberAt(s, i, e)
        /\ IsString(t) <=> StringAt(s, i, e)
        /\ IsBinary(t, TRUE) <=> BinaryAt(s, i, e)
    BY NumberText, StringText, BinaryText, Zenon
  <1>2. t \in {<<"?", "0">>, <<"?", "1">>} <=> BooleanAt(s, i, e)
    BY BooleanText, Zenon DEF BooleanAt
  <1>3. t[1] \in TokenStart /\ ToSet(t) \subseteq TokenChars <=> TokenAt(s, i, e)
    BY TokenText DEF TokenAt
  <1> HIDE DEF t
  <1>4. IsItem(t, TRUE) <=> IsNumber(t) \/ IsString(t) \/ IsBinary(t, TRUE) \/ t \in {<<"?", "0">>, <<"?", "1">>}
                      \/ (t[1] \in TokenStart /\ ToSet(t) \subseteq TokenChars)
    BY Zenon DEF IsItem
  <1> QED
    BY <1>1, <1>2, <1>3, <1>4, Zenon DEF t

\* What the first character decides.
LEMMA Beginning ==
  ASSUME NEW s, NEW i
  PROVE  /\ At(s, i, {"-"} \cup Digit) => parse_bare_item(s, i) = parse_number(s, i)
         /\ At(s, i, {Quote}) => parse_bare_item(s, i) = parse_string(s, i)
         /\ At(s, i, {":"}) => parse_bare_item(s, i) = parse_binary(s, i)
         /\ At(s, i, {"?"}) => parse_bare_item(s, i) = parse_boolean_value(s, i)
         /\ At(s, i, TokenStart) => parse_bare_item(s, i) = parse_token(s, i)
         /\ \/ At(s, i, {"-"} \cup Digit) \/ At(s, i, {Quote}) \/ At(s, i, {":"}) \/ At(s, i, {"?"})
            \/ At(s, i, TokenStart) \/ parse_bare_item(s, i) = Failed
  <1> DEFINE a == At(s, i, {"-"} \cup Digit)
             b == At(s, i, {Quote})
             c == At(s, i, {":"})
             d == At(s, i, {"?"})
             k == At(s, i, TokenStart)
  <1>1. /\ ~(a /\ b) /\ ~(a /\ c) /\ ~(a /\ d) /\ ~(a /\ k) /\ ~(b /\ c)
        /\ ~(b /\ d) /\ ~(b /\ k) /\ ~(c /\ d) /\ ~(c /\ k) /\ ~(d /\ k)
    <2>1. /\ \A x \in {"-"} \cup Digit : x \notin {":"} \cup {"?"} \cup TokenStart
          /\ \A x \in {":"} : x \notin {"?"} \cup TokenStart
          /\ \A x \in {"?"} : x \notin TokenStart
      BY DEF Digit, TokenStart, Alpha
    <2>2. Quote \notin {"-"} \cup Digit /\ Quote \notin {":"} /\ Quote \notin {"?"} /\ Quote \notin TokenStart
      BY Zenon DEF Digit, TokenStart, Alpha, Quote
    <2> QED
      BY <2>1, <2>2, Zenon DEF At
  <1>2. parse_bare_item(s, i) = CASE a -> parse_number(s, i) [] b -> parse_string(s, i)
                                  [] c -> parse_binary(s, i) [] d -> parse_boolean_value(s, i)
                                  [] k -> parse_token(s, i) [] OTHER -> Failed
    BY DEF parse_bare_item
  <1> HIDE DEF a, b, c, d, k
  <1>3. /\ a => parse_bare_item(s, i) = parse_number(s, i)
        /\ b => parse_bare_item(s, i) = parse_string(s, i)
        /\ c => parse_bare_item(s, i) = parse_binary(s, i)
        /\ d => parse_bare_item(s, i) = parse_boolean_value(s, i)
        /\ k => parse_bare_item(s, i) = parse_token(s, i)
        /\ a \/ b \/ c \/ d \/ k \/ parse_bare_item(s, i) = Failed
    BY <1>1, <1>2
  <1> QED
    BY <1>3 DEF a, b, c, d, k

\* parse_bare_item ends behind an item of the grammar.
LEMMA ItemParsed ==
  ASSUME NEW s \in Seq(FieldCharacter), NEW i \in Nat \ {0}, parse_bare_item(s, i) # Failed
  PROVE  /\ i \in 1 .. Len(s) /\ parse_bare_item(s, i) \in i + 1 .. Len(s) + 1
         /\ IsItem(SubSeq(s, i, parse_bare_item(s, i) - 1), TRUE)
  <1> DEFINE e == parse_bare_item(s, i)
  <1>1. Len(s) \in Nat
    BY SeqFacts
  <1>2. \A C : At(s, i, C) => i \in 1 .. Len(s) /\ s[i] \in C
    BY <1>1 DEF At
  <1>3. ASSUME i \in 1 .. Len(s), e \in i + 1 .. Len(s) + 1,
               NumberAt(s, i, e) \/ StringAt(s, i, e) \/ BinaryAt(s, i, e)
               \/ BooleanAt(s, i, e) \/ TokenAt(s, i, e)
        PROVE  IsItem(SubSeq(s, i, e - 1), TRUE)
    BY <1>3, ItemText, Zenon
  <1>4. CASE At(s, i, {"-"} \cup Digit)
    <2>1. e = parse_number(s, i) /\ i \in 1 .. Len(s)
      BY <1>4, <1>2, Beginning, Zenon
    <2>2. e \in i + 1 .. Len(s) + 1 /\ NumberAt(s, i, e)
      BY <2>1, <1>4, NumberParsed, Zenon
    <2> QED
      BY <2>1, <2>2, <1>3, Zenon
  <1>5. CASE At(s, i, {Quote})
    <2>1. e = parse_string(s, i) /\ i \in 1 .. Len(s)
      BY <1>5, <1>2, Beginning, Zenon
    <2>2. e \in i + 1 .. Len(s) + 1 /\ StringAt(s, i, e)
      BY <2>1, <1>5, StringParsed, Zenon
    <2> QED
      BY <2>1, <2>2, <1>3, Zenon
  <1>6. CASE At(s, i, {":"})
    <2>1. e = parse_binary(s, i) /\ i \in 1 .. Len(s)
      BY <1>6, <1>2, Beginning, Zenon
    <2>2. e \in i + 1 .. Len(s) + 1 /\ BinaryAt(s, i, e)
      BY <2>1, <1>6, BinaryParsed, Zenon
    <2> QED
      BY <2>1, <2>2, <1>3, Zenon
  <1>7. CASE At(s, i, {"?"})
    <2>0. s[i] = "?"
      BY <1>7 DEF At
    <2>1. e = parse_boolean_value(s, i) /\ i \in 1 .. Len(s)
      BY <1>7, <1>2, Beginning, Zenon
    <2>2. At(s, i + 1, {"0", "1"}) /\ e = i + 2
      BY <2>1, Zenon DEF parse_boolean_value
    <2>3. i + 1 <= Len(s) /\ s[i + 1] \in {"0", "1"}
      BY <2>2, Zenon DEF At
    <2>4. e \in i + 1 .. Len(s) + 1
      BY <2>2, <2>3, <1>1
    <2>5. BooleanAt(s, i, e)
      BY <2>0, <2>1, <2>2, <2>3, Zenon DEF BooleanAt
    <2> QED
      BY <2>1, <2>4, <2>5, <1>3, Zenon
  <1>8. CASE At(s, i, TokenStart)
    <2>1. e = parse_token(s, i) /\ i \in 1 .. Len(s) /\ s[i] \in TokenStart
      BY <1>8, <1>2, Beginning, Zenon
    <2>2. e \in i + 1 .. Len(s) + 1 /\ TokenAt(s, i, e)
      BY <2>1, TokenParsed, Zenon DEF TokenAt
    <2> QED
      BY <2>1, <2>2, <1>3, Zenon
  <1> QED
    BY <1>4, <1>5, <1>6, <1>7, <1>8, Beginning, Zenon

\* It ends behind the whole item, if parameters follow.
LEMMA ItemRead ==
  ASSUME NEW s \in Seq(FieldCharacter), NEW i \in 1 .. Len(s), NEW e \in i + 1 .. Len(s) + 1,
         IsItem(SubSeq(s, i, e - 1), TRUE), Stops(s, e)
  PROVE  parse_bare_item(s, i) = e /\ e # Failed
  <1>1. Len(s) \in Nat /\ i <= Len(s) /\ e # Failed
    BY SeqFacts DEF Failed
  <1>2. CASE NumberAt(s, i, e)
    BY <1>2, <1>1, NumberRead, Beginning, Zenon
  <1>3. CASE StringAt(s, i, e)
    BY <1>3, <1>1, StringRead, Beginning, Zenon
  <1>4. CASE BinaryAt(s, i, e)
    BY <1>4, <1>1, BinaryRead, Beginning, Zenon
  <1>5. CASE BooleanAt(s, i, e)
    <2>1. e = i + 2 /\ s[i] = "?" /\ s[i + 1] \in {"0", "1"}
      BY <1>5, Zenon DEF BooleanAt
    <2>2. i + 1 <= Len(s)
      BY <2>1, <1>1
    <2>3. At(s, i, {"?"}) /\ At(s, i + 1, {"0", "1"})
      BY <1>1, <2>1, <2>2, Zenon DEF At
    <2> QED
      BY <2>1, <2>3, <1>1, Beginning, Zenon DEF parse_boolean_value
  <1>6. CASE TokenAt(s, i, e)
    <2>1. At(s, i, TokenStart)
      BY <1>6, <1>1, Zenon DEF At, TokenAt
    <2>2. parse_token(s, i) = e
      BY <1>6, TokenRead, Zenon DEF TokenAt
    <2> QED
      BY <2>1, <2>2, <1>1, Beginning, Zenon
  <1> QED
    BY <1>2, <1>3, <1>4, <1>5, <1>6, ItemText, Zenon

\* No item ends with a space.
LEMMA ItemEnd ==
  ASSUME NEW s \in Seq(FieldCharacter), NEW i \in 1 .. Len(s), NEW e \in i + 1 .. Len(s) + 1,
         IsItem(SubSeq(s, i, e - 1), TRUE)
  PROVE  s[e - 1] # " "
  <1>1. Len(s) \in Nat
    BY SeqFacts
  <1>2. " " \notin Digit /\ " " \notin TokenStart /\ " " \notin TokenChars /\ " " # ":"
    BY DEF Digit, TokenStart, TokenChars, Alpha
  <1>3. " " # Quote
    BY Zenon DEF Quote
  <1>4. \A f, m : f \in Nat /\ m \in Nat /\ AllDigits(s, f, e, m) => s[e - 1] \in Digit
    <2> TAKE f, m
    <2> HAVE f \in Nat /\ m \in Nat /\ AllDigits(s, f, e, m)
    <2>1. e - f \in 1 .. m /\ \A j \in f .. e - 1 : s[j] \in Digit
      BY Zenon DEF AllDigits
    <2>2. e - 1 \in f .. e - 1
      BY <2>1, <1>1
    <2> QED
      BY <2>1, <2>2, Zenon
  <1>5. CASE NumberAt(s, i, e)
    <2>1. First(s, i) \in Nat /\ MaxInteger \in Nat /\ MaxFraction \in Nat
      BY <1>1, DigitsAssumption DEF First
    <2>2. \A p \in First(s, i) .. e - 1 : p + 1 \in Nat
      BY <2>1, <1>1
    <2> QED
      BY <1>2, <1>4, <1>5, <2>1, <2>2, Zenon DEF NumberAt
  <1>6. CASE StringAt(s, i, e)
    BY <1>6, <1>3, Zenon DEF StringAt
  <1>7. CASE BinaryAt(s, i, e)
    BY <1>7, <1>2, Zenon DEF BinaryAt
  <1>8. CASE BooleanAt(s, i, e)
    <2>1. e - 1 = i + 1 /\ s[i + 1] \in {"0", "1"}
      BY <1>8, <1>1 DEF BooleanAt
    <2> QED
      BY <2>1
  <1>9. CASE TokenAt(s, i, e)
    <2>1. e - 1 = i \/ e - 1 \in i + 1 .. e - 1
      BY <1>1
    <2> QED
      BY <2>1, <1>2, <1>9, Zenon DEF TokenAt
  <1> QED
    BY <1>5, <1>6, <1>7, <1>8, <1>9, ItemText, Zenon

(* Parameters.                                                               *)

Spaces(t, from, to) == ToSet(SubSeq(t, from, to - 1)) \subseteq {" "}

\* One parameter of the grammar, from its semicolon up to k; z says whether unused
\* bits have to be zero.
OneParameter(t, i, k, z) ==
  \E from \in i + 1 .. Len(t), to \in i + 1 .. Len(t) :
    /\ t[i] = ";" /\ Spaces(t, i + 1, from)
    /\ IsKey(SubSeq(t, from, to))
    /\ \/ k = to + 1
       \/ t[to + 1] = "=" /\ k - 1 \in to + 2 .. Len(t) /\ IsItem(SubSeq(t, to + 2, k - 1), z)

Key(s, i) == parse_key(s, RunEnd(s, i + 1, {" "}))
ItemAfter(s, i) == parse_bare_item(s, Key(s, i) + 1)
\* One turn of the loop of parse_parameters, which ends at After.
ReadsOne(s, i) ==
  /\ s[i] = ";" /\ Key(s, i) # Failed
  /\ At(s, Key(s, i), {"="}) => ItemAfter(s, i) # Failed
After(s, i) == IF At(s, Key(s, i), {"="}) THEN ItemAfter(s, i) ELSE Key(s, i)

LEMMA KeyText ==
  ASSUME NEW s \in Seq(FieldCharacter), NEW from \in 1 .. Len(s), NEW to \in Nat, to <= Len(s)
  PROVE  IsKey(SubSeq(s, from, to)) <=>
           to >= from /\ s[from] \in KeyStart /\ \A j \in from + 1 .. to : s[j] \in KeyChars
  <1>1. Len(s) \in Nat
    BY SeqFacts
  <1>2. CASE to < from
    <2>1. SubSeq(s, from, to) = <<>>
      BY <1>2, SubSeqEmpty
    <2> QED
      BY <2>1, <1>2 DEF IsKey
  <1>3. CASE to >= from
    <2> DEFINE t == SubSeq(s, from, (to + 1) - 1)
    <2>1. from \in Nat \ {0} /\ to + 1 \in from .. Len(s) + 1 /\ from < to + 1 /\ (to + 1) - 1 = to
      BY <1>1, <1>3
    <2>2. t \in Seq(FieldCharacter) /\ Len(t) = (to + 1) - from /\ t[1] = s[from]
      BY <2>1, Slice
    <2>3. ToSet(t) \subseteq KeyChars <=> \A j \in from .. (to + 1) - 1 : s[j] \in KeyChars
      BY <2>1, SliceSet, Zenon
    <2> HIDE DEF t
    <2>4. t # <<>>
      BY <2>1, <2>2, SeqFacts
    <2>5. KeyStart \subseteq KeyChars
      BY DEF KeyStart, KeyChars
    <2>6. from \in from .. to /\ (\A j \in from .. to : j = from \/ j \in from + 1 .. to)
          /\ (\A j \in from + 1 .. to : j \in from .. to)
      BY <1>1, <1>3
    <2>7. IsKey(t) <=> s[from] \in KeyStart /\ \A j \in from .. to : s[j] \in KeyChars
      BY <2>1, <2>2, <2>3, <2>4, Zenon DEF IsKey
    <2>8. IsKey(t) <=> s[from] \in KeyStart /\ \A j \in from + 1 .. to : s[j] \in KeyChars
      BY <2>5, <2>6, <2>7, Zenon
    <2> QED
      BY <2>1, <2>8, <1>3, Zenon DEF t
  <1> QED
    BY <1>1, <1>2, <1>3

\* A run of the characters does not go on here.
Ends(s, e, C) == e <= Len(s) => s[e] \notin C

LEMMA KeyParsed ==
  ASSUME NEW s \in Seq(FieldCharacter), NEW i \in 1 .. Len(s), Key(s, i) # Failed
  PROVE  \E from \in i + 1 .. Len(s), to \in i + 1 .. Len(s) :
           /\ Spaces(s, i + 1, from)
           /\ IsKey(SubSeq(s, from, to)) /\ Key(s, i) = to + 1
  <1> DEFINE from == RunEnd(s, i + 1, {" "})
  <1>1. Len(s) \in Nat /\ i + 1 \in 1 .. Len(s) + 1 /\ i + 1 \in Nat \ {0}
    BY SeqFacts
  <1>2. from \in i + 1 .. Len(s) + 1 /\ \A j \in i + 1 .. from - 1 : s[j] \in {" "}
    BY <1>1, RunEndFacts
  <1>21. from \in i + 1 .. Len(s) + 1
    BY <1>2
  <1> HIDE DEF from
  <1>3. At(s, from, KeyStart) /\ Key(s, i) = RunEnd(s, from + 1, KeyChars)
    BY Zenon DEF Key, parse_key, from
  <1>4. from <= Len(s) /\ s[from] \in KeyStart
    BY <1>3, Zenon DEF At
  <1>41. from <= Len(s)
    BY <1>4
  <1>5. from + 1 \in 1 .. Len(s) + 1 /\ from \in 1 .. Len(s) /\ from \in i + 1 .. Len(s)
        /\ from \in i + 1 .. Len(s) + 1
    BY <1>1, <1>21, <1>41
  <1>6. PICK key : key = RunEnd(s, from + 1, KeyChars)
    OBVIOUS
  <1>7. key \in from + 1 .. Len(s) + 1 /\ \A j \in from + 1 .. key - 1 : s[j] \in KeyChars
    BY <1>5, <1>6, RunEndFacts
  <1>71. key \in from + 1 .. Len(s) + 1
    BY <1>7
  <1>8. key - 1 \in i + 1 .. Len(s) /\ key - 1 \in Nat /\ key - 1 <= Len(s) /\ key - 1 >= from
        /\ (key - 1) + 1 = key
    BY <1>1, <1>5, <1>71
  <1>9. IsKey(SubSeq(s, from, key - 1))
    BY <1>4, <1>5, <1>7, <1>8, KeyText, Zenon
  <1>10. Spaces(s, i + 1, from)
    BY <1>1, <1>2, <1>5, SliceSet, Zenon DEF Spaces
  <1> QED
    BY <1>3, <1>5, <1>6, <1>8, <1>9, <1>10, Zenon

LEMMA KeyRead ==
  ASSUME NEW s \in Seq(FieldCharacter), NEW i \in 1 .. Len(s),
         NEW from \in i + 1 .. Len(s), NEW to \in i + 1 .. Len(s),
         Spaces(s, i + 1, from), IsKey(SubSeq(s, from, to)),
         Ends(s, to + 1, KeyChars)
  PROVE  Key(s, i) = to + 1 /\ Key(s, i) # Failed
  <1>1. /\ Len(s) \in Nat /\ i + 1 \in 1 .. Len(s) + 1 /\ i + 1 \in Nat \ {0}
        /\ from \in i + 1 .. Len(s) + 1 /\ from \in 1 .. Len(s) /\ to \in Nat /\ to <= Len(s)
    BY SeqFacts
  <1>2. \A j \in i + 1 .. from - 1 : s[j] \in {" "}
    BY <1>1, SliceSet, Zenon DEF Spaces
  <1>3. to >= from /\ s[from] \in KeyStart /\ \A j \in from + 1 .. to : s[j] \in KeyChars
    BY <1>1, KeyText, Zenon
  <1>4. s[from] \notin {" "}
    BY <1>3 DEF KeyStart
  <1>5. RunEnd(s, i + 1, {" "}) = from
    BY <1>1, <1>2, <1>4, RunEndIs, Zenon
  <1>31. to >= from
    BY <1>3
  <1>6. /\ from + 1 \in 1 .. Len(s) + 1 /\ to + 1 \in from + 1 .. Len(s) + 1 /\ (to + 1) - 1 = to
        /\ to + 1 # 0 /\ from <= Len(s)
    BY <1>1, <1>31
  <1>7. to + 1 <= Len(s) => s[to + 1] \notin KeyChars
    BY Zenon DEF Ends
  <1>8. RunEnd(s, from + 1, KeyChars) = to + 1
    BY <1>1, <1>3, <1>6, <1>7, RunEndIs, Zenon
  <1>9. At(s, from, KeyStart)
    BY <1>3, <1>6, Zenon DEF At
  <1> QED
    BY <1>5, <1>6, <1>8, <1>9, Zenon DEF Key, parse_key, Failed

\* A turn of the loop reads a parameter of the grammar.
LEMMA StepParsed ==
  ASSUME NEW s \in Seq(FieldCharacter), NEW i \in 1 .. Len(s), ReadsOne(s, i)
  PROVE  After(s, i) \in i + 1 .. Len(s) + 1 /\ OneParameter(s, i, After(s, i), TRUE)
  <1>1. Len(s) \in Nat
    BY SeqFacts
  <1>0. s[i] = ";" /\ Key(s, i) # Failed /\ (At(s, Key(s, i), {"="}) => ItemAfter(s, i) # Failed)
    BY Zenon DEF ReadsOne
  <1>2. PICK from \in i + 1 .. Len(s), to \in i + 1 .. Len(s) :
           /\ Spaces(s, i + 1, from)
           /\ IsKey(SubSeq(s, from, to)) /\ Key(s, i) = to + 1
    BY <1>0, KeyParsed, Zenon
  <1>3. CASE ~At(s, Key(s, i), {"="})
    <2>1. After(s, i) = to + 1
      BY <1>2, <1>3, Zenon DEF After
    <2>2. to + 1 \in i + 1 .. Len(s) + 1
      BY <1>1
    <2> QED
      BY <2>1, <2>2, <1>2, <1>0, Zenon DEF OneParameter
  <1>4. CASE At(s, Key(s, i), {"="})
    <2>1. After(s, i) = ItemAfter(s, i) /\ ItemAfter(s, i) # Failed
      BY <1>0, <1>4, Zenon DEF After
    <2>2. PICK k : k = ItemAfter(s, i)
      OBVIOUS
    <2>3. k = parse_bare_item(s, (to + 1) + 1) /\ k # Failed
      BY <2>1, <2>2, <1>2, Zenon DEF ItemAfter
    <2>4. (to + 1) + 1 = to + 2 /\ to + 2 \in Nat \ {0}
      BY <1>1
    <2>5. /\ to + 2 \in 1 .. Len(s) /\ k \in (to + 2) + 1 .. Len(s) + 1
          /\ IsItem(SubSeq(s, to + 2, k - 1), TRUE)
      BY <2>3, <2>4, ItemParsed, Zenon
    <2>51. to + 2 \in 1 .. Len(s) /\ k \in (to + 2) + 1 .. Len(s) + 1
      BY <2>5
    <2>6. k \in i + 1 .. Len(s) + 1 /\ k - 1 \in to + 2 .. Len(s)
      BY <2>51, <1>1
    <2>7. s[to + 1] = "="
      BY <1>2, <1>4, Zenon DEF At
    <2> QED
      BY <2>1, <2>2, <2>5, <2>6, <2>7, <1>2, <1>0, Zenon DEF OneParameter
  <1> QED
    BY <1>3, <1>4

\* A parameter of the grammar, followed by another or by nothing, is read in one turn.
LEMMA StepRead ==
  ASSUME NEW s \in Seq(FieldCharacter), NEW i \in 1 .. Len(s), NEW k \in i + 1 .. Len(s) + 1,
         OneParameter(s, i, k, TRUE), Stops(s, k)
  PROVE  ReadsOne(s, i) /\ After(s, i) = k
  <1>1. Len(s) \in Nat
    BY SeqFacts
  <1>2. PICK from \in i + 1 .. Len(s), to \in i + 1 .. Len(s) :
          /\ s[i] = ";" /\ Spaces(s, i + 1, from)
          /\ IsKey(SubSeq(s, from, to))
          /\ \/ k = to + 1
             \/ s[to + 1] = "=" /\ k - 1 \in to + 2 .. Len(s) /\ IsItem(SubSeq(s, to + 2, k - 1), TRUE)
    BY Zenon DEF OneParameter
  <1>3. ";" \notin KeyChars /\ "=" \notin KeyChars /\ ";" # "="
    BY DEF KeyChars, Digit
  <1>4. CASE k = to + 1
    <2>2. k <= Len(s) => s[to + 1] = ";"
      BY <1>4, Zenon DEF Stops
    <2>21. Ends(s, to + 1, KeyChars)
      BY <2>2, <1>3, <1>4, Zenon DEF Ends
    <2>3. Key(s, i) = to + 1 /\ Key(s, i) # Failed
      BY <2>21, <1>2, KeyRead, Zenon
    <2>4. ~At(s, Key(s, i), {"="})
      <3>1. SUFFICES ASSUME to + 1 <= Len(s), s[to + 1] \in {"="} PROVE FALSE
        BY <2>3, Zenon DEF At
      <3> QED
        BY <3>1, <2>2, <1>3, <1>4, Zenon
    <2> QED
      BY <2>3, <2>4, <1>2, <1>4, Zenon DEF After, ReadsOne
  <1>5. CASE s[to + 1] = "=" /\ k - 1 \in to + 2 .. Len(s) /\ IsItem(SubSeq(s, to + 2, k - 1), TRUE)
    <2>0. Ends(s, to + 1, KeyChars)
      BY <1>3, <1>5, Zenon DEF Ends
    <2>1. Key(s, i) = to + 1 /\ Key(s, i) # Failed
      BY <1>2, <2>0, KeyRead, Zenon
    <2>11. k - 1 \in to + 2 .. Len(s)
      BY <1>5
    <2>2. to + 1 <= Len(s) /\ (to + 1) + 1 = to + 2 /\ to + 2 \in 1 .. Len(s)
          /\ k \in (to + 2) + 1 .. Len(s) + 1
      BY <1>1, <2>11
    <2>3. At(s, Key(s, i), {"="})
      BY <2>1, <2>2, <1>5, Zenon DEF At
    <2>4. parse_bare_item(s, to + 2) = k /\ k # Failed
      BY <2>2, <1>5, ItemRead, Zenon
    <2> QED
      BY <2>1, <2>2, <2>3, <2>4, <1>2, Zenon DEF After, ItemAfter, ReadsOne
  <1> QED
    BY <1>2, <1>4, <1>5, Zenon
-----------------------------------------------------------------------------
(* The places from which a text can be read to its end.                      *)

\* P are the places from which steps of R lead to n.
Reaches(P, a, n, R) ==
  \A i \in a .. n : i \in P <=> i = n \/ \E k \in i + 1 .. n : <<i, k>> \in R /\ k \in P

LEMMA ReachExists ==
  ASSUME NEW a \in Nat, NEW n \in Nat, a <= n, NEW R
  PROVE  \E P : Reaches(P, a, n, R)
  <1> DEFINE S == {m \in a .. n : \E P : Reaches(P, m, n, R)}
  <1>1. ASSUME NEW m \in a .. n, \A k \in m + 1 .. n : k \in S
        PROVE  m \in S
    <2>1. CASE m = n
      <3>1. Reaches({n}, m, n, R)
        BY <2>1 DEF Reaches
      <3> QED
        BY <3>1
    <2>2. CASE m # n
      <3>1. m + 1 \in m + 1 .. n
        BY <2>2
      <3>2. PICK Q : Reaches(Q, m + 1, n, R)
        BY <3>1, <1>1
      <3> DEFINE P == {i \in m + 1 .. n : i \in Q}
                      \cup {i \in {m} : \E k \in m + 1 .. n : <<m, k>> \in R /\ k \in Q}
      <3>3. \A i \in m + 1 .. n : i \in P <=> i \in Q
        OBVIOUS
      <3>4. m \in P <=> \E k \in m + 1 .. n : <<m, k>> \in R /\ k \in Q
        OBVIOUS
      <3> HIDE DEF P
      <3>5. ASSUME NEW i \in m .. n
            PROVE  i \in P <=> i = n \/ \E k \in i + 1 .. n : <<i, k>> \in R /\ k \in P
        <4>1. \A k \in i + 1 .. n : k \in m + 1 .. n
          OBVIOUS
        <4>2. i = m \/ i \in m + 1 .. n
          OBVIOUS
        <4>3. \A j \in m + 1 .. n :
                j \in Q <=> j = n \/ \E k \in j + 1 .. n : <<j, k>> \in R /\ k \in Q
          BY <3>2, Zenon DEF Reaches
        <4>4. CASE i = m
          BY <4>4, <4>1, <2>2, <3>3, <3>4, Zenon
        <4>5. CASE i \in m + 1 .. n
          BY <4>5, <4>1, <4>3, <3>3, Zenon
        <4> QED
          BY <4>2, <4>4, <4>5
      <3>6. Reaches(P, m, n, R)
        BY <3>5, Zenon DEF Reaches
      <3> QED
        BY <3>6
    <2> QED
      BY <2>1, <2>2
  <1> HIDE DEF S
  <1>2. \A m \in a .. n : m \in S
    BY <1>1, Descend
  <1>3. a \in S
    BY <1>2
  <1> QED
    BY <1>3 DEF S

OneParameters(t, z) ==
  {x \in (1 .. Len(t) + 1) \X (1 .. Len(t) + 1) : OneParameter(t, x[1], x[2], z)}

LEMMA OneParametersAre ==
  ASSUME NEW t, NEW z, Len(t) \in Nat, NEW i \in 1 .. Len(t) + 1, NEW k \in i + 1 .. Len(t) + 1
  PROVE  <<i, k>> \in OneParameters(t, z) <=> OneParameter(t, i, k, z)
  <1>1. k \in 1 .. Len(t) + 1
    OBVIOUS
  <1> QED
    BY <1>1 DEF OneParameters

FieldStep(t, z, p, i) ==
  \/ i = Len(t) + 1
  \/ \E from \in i + 1 .. Len(t), to \in i + 1 .. Len(t) :
       /\ t[i] = ";" /\ ToSet(SubSeq(t, i + 1, from - 1)) \subseteq {" "}
       /\ IsKey(SubSeq(t, from, to))
       /\ \/ p[to + 1]
          \/ \E end \in to + 2 .. Len(t) :
               /\ t[to + 1] = "=" /\ IsItem(SubSeq(t, to + 2, end), z)
               /\ p[end + 1]

LEMMA FieldStepIs ==
  ASSUME NEW t \in Seq(FieldCharacter), NEW z, NEW i \in 1 .. Len(t) + 1, NEW p
  PROVE  FieldStep(t, z, p, i) <=>
           i = Len(t) + 1 \/ \E k \in i + 1 .. Len(t) + 1 : OneParameter(t, i, k, z) /\ p[k]
  <1>1. Len(t) \in Nat
    BY SeqFacts
  <1>2. ASSUME NEW from \in i + 1 .. Len(t), NEW to \in i + 1 .. Len(t), NEW end \in to + 2 .. Len(t)
        PROVE  end + 1 \in i + 1 .. Len(t) + 1 /\ (end + 1) - 1 = end
    BY <1>1
  <1>3. ASSUME NEW to \in i + 1 .. Len(t)
        PROVE  to + 1 \in i + 1 .. Len(t) + 1
    BY <1>1
  <1>4. ASSUME NEW k \in i + 1 .. Len(t) + 1
        PROVE  (k - 1) + 1 = k
    BY <1>1
  <1>5. ASSUME FieldStep(t, z, p, i)
        PROVE  i = Len(t) + 1 \/ \E k \in i + 1 .. Len(t) + 1 : OneParameter(t, i, k, z) /\ p[k]
    BY <1>2, <1>3, <1>5, Zenon DEF FieldStep, OneParameter, Spaces
  <1>6. ASSUME NEW k \in i + 1 .. Len(t) + 1, OneParameter(t, i, k, z), p[k]
        PROVE  FieldStep(t, z, p, i)
    BY <1>4, <1>6, Zenon DEF FieldStep, OneParameter, Spaces
  <1> QED
    BY <1>5, <1>6, Zenon DEF FieldStep

\* IsField, of either kind, by the places from which parameters lead to the end.
LEMMA FieldIs ==
  ASSUME NEW t \in Seq(FieldCharacter), NEW z
  PROVE  \E P : /\ Reaches(P, 1, Len(t) + 1, OneParameters(t, z))
                /\ IsField(t, z) <=> /\ Len(t) >= 2 /\ SubSeq(t, 1, 2) \in {<<"?", "0">>, <<"?", "1">>}
                                     /\ 3 \in P
  <1> DEFINE n == Len(t) + 1
             E(g) == g = [i \in 1 .. n |-> FieldStep(t, z, g, i)]
             p == CHOOSE g : E(g)
             R == OneParameters(t, z)
  <1>1. Len(t) \in Nat /\ n \in Nat /\ 1 <= n
    BY SeqFacts
  <1>2. IsField(t, z) <=> Len(t) >= 2 /\ SubSeq(t, 1, 2) \in {<<"?", "0">>, <<"?", "1">>} /\ p[3]
    BY Zenon DEF IsField, FieldStep
  <1>3. \A g, i : i \in 1 .. n => (FieldStep(t, z, g, i) <=>
                     i = n \/ \E k \in i + 1 .. n : <<i, k>> \in R /\ g[k])
    BY <1>1, FieldStepIs, OneParametersAre, Zenon
  <1>4. PICK Q : Reaches(Q, 1, n, R)
    <2> HIDE DEF n, R
    <2> QED
      BY <1>1, ReachExists
  <1> DEFINE f == [i \in 1 .. n |-> i \in Q]
  <1>5. E(f)
    <2>1. \A i \in 1 .. n : f[i] <=> i \in Q
      BY Zenon
    <2>2. \A i \in 1 .. n : \A k \in i + 1 .. n : k \in 1 .. n
      BY <1>1
    <2> HIDE DEF f, n, R
    <2>3. \A i \in 1 .. n : (i \in Q) <=> FieldStep(t, z, f, i)
      BY <1>3, <1>4, <2>1, <2>2, Zenon DEF Reaches
    <2>4. ASSUME NEW i \in 1 .. n PROVE (i \in Q) = FieldStep(t, z, f, i)
      <3>1. (i \in Q) <=> FieldStep(t, z, f, i)
        BY <2>3
      <3> DEFINE B == \E from \in i + 1 .. Len(t), to \in i + 1 .. Len(t) :
                       /\ t[i] = ";" /\ ToSet(SubSeq(t, i + 1, from - 1)) \subseteq {" "}
                       /\ IsKey(SubSeq(t, from, to))
                       /\ \/ f[to + 1]
                          \/ \E end \in to + 2 .. Len(t) :
                               /\ t[to + 1] = "=" /\ IsItem(SubSeq(t, to + 2, end), z)
                               /\ f[end + 1]
      <3>2. FieldStep(t, z, f, i) = (i = Len(t) + 1 \/ B)
        BY Zenon DEF FieldStep
      <3>3. (i \in Q) <=> (i = Len(t) + 1 \/ B)
        BY <3>1, Zenon DEF FieldStep
      <3> HIDE DEF B
      <3>4. (i \in Q) = (i = Len(t) + 1 \/ B)
        BY <3>3
      <3> QED
        BY <3>2, <3>4, Zenon
    <2>5. [i \in 1 .. n |-> i \in Q] = [i \in 1 .. n |-> FieldStep(t, z, f, i)]
      BY <2>4, Zenon
    <2> QED
      BY <2>5, Zenon DEF f
  <1>6. E(p)
    <2> HIDE DEF E
    <2> QED
      BY <1>5, Zenon
  <1> HIDE DEF p, n, R
  <1>7. \A i \in 1 .. n : p[i] = FieldStep(t, z, p, i)
    BY <1>6, Zenon
  <1>8. \A i \in 1 .. n : p[i] <=> FieldStep(t, z, p, i)
    BY <1>7, Zenon
  <1> DEFINE P == {i \in 1 .. n : p[i]}
  <1>9. Reaches(P, 1, n, R)
    <2>1. \A i \in 1 .. n : \A k \in i + 1 .. n : k \in 1 .. n
      BY <1>1
    <2>2. \A i \in 1 .. n : i \in P <=> p[i]
      BY Zenon
    <2> HIDE DEF P
    <2> QED
      BY <1>3, <1>8, <2>1, <2>2, Zenon DEF Reaches
  <1>10. Len(t) >= 2 => 3 \in 1 .. n
    BY <1>1 DEF n
  <1>11. Len(t) >= 2 => (3 \in P <=> p[3])
    BY <1>10, Zenon
  <1> HIDE DEF P
  <1>12. IsField(t, z) <=> Len(t) >= 2 /\ SubSeq(t, 1, 2) \in {<<"?", "0">>, <<"?", "1">>} /\ 3 \in P
    BY <1>2, <1>11, Zenon
  <1> QED
    BY <1>9, <1>12, Zenon DEF n, R

ParseStep(s, g, i) ==
  IF i > Len(s) THEN TRUE
  ELSE /\ s[i] = ";"
       /\ Key(s, i) # Failed
       /\ IF At(s, Key(s, i), {"="}) THEN ItemAfter(s, i) # Failed /\ g[ItemAfter(s, i)]
          ELSE g[Key(s, i)]

Readings(s) ==
  {x \in (1 .. Len(s) + 1) \X (1 .. Len(s) + 1) :
     x[1] <= Len(s) /\ ReadsOne(s, x[1]) /\ x[2] = After(s, x[1])}

LEMMA ReadingsAre ==
  ASSUME NEW s, Len(s) \in Nat, NEW i \in 1 .. Len(s) + 1, NEW k \in i + 1 .. Len(s) + 1
  PROVE  <<i, k>> \in Readings(s) <=> ReadsOne(s, i) /\ k = After(s, i)
  <1>1. k \in 1 .. Len(s) + 1 /\ i <= Len(s)
    OBVIOUS
  <1> QED
    BY <1>1 DEF Readings

LEMMA ParseStepIs ==
  ASSUME NEW s \in Seq(FieldCharacter), NEW i \in 1 .. Len(s) + 1, NEW g
  PROVE  ParseStep(s, g, i) <=>
           i = Len(s) + 1 \/ \E k \in i + 1 .. Len(s) + 1 : <<i, k>> \in Readings(s) /\ g[k]
  <1>1. Len(s) \in Nat /\ (i > Len(s) <=> i = Len(s) + 1) /\ (~(i > Len(s)) => i \in 1 .. Len(s))
    BY SeqFacts
  <1>2. ~(i > Len(s)) /\ ReadsOne(s, i) => After(s, i) \in i + 1 .. Len(s) + 1
    BY <1>1, StepParsed, Zenon
  <1>3. \A k \in i + 1 .. Len(s) + 1 : <<i, k>> \in Readings(s) <=> ReadsOne(s, i) /\ k = After(s, i)
    BY <1>1, ReadingsAre, Zenon
  <1>4. ParseStep(s, g, i) <=> i > Len(s) \/ (ReadsOne(s, i) /\ g[After(s, i)])
    BY Zenon DEF ParseStep, ReadsOne, After
  <1>5. \A k \in i + 1 .. Len(s) + 1 : ~(i > Len(s))
    BY <1>1
  <1> QED
    BY <1>1, <1>2, <1>3, <1>4, <1>5, Zenon

\* parse_parameters, by the places from which its turns lead to the end.
LEMMA ParametersParsed ==
  ASSUME NEW s \in Seq(FieldCharacter), NEW from \in 1 .. Len(s) + 1
  PROVE  \E P : /\ Reaches(P, from, Len(s) + 1, Readings(s))
                /\ parse_parameters(s, from) <=> from \in P
  <1> DEFINE n == Len(s) + 1
             E(g) == g = [i \in from .. n |-> ParseStep(s, g, i)]
             p == CHOOSE g : E(g)
             R == Readings(s)
  <1>1. Len(s) \in Nat /\ n \in Nat /\ from \in Nat /\ from <= n
    BY SeqFacts
  <1>2. parse_parameters(s, from) <=> p[from]
    BY Zenon DEF parse_parameters, ParseStep, Key, ItemAfter
  <1>20. \A i \in from .. n : i \in 1 .. n /\ \A k \in i + 1 .. n : k \in from .. n
    BY <1>1
  <1>3. \A g, i : i \in from .. n => (ParseStep(s, g, i) <=>
                     i = n \/ \E k \in i + 1 .. n : <<i, k>> \in R /\ g[k])
    BY <1>20, ParseStepIs, Zenon
  <1>4. PICK Q : Reaches(Q, from, n, R)
    <2> HIDE DEF n, R
    <2> QED
      BY <1>1, ReachExists
  <1> DEFINE f == [i \in from .. n |-> i \in Q]
  <1>5. E(f)
    <2>1. \A i \in from .. n : f[i] <=> i \in Q
      BY Zenon
    <2> HIDE DEF f, n, R
    <2>3. \A i \in from .. n : (i \in Q) <=> ParseStep(s, f, i)
      BY <1>3, <1>4, <1>20, <2>1, Zenon DEF Reaches
    <2>4. ASSUME NEW i \in from .. n PROVE (i \in Q) = ParseStep(s, f, i)
      <3>1. (i \in Q) <=> ParseStep(s, f, i)
        BY <2>3
      <3> DEFINE B == /\ s[i] = ";"
                      /\ Key(s, i) # Failed
                      /\ IF At(s, Key(s, i), {"="}) THEN ItemAfter(s, i) # Failed /\ f[ItemAfter(s, i)]
                         ELSE f[Key(s, i)]
      <3>2. ParseStep(s, f, i) = IF i > Len(s) THEN TRUE ELSE B
        BY Zenon DEF ParseStep
      <3>3. (i \in Q) <=> (i > Len(s) \/ B)
        BY <3>1, Zenon DEF ParseStep
      <3>5. (IF i > Len(s) THEN TRUE ELSE B) = (i > Len(s) \/ B)
        BY Zenon
      <3> HIDE DEF B
      <3>4. (i \in Q) = (i > Len(s) \/ B)
        BY <3>3
      <3> QED
        BY <3>2, <3>4, <3>5, Zenon
    <2>5. [i \in from .. n |-> i \in Q] = [i \in from .. n |-> ParseStep(s, f, i)]
      BY <2>4, Zenon
    <2> QED
      BY <2>5, Zenon DEF f
  <1>6. E(p)
    <2> HIDE DEF E
    <2> QED
      BY <1>5, Zenon
  <1> HIDE DEF p, n, R
  <1>7. \A i \in from .. n : p[i] = ParseStep(s, p, i)
    BY <1>6, Zenon
  <1>8. \A i \in from .. n : p[i] <=> ParseStep(s, p, i)
    BY <1>7, Zenon
  <1> DEFINE P == {i \in from .. n : p[i]}
  <1>9. \A i \in from .. n : i \in P <=> p[i]
    BY Zenon
  <1>11. from \in from .. n
    BY <1>1
  <1> HIDE DEF P
  <1>10. Reaches(P, from, n, R)
    BY <1>3, <1>8, <1>9, <1>20, Zenon DEF Reaches
  <1> QED
    BY <1>2, <1>9, <1>10, <1>11, Zenon DEF n, R

\* Where the grammar's parameters go on to the end, the parser's do, and only there.
LEMMA SamePlaces ==
  ASSUME NEW s \in Seq(FieldCharacter), NEW from \in 1 .. Len(s) + 1, NEW P, NEW Q,
         Reaches(P, 1, Len(s) + 1, OneParameters(s, TRUE)), Reaches(Q, from, Len(s) + 1, Readings(s))
  PROVE  from \in P <=> from \in Q
  <1> DEFINE n == Len(s) + 1
             S == {i \in from .. n : i \in P <=> i \in Q}
  <1>1. Len(s) \in Nat /\ n \in Nat /\ from \in Nat /\ from <= n /\ from \in from .. n
    BY SeqFacts
  <1>2. \A i \in from .. n : /\ i \in 1 .. n /\ (i # n => i \in 1 .. Len(s))
                             /\ \A k \in i + 1 .. n : k \in from .. n /\ k \in 1 .. n /\ i # n
    BY <1>1
  <1>3. \A i \in 1 .. n : i \in P <=> i = n \/ \E k \in i + 1 .. n : OneParameter(s, i, k, TRUE) /\ k \in P
    BY <1>1, OneParametersAre, Zenon DEF Reaches
  <1>4. \A i \in from .. n :
          i \in Q <=> i = n \/ \E k \in i + 1 .. n : ReadsOne(s, i) /\ k = After(s, i) /\ k \in Q
    BY <1>1, <1>2, ReadingsAre, Zenon DEF Reaches
  <1>5. \A k \in 1 .. n : k \in P => Stops(s, k)
    <2> SUFFICES ASSUME NEW k \in 1 .. n, k \in P PROVE Stops(s, k)
      OBVIOUS
    <2>1. k = n => ~(k <= Len(s))
      BY <1>1
    <2> QED
      BY <1>3, <2>1, Zenon DEF Stops, OneParameter
  <1>6. ASSUME NEW i \in from .. n, \A k \in i + 1 .. n : k \in S
        PROVE  i \in S
    <2>1. CASE i = n
      BY <2>1, <1>2, <1>3, <1>4, Zenon
    <2>2. CASE i # n /\ i \in P
      <3>1. PICK k \in i + 1 .. n : OneParameter(s, i, k, TRUE) /\ k \in P
        BY <2>2, <1>2, <1>3, Zenon
      <3>2. ReadsOne(s, i) /\ After(s, i) = k
        BY <3>1, <2>2, <1>2, <1>5, StepRead, Zenon
      <3>3. k \in Q
        BY <3>1, <1>6, Zenon
      <3> QED
        BY <2>2, <3>1, <3>2, <3>3, <1>4, Zenon
    <2>3. CASE i # n /\ i \in Q
      <3>1. PICK k \in i + 1 .. n : ReadsOne(s, i) /\ k = After(s, i) /\ k \in Q
        BY <2>3, <1>4, Zenon
      <3>2. OneParameter(s, i, k, TRUE)
        BY <3>1, <2>3, <1>2, StepParsed, Zenon
      <3>3. k \in P
        BY <3>1, <1>6, Zenon
      <3> QED
        BY <2>3, <3>1, <3>2, <3>3, <1>2, <1>3, Zenon
    <2> QED
      BY <2>1, <2>2, <2>3, Zenon
  <1>7. from \in S
    <2> HIDE DEF S, n
    <2>1. \A i \in from .. n : i \in S
      BY <1>1, <1>6, Descend
    <2> QED
      BY <2>1, <1>1
  <1> QED
    BY <1>7, Zenon

Parsed(s) ==
  IF s = <<>> THEN [result |-> "Empty"]
  ELSE IF ~(At(s, 1, {"?"}) /\ At(s, 2, {"0", "1"})) THEN [result |-> "NotBoolean"]
  ELSE IF Len(s) > 2 /\ s[3] # ";" THEN [result |-> "Malformed"]
  ELSE IF ~parse_parameters(s, 3) THEN [result |-> "InvalidParameter"]
  ELSE [result |-> "Ok", flag |-> (s[2] = "1")]

LEMMA FieldBegins ==
  ASSUME NEW s \in Seq(FieldCharacter)
  PROVE  Len(s) >= 2 /\ SubSeq(s, 1, 2) \in {<<"?", "0">>, <<"?", "1">>} <=>
           Len(s) >= 2 /\ s[1] = "?" /\ s[2] \in {"0", "1"}
  <1>1. Len(s) \in Nat
    BY SeqFacts
  <1>2. CASE Len(s) >= 2
    <2>1. 1 \in 1 .. Len(s) /\ 3 \in 1 + 1 .. Len(s) + 1 /\ 3 - 1 = 2 /\ 1 + 1 = 2 /\ 1 + 2 = 3
      BY <1>1, <1>2
    <2>2. SubSeq(s, 1, 3 - 1) \in {<<"?", "0">>, <<"?", "1">>} <=>
            3 = 1 + 2 /\ s[1] = "?" /\ s[1 + 1] \in {"0", "1"}
      BY <2>1, BooleanText, Zenon
    <2> QED
      BY <2>1, <2>2
  <1> QED
    BY <1>2

LEMMA ParsedIs ==
  ASSUME NEW s \in Seq(FieldCharacter)
  PROVE  /\ IsField(s, TRUE) => Parsed(s) = [result |-> "Ok", flag |-> (s[2] = "1")]
         /\ ~IsField(s, TRUE) => Parsed(s).result # "Ok"
  <1>1. Len(s) \in Nat /\ (s = <<>> <=> Len(s) = 0)
    BY SeqFacts
  <1>2. PICK P : /\ Reaches(P, 1, Len(s) + 1, OneParameters(s, TRUE))
                 /\ IsField(s, TRUE) <=> /\ Len(s) >= 2 /\ SubSeq(s, 1, 2) \in {<<"?", "0">>, <<"?", "1">>}
                                         /\ 3 \in P
    BY FieldIs, Zenon
  <1>3. IsField(s, TRUE) <=> Len(s) >= 2 /\ s[1] = "?" /\ s[2] \in {"0", "1"} /\ 3 \in P
    BY <1>2, FieldBegins, Zenon
  <1>4. CASE ~(Len(s) >= 2)
    <2>1. ~IsField(s, TRUE)
      BY <1>3, <1>4, Zenon
    <2>2. ~(2 <= Len(s))
      BY <1>1, <1>4
    <2>3. ~At(s, 2, {"0", "1"})
      BY <2>2, Zenon DEF At
    <2>4. Parsed(s) = [result |-> "Empty"] \/ Parsed(s) = [result |-> "NotBoolean"]
      BY <2>3, Zenon DEF Parsed
    <2>5. Parsed(s).result # "Ok"
      BY <2>4
    <2> QED
      BY <2>1, <2>5, Zenon
  <1>5. CASE Len(s) >= 2
    <2>1. 3 \in 1 .. Len(s) + 1 /\ s # <<>> /\ 1 <= Len(s) /\ 2 <= Len(s)
          /\ (Len(s) > 2 <=> 3 # Len(s) + 1)
      BY <1>1, <1>5
    <2>2. PICK Q : Reaches(Q, 3, Len(s) + 1, Readings(s)) /\ (parse_parameters(s, 3) <=> 3 \in Q)
      BY <2>1, ParametersParsed, Zenon
    <2>3. parse_parameters(s, 3) <=> 3 \in P
      BY <2>1, <2>2, <1>2, SamePlaces, Zenon
    <2>4. At(s, 1, {"?"}) /\ At(s, 2, {"0", "1"}) <=> s[1] = "?" /\ s[2] \in {"0", "1"}
      BY <2>1, Zenon DEF At
    <2>5. 3 \in P /\ Len(s) > 2 => s[3] = ";"
      <3>1. \A k \in 3 + 1 .. Len(s) + 1 : <<3, k>> \in OneParameters(s, TRUE) => OneParameter(s, 3, k, TRUE)
        BY <1>1, <2>1, OneParametersAre, Zenon
      <3>2. 3 \in P <=> 3 = Len(s) + 1 \/ \E k \in 3 + 1 .. Len(s) + 1 : <<3, k>> \in OneParameters(s, TRUE) /\ k \in P
        BY <1>2, <2>1, Zenon DEF Reaches
      <3> QED
        BY <2>1, <3>1, <3>2, Zenon DEF OneParameter
    <2>6. CASE IsField(s, TRUE)
      BY <2>1, <2>3, <2>4, <2>5, <2>6, <1>3, Zenon DEF Parsed
    <2>7. CASE ~IsField(s, TRUE)
      <3>1. ~(s[1] = "?" /\ s[2] \in {"0", "1"}) \/ 3 \notin P
        BY <2>7, <1>3, <1>5, Zenon
      <3>2. \/ Parsed(s) = [result |-> "NotBoolean"] \/ Parsed(s) = [result |-> "Malformed"]
            \/ Parsed(s) = [result |-> "InvalidParameter"]
        BY <3>1, <2>1, <2>3, <2>4, Zenon DEF Parsed
      <3>3. Parsed(s).result # "Ok"
        BY <3>2
      <3> QED
        BY <3>3, <2>7, Zenon
    <2> QED
      BY <2>6, <2>7, Zenon
  <1> QED
    BY <1>4, <1>5, Zenon

LEMMA TrimFacts ==
  ASSUME NEW A, NEW v \in Seq(A)
  PROVE  trim_sp(v) \in Seq(A)
  <1> DEFINE kept == {i \in DOMAIN v : v[i] # " "}
  <1>1. Len(v) \in Nat /\ DOMAIN v = 1 .. Len(v)
    BY SeqFacts
  <1>2. CASE kept = {}
    <2>1. trim_sp(v) = <<>>
      BY <1>2, Zenon DEF trim_sp
    <2>2. <<>> \in Seq(A)
      OBVIOUS
    <2> QED
      BY <2>1, <2>2, Zenon
  <1>3. CASE kept # {}
    <2>0. kept \subseteq 1 .. Len(v)
      BY <1>1, Zenon
    <2> HIDE DEF kept
    <2>1. kept \subseteq 0 .. Len(v) /\ kept \subseteq Nat /\ kept \subseteq 1 .. Len(v)
      BY <2>0, <1>1
    <2>2. Min(kept) \in kept /\ (\A k \in kept : Min(kept) <= k) /\ Max(kept) \in kept
      BY <2>1, <1>1, <1>3, MinFacts, MaxFacts
    <2>5. Min(kept) \in 1 .. Len(v) /\ Max(kept) \in 1 .. Len(v) /\ Min(kept) <= Max(kept)
      BY <2>0, <2>2, Zenon
    <2>3. Min(kept) \in Nat \ {0} /\ Max(kept) \in Min(kept) - 1 .. Len(v)
      BY <2>5, <1>1
    <2>4. trim_sp(v) = SubSeq(v, Min(kept), Max(kept))
      BY <1>3, Zenon DEF trim_sp, kept
    <2> QED
      BY <2>3, <2>4, PartFacts
  <1> QED
    BY <1>2, <1>3

\* The parser takes the texts of the grammar whose unused bits are zero, and no
\* others.
THEOREM CapsuleProtocolParsed ==
  ASSUME NEW v \in Seq(FieldCharacter)
  PROVE  /\ parse_capsule_protocol(v).result = "Ok" <=> IsField(trim_sp(v), TRUE)
         /\ IsField(trim_sp(v), TRUE) =>
              parse_capsule_protocol(v) = [result |-> "Ok", flag |-> (trim_sp(v)[2] = "1")]
  <1>1. parse_capsule_protocol(v) = Parsed(trim_sp(v)) /\ trim_sp(v) \in Seq(FieldCharacter)
    BY TrimFacts, Zenon DEF parse_capsule_protocol, Parsed
  <1>2. IsField(trim_sp(v), TRUE) => Parsed(trim_sp(v)) = [result |-> "Ok", flag |-> (trim_sp(v)[2] = "1")]
    BY <1>1, ParsedIs
  <1>3. ~IsField(trim_sp(v), TRUE) => Parsed(trim_sp(v)).result # "Ok"
    BY <1>1, ParsedIs
  <1>4. IsField(trim_sp(v), TRUE) => Parsed(trim_sp(v)).result = "Ok"
    BY <1>2
  <1> QED
    BY <1>1, <1>2, <1>3, <1>4, Zenon

\* A field whose unused bits are zero is one when nothing is asked of them.
LEMMA ZeroedIsField ==
  ASSUME NEW s \in Seq(FieldCharacter), IsField(s, TRUE)
  PROVE  IsField(s, FALSE)
  <1> DEFINE n == Len(s) + 1
  <1>1. \A t : IsItem(t, TRUE) => IsItem(t, FALSE)
    BY Zenon DEF IsItem, IsBinary
  <1>2. \A i, k : OneParameter(s, i, k, TRUE) => OneParameter(s, i, k, FALSE)
    BY <1>1, Zenon DEF OneParameter
  <1>3. PICK P : /\ Reaches(P, 1, n, OneParameters(s, TRUE))
                 /\ Len(s) >= 2 /\ SubSeq(s, 1, 2) \in {<<"?", "0">>, <<"?", "1">>} /\ 3 \in P
    BY FieldIs, Zenon
  <1>4. PICK Q : /\ Reaches(Q, 1, n, OneParameters(s, FALSE))
                 /\ IsField(s, FALSE) <=> /\ Len(s) >= 2
                                          /\ SubSeq(s, 1, 2) \in {<<"?", "0">>, <<"?", "1">>}
                                          /\ 3 \in Q
    BY FieldIs, Zenon
  <1>5. Len(s) \in Nat /\ n \in Nat /\ 1 \in Nat /\ 1 <= n /\ 3 \in 1 .. n
    BY <1>3, SeqFacts
  <1>6. \A i \in 1 .. n : \A k \in i + 1 .. n : k \in 1 .. n
    BY <1>5
  <1>7. \A i \in 1 .. n : \A k \in i + 1 .. n :
          <<i, k>> \in OneParameters(s, TRUE) => <<i, k>> \in OneParameters(s, FALSE)
    BY <1>2, <1>5, OneParametersAre, Zenon
  <1> DEFINE S == {i \in 1 .. n : i \in P => i \in Q}
  <1> HIDE DEF n
  <1>8. ASSUME NEW i \in 1 .. n, \A k \in i + 1 .. n : k \in S
        PROVE  i \in S
    BY <1>3, <1>4, <1>6, <1>7, <1>8, Zenon DEF Reaches
  <1>9. 3 \in S
    <2> HIDE DEF S
    <2>1. \A i \in 1 .. n : i \in S
      BY <1>5, <1>8, Descend
    <2> QED
      BY <2>1, <1>5
  <1> QED
    BY <1>3, <1>4, <1>9, Zenon
-----------------------------------------------------------------------------
(* A field with parameters added is a field.                                 *)

\* From the place a on, t repeats s, d places later.
Repeats(s, t, a, d) ==
  /\ a + d >= 1 /\ Len(s) + d <= Len(t)
  /\ \A j \in a .. Len(s) : t[j + d] = s[j]

\* PartFacts, without the sets that its elements lie in.
LEMMA SliceFacts ==
  ASSUME NEW A, NEW s \in Seq(A), NEW i \in Nat \ {0}, NEW e \in i - 1 .. Len(s)
  PROVE  /\ SubSeq(s, i, e) \in Seq(A)
         /\ Len(SubSeq(s, i, e)) = e - i + 1
         /\ \A j \in 1 .. e - i + 1 : SubSeq(s, i, e)[j] = s[i + j - 1]
  BY PartFacts

LEMMA SliceShift ==
  ASSUME NEW A, NEW s \in Seq(A), NEW t \in Seq(A), NEW d \in Int, NEW a \in 1 .. Len(s) + 1,
         Repeats(s, t, a, d), NEW x \in a .. Len(s) + 1, NEW y \in x - 1 .. Len(s)
  PROVE  SubSeq(s, x, y) = SubSeq(t, x + d, y + d)
  <1> DEFINE u == SubSeq(s, x, y)
             v == SubSeq(t, x + d, y + d)
  <1>1. Len(s) \in Nat /\ Len(t) \in Nat /\ a + d >= 1 /\ Len(s) + d <= Len(t)
    BY SeqFacts, Zenon DEF Repeats
  <1>2. x \in Nat \ {0} /\ x + d \in Nat \ {0} /\ y + d \in (x + d) - 1 .. Len(t)
        /\ (y + d) - (x + d) + 1 = y - x + 1
    BY <1>1
  <1>3. u \in Seq(A) /\ Len(u) = y - x + 1 /\ \A j \in 1 .. y - x + 1 : u[j] = s[x + j - 1]
    BY <1>2, SliceFacts, ZenonT(60)
  <1>4. v \in Seq(A) /\ Len(v) = y - x + 1 /\ \A j \in 1 .. y - x + 1 : v[j] = t[(x + d) + j - 1]
    <2>1. /\ v \in Seq(A) /\ Len(v) = (y + d) - (x + d) + 1
          /\ \A j \in 1 .. (y + d) - (x + d) + 1 : v[j] = t[(x + d) + j - 1]
      BY <1>2, SliceFacts, ZenonT(60)
    <2> QED
      BY <2>1, <1>2, Zenon
  <1>5. ASSUME NEW j \in 1 .. y - x + 1 PROVE u[j] = v[j]
    <2>1. x + j - 1 \in a .. Len(s) /\ (x + j - 1) + d = (x + d) + j - 1
      BY <1>1
    <2>2. t[(x + j - 1) + d] = s[x + j - 1]
      BY <2>1, Zenon DEF Repeats
    <2> QED
      BY <2>1, <2>2, <1>3, <1>4, Zenon
  <1> HIDE DEF u, v
  <1>6. u = v
    BY <1>3, <1>4, <1>5, SeqEqual
  <1> QED
    BY <1>6 DEF u, v

LEMMA ParameterShift ==
  ASSUME NEW s \in Seq(FieldCharacter), NEW t \in Seq(FieldCharacter), NEW d \in Int,
         NEW a \in 1 .. Len(s) + 1, Repeats(s, t, a, d),
         NEW i \in a .. Len(s) + 1, NEW k \in i + 1 .. Len(s) + 1, OneParameter(s, i, k, TRUE)
  PROVE  OneParameter(t, i + d, k + d, TRUE)
  <1>1. Len(s) \in Nat /\ Len(t) \in Nat /\ a + d >= 1 /\ Len(s) + d <= Len(t)
    BY SeqFacts, Zenon DEF Repeats
  <1>2. PICK from \in i + 1 .. Len(s), to \in i + 1 .. Len(s) :
          /\ s[i] = ";" /\ Spaces(s, i + 1, from)
          /\ IsKey(SubSeq(s, from, to))
          /\ \/ k = to + 1
             \/ s[to + 1] = "=" /\ k - 1 \in to + 2 .. Len(s) /\ IsItem(SubSeq(s, to + 2, k - 1), TRUE)
    BY Zenon DEF OneParameter
  <1>3. from \in 1 .. Len(s) /\ to \in Nat /\ to <= Len(s)
    BY <1>1
  <1>4. to >= from
    BY <1>2, <1>3, KeyText, Zenon
  <1>5. /\ i \in a .. Len(s)
        /\ from + d \in (i + d) + 1 .. Len(t) /\ to + d \in (i + d) + 1 .. Len(t)
        /\ i + 1 \in a .. Len(s) + 1 /\ from - 1 \in (i + 1) - 1 .. Len(s)
        /\ from \in a .. Len(s) + 1 /\ to \in from - 1 .. Len(s)
        /\ (i + 1) + d = (i + d) + 1 /\ (from - 1) + d = (from + d) - 1
        /\ (to + 1) + d = (to + d) + 1
    BY <1>1, <1>4
  <1>6. t[i + d] = ";"
    BY <1>2, <1>5, Zenon DEF Repeats
  <1>7. SubSeq(t, (i + d) + 1, (from + d) - 1) = SubSeq(s, i + 1, from - 1)
    <2>1. SubSeq(s, i + 1, from - 1) = SubSeq(t, (i + 1) + d, (from - 1) + d)
      BY <1>5, SliceShift, ZenonT(60)
    <2> QED
      BY <2>1, <1>5, Zenon
  <1>8. SubSeq(t, from + d, to + d) = SubSeq(s, from, to)
    BY <1>5, SliceShift, ZenonT(60)
  <1>9. Spaces(t, (i + d) + 1, from + d) /\ IsKey(SubSeq(t, from + d, to + d))
    BY <1>2, <1>7, <1>8, Zenon DEF Spaces
  <1>10. CASE k = to + 1
    <2>1. k + d = (to + d) + 1
      BY <1>10, <1>5, Zenon
    <2> QED
      BY <2>1, <1>5, <1>6, <1>9, Zenon DEF OneParameter
  <1>11. CASE s[to + 1] = "=" /\ k - 1 \in to + 2 .. Len(s) /\ IsItem(SubSeq(s, to + 2, k - 1), TRUE)
    <2>1. k - 1 \in to + 2 .. Len(s)
      BY <1>11
    <2>2. /\ to + 1 \in a .. Len(s) /\ to + 2 \in a .. Len(s) + 1 /\ k - 1 \in (to + 2) - 1 .. Len(s)
          /\ (k + d) - 1 \in (to + d) + 2 .. Len(t) /\ (to + 2) + d = (to + d) + 2
          /\ (k - 1) + d = (k + d) - 1
      BY <2>1, <1>1, <1>5
    <2>3. t[(to + d) + 1] = "="
      <3>1. t[(to + 1) + d] = s[to + 1]
        BY <2>2, Zenon DEF Repeats
      <3> QED
        BY <3>1, <1>5, <1>11, Zenon
    <2>4. SubSeq(t, (to + d) + 2, (k + d) - 1) = SubSeq(s, to + 2, k - 1)
      <3>1. SubSeq(s, to + 2, k - 1) = SubSeq(t, (to + 2) + d, (k - 1) + d)
        BY <2>2, SliceShift, ZenonT(60)
      <3> QED
        BY <3>1, <2>2, Zenon
    <2> QED
      BY <2>2, <2>3, <2>4, <1>5, <1>6, <1>9, <1>11, Zenon DEF OneParameter
  <1> QED
    BY <1>2, <1>10, <1>11, Zenon

LEMMA Carry ==
  ASSUME NEW s \in Seq(FieldCharacter), NEW t \in Seq(FieldCharacter), NEW d \in Int,
         NEW a \in 1 .. Len(s) + 1, Repeats(s, t, a, d), NEW P, NEW Q,
         Reaches(P, 1, Len(s) + 1, OneParameters(s, TRUE)), Reaches(Q, 1, Len(t) + 1, OneParameters(t, TRUE)),
         (Len(s) + 1) + d \in Q, a \in P
  PROVE  a + d \in Q
  <1> DEFINE n == Len(s) + 1
             S == {i \in a .. n : i \in P => i + d \in Q}
  <1>1. Len(s) \in Nat /\ Len(t) \in Nat /\ a + d >= 1 /\ Len(s) + d <= Len(t)
    BY SeqFacts, Zenon DEF Repeats
  <1>2. n \in Nat /\ a \in Nat /\ a \in a .. n
    BY <1>1
  <1>3. \A i \in a .. n : i \in 1 .. n /\ (i # n => i + d \in 1 .. Len(t) + 1)
                          /\ \A k \in i + 1 .. n : k \in a .. n /\ k + d \in (i + d) + 1 .. Len(t) + 1
    BY <1>1
  <1>4. \A i \in 1 .. n : i \in P <=> i = n \/ \E k \in i + 1 .. n : OneParameter(s, i, k, TRUE) /\ k \in P
    BY <1>1, OneParametersAre, Zenon DEF Reaches
  <1>5. \A i \in 1 .. Len(t) + 1 : \A k \in i + 1 .. Len(t) + 1 :
          OneParameter(t, i, k, TRUE) /\ k \in Q => i \in Q
    BY <1>1, OneParametersAre, Zenon DEF Reaches
  <1>6. ASSUME NEW i \in a .. n, \A k \in i + 1 .. n : k \in S
        PROVE  i \in S
    <2> SUFFICES ASSUME i \in P PROVE i + d \in Q
      OBVIOUS
    <2>1. CASE i = n
      BY <2>1, Zenon
    <2>2. CASE i # n
      <3>1. PICK k \in i + 1 .. n : OneParameter(s, i, k, TRUE) /\ k \in P
        BY <2>2, <1>3, <1>4, Zenon
      <3>2. OneParameter(t, i + d, k + d, TRUE)
        BY <3>1, ParameterShift, Zenon
      <3>3. k + d \in Q
        BY <3>1, <1>6, Zenon
      <3> QED
        BY <2>2, <3>2, <3>3, <1>3, <1>5, Zenon
    <2> QED
      BY <2>1, <2>2, Zenon
  <1>7. a \in S
    <2> HIDE DEF S, n
    <2>1. \A i \in a .. n : i \in S
      BY <1>2, <1>6, Descend
    <2> QED
      BY <2>1, <1>2
  <1> QED
    BY <1>7, Zenon

LEMMA ConcatFacts ==
  ASSUME NEW A, NEW s \in Seq(A), NEW t \in Seq(A)
  PROVE  /\ s \o t \in Seq(A) /\ Len(s \o t) = Len(s) + Len(t)
         /\ \A j \in 1 .. Len(s) : (s \o t)[j] = s[j]
         /\ \A j \in 1 .. Len(t) : (s \o t)[Len(s) + j] = t[j]
  OBVIOUS

IsParameters(e) == IsField(<<"?", "0">> \o e, TRUE)

\* A field with parameters behind it is a field with the same flag.
LEMMA FieldExtended ==
  ASSUME NEW f \in Seq(FieldCharacter), NEW e \in Seq(FieldCharacter),
         IsField(f, TRUE), IsParameters(e)
  PROVE  IsField(f \o e, TRUE) /\ (f \o e)[2] = f[2]
  <1> DEFINE g == f \o e
             b == <<"?", "0">>
             h == b \o e
  <1>1. b \in Seq(FieldCharacter) /\ Len(b) = 2
    <2>1. "?" \in FieldCharacter /\ "0" \in FieldCharacter
      BY DEF FieldCharacter, TokenChars, Digit
    <2> QED
      BY <2>1, TwoFacts, Zenon
  <1> HIDE DEF b
  <1>2. /\ Len(f) \in Nat /\ Len(e) \in Nat
        /\ g \in Seq(FieldCharacter) /\ Len(g) = Len(f) + Len(e)
        /\ h \in Seq(FieldCharacter) /\ Len(h) = 2 + Len(e)
        /\ \A j \in 1 .. Len(e) : h[2 + j] = e[j]
    <2>1. /\ h \in Seq(FieldCharacter) /\ Len(h) = Len(b) + Len(e)
          /\ \A j \in 1 .. Len(e) : h[Len(b) + j] = e[j]
      <3>1. \A x \in Seq(FieldCharacter) : /\ x \o e \in Seq(FieldCharacter) /\ Len(x \o e) = Len(x) + Len(e)
                                           /\ \A j \in 1 .. Len(e) : (x \o e)[Len(x) + j] = e[j]
        BY ConcatFacts
      <3> QED
        BY <1>1, <3>1, Zenon
    <2>2. g \in Seq(FieldCharacter) /\ Len(g) = Len(f) + Len(e)
      BY ConcatFacts
    <2> HIDE DEF g, h
    <2>3. Len(f) \in Nat /\ Len(e) \in Nat
      BY SeqFacts
    <2> QED
      BY <1>1, <2>1, <2>2, <2>3, Zenon
  <1>3. (\A j \in 1 .. Len(f) : g[j] = f[j]) /\ (\A j \in 1 .. Len(e) : g[Len(f) + j] = e[j])
    BY ConcatFacts
  <1>5. IsField(h, TRUE)
    BY Zenon DEF b, IsParameters
  <1> HIDE DEF g, h
  <1>6. PICK P : /\ Reaches(P, 1, Len(f) + 1, OneParameters(f, TRUE))
                 /\ Len(f) >= 2 /\ f[1] = "?" /\ f[2] \in {"0", "1"} /\ 3 \in P
    BY FieldIs, FieldBegins, Zenon
  <1>7. PICK R : Reaches(R, 1, Len(h) + 1, OneParameters(h, TRUE)) /\ 3 \in R
    BY <1>2, <1>5, FieldIs, Zenon
  <1>8. PICK Q : /\ Reaches(Q, 1, Len(g) + 1, OneParameters(g, TRUE))
                 /\ IsField(g, TRUE) <=> /\ Len(g) >= 2 /\ SubSeq(g, 1, 2) \in {<<"?", "0">>, <<"?", "1">>}
                                         /\ 3 \in Q
    BY <1>2, FieldIs, Zenon
  <1>9. Len(f) >= 2
    BY <1>6
  <1>10. Len(g) + 1 \in Q
    <2>1. Len(g) + 1 \in 1 .. Len(g) + 1
      BY <1>2
    <2> QED
      BY <2>1, <1>8, Zenon DEF Reaches
  <1>11. Len(f) + 1 \in Q
    <2>0. PICK d : d = Len(f) - 2
      OBVIOUS
    <2>1. /\ d \in Int /\ 3 \in 1 .. Len(h) + 1 /\ 3 + d = Len(f) + 1
          /\ 3 + d >= 1 /\ Len(h) + d <= Len(g) /\ (Len(h) + 1) + d = Len(g) + 1
      BY <2>0, <1>2, <1>9
    <2>2. ASSUME NEW j \in 3 .. Len(h) PROVE g[j + d] = h[j]
      <3>1. j - 2 \in 1 .. Len(e) /\ 2 + (j - 2) = j /\ Len(f) + (j - 2) = j + d
        BY <1>2, <2>0
      <3>2. h[2 + (j - 2)] = e[j - 2] /\ g[Len(f) + (j - 2)] = e[j - 2]
        BY <3>1, <1>2, <1>3, Zenon
      <3> QED
        BY <3>1, <3>2, Zenon
    <2>3. Repeats(h, g, 3, d)
      BY <2>1, <2>2, Zenon DEF Repeats
    <2>4. (Len(h) + 1) + d \in Q
      BY <2>1, <1>10, Zenon
    <2>5. 3 + d \in Q
      BY <2>1, <2>3, <2>4, <1>2, <1>7, <1>8, Carry, ZenonT(60)
    <2> QED
      BY <2>1, <2>5, Zenon
  <1>12. 3 \in Q
    <2>1. /\ 0 \in Int /\ 3 \in 1 .. Len(f) + 1 /\ 3 + 0 = 3 /\ 3 + 0 >= 1
          /\ Len(f) + 0 <= Len(g) /\ (Len(f) + 1) + 0 = Len(f) + 1
          /\ \A j \in 3 .. Len(f) : j + 0 = j /\ j \in 1 .. Len(f)
      BY <1>2, <1>9
    <2>2. Repeats(f, g, 3, 0)
      BY <2>1, <1>3, Zenon DEF Repeats
    <2>4. (Len(f) + 1) + 0 \in Q
      BY <2>1, <1>11, Zenon
    <2>5. 0 \in Int /\ 3 \in 1 .. Len(f) + 1
      BY <2>1, Zenon
    <2>3. 3 + 0 \in Q
      BY <2>2, <2>4, <2>5, <1>2, <1>6, <1>8, Carry, ZenonT(60)
    <2> QED
      BY <2>1, <2>3, Zenon
  <1>13. Len(g) >= 2 /\ 1 \in 1 .. Len(f) /\ 2 \in 1 .. Len(f)
    BY <1>2, <1>9
  <1>14. g[1] = "?" /\ g[2] = f[2] /\ g[2] \in {"0", "1"}
    BY <1>3, <1>6, <1>13, Zenon
  <1>15. SubSeq(g, 1, 2) \in {<<"?", "0">>, <<"?", "1">>}
    BY <1>2, <1>13, <1>14, FieldBegins, Zenon
  <1> QED
    BY <1>8, <1>12, <1>13, <1>14, <1>15, Zenon DEF g

LEMMA ParameterEnd ==
  ASSUME NEW t \in Seq(FieldCharacter), NEW i \in 1 .. Len(t), OneParameter(t, i, Len(t) + 1, TRUE)
  PROVE  t[Len(t)] # " "
  <1>1. Len(t) \in Nat
    BY SeqFacts
  <1>2. PICK from \in i + 1 .. Len(t), to \in i + 1 .. Len(t) :
          /\ IsKey(SubSeq(t, from, to))
          /\ \/ Len(t) + 1 = to + 1
             \/ (Len(t) + 1) - 1 \in to + 2 .. Len(t) /\ IsItem(SubSeq(t, to + 2, (Len(t) + 1) - 1), TRUE)
    BY Zenon DEF OneParameter
  <1>3. CASE Len(t) + 1 = to + 1
    <2>1. from \in 1 .. Len(t) /\ to \in Nat /\ to <= Len(t) /\ to = Len(t)
      BY <1>1, <1>3
    <2>2. to >= from /\ t[from] \in KeyStart /\ \A j \in from + 1 .. to : t[j] \in KeyChars
      BY <1>2, <2>1, KeyText, Zenon
    <2>3. to >= from
      BY <2>2
    <2>4. to = from \/ to \in from + 1 .. to
      BY <2>1, <2>3
    <2>5. " " \notin KeyStart /\ " " \notin KeyChars
      BY DEF KeyStart, KeyChars, Digit
    <2> QED
      BY <2>1, <2>2, <2>4, <2>5, Zenon
  <1>4. CASE (Len(t) + 1) - 1 \in to + 2 .. Len(t) /\ IsItem(SubSeq(t, to + 2, (Len(t) + 1) - 1), TRUE)
    <2>1. (Len(t) + 1) - 1 \in to + 2 .. Len(t)
      BY <1>4
    <2>2. to + 2 \in 1 .. Len(t) /\ Len(t) + 1 \in (to + 2) + 1 .. Len(t) + 1
      BY <1>1, <2>1
    <2>3. t[(Len(t) + 1) - 1] # " "
      BY <1>4, <2>2, ItemEnd, Zenon
    <2>4. (Len(t) + 1) - 1 = Len(t)
      BY <1>1
    <2> QED
      BY <2>3, <2>4, Zenon
  <1> QED
    BY <1>2, <1>3, <1>4, Zenon

LEMMA FieldEnd ==
  ASSUME NEW t \in Seq(FieldCharacter), IsField(t, TRUE)
  PROVE  Len(t) >= 2 /\ t[1] # " " /\ t[Len(t)] # " "
  <1> DEFINE n == Len(t) + 1
  <1>1. PICK P : /\ Reaches(P, 1, Len(t) + 1, OneParameters(t, TRUE))
                 /\ Len(t) >= 2 /\ t[1] = "?" /\ t[2] \in {"0", "1"} /\ 3 \in P
    BY FieldIs, FieldBegins, Zenon
  <1>2. Len(t) \in Nat /\ Len(t) >= 2
    BY SeqFacts, <1>1, Zenon
  <1>3. \A i \in 1 .. n : i \in P <=> i = n \/ \E k \in i + 1 .. n : OneParameter(t, i, k, TRUE) /\ k \in P
    BY <1>1, <1>2, OneParametersAre, Zenon DEF Reaches
  <1> DEFINE S == {i \in 3 .. n : i \in P => i = n \/ t[Len(t)] # " "}
  <1>4. \A i \in 3 .. n : /\ i \in 1 .. n /\ (i # n => i \in 1 .. Len(t))
                          /\ \A k \in i + 1 .. n : k \in 3 .. n
    BY <1>2
  <1>5. ASSUME NEW i \in 3 .. n, \A k \in i + 1 .. n : k \in S
        PROVE  i \in S
    <2> SUFFICES ASSUME i \in P, i # n PROVE t[Len(t)] # " "
      BY Zenon
    <2>1. PICK k \in i + 1 .. n : OneParameter(t, i, k, TRUE) /\ k \in P
      BY <1>3, <1>4, Zenon
    <2>2. k = n \/ t[Len(t)] # " "
      BY <2>1, <1>5, Zenon
    <2> QED
      BY <2>1, <2>2, <1>4, ParameterEnd, Zenon
  <1>6. 3 \in S
    <2>1. 3 \in Nat /\ n \in Nat /\ 3 \in 3 .. n
      BY <1>2
    <2> HIDE DEF S, n
    <2>2. \A i \in 3 .. n : i \in S
      BY <2>1, <1>5, Descend
    <2> QED
      BY <2>1, <2>2
  <1>7. 3 = n => Len(t) = 2
    <2>1. PICK m \in Nat : m = Len(t)
      BY <1>2
    <2>2. m + 1 = 3 => m = 2
      OBVIOUS
    <2>3. Len(t) + 1 = 3 => Len(t) = 2
      BY <2>1, <2>2, Zenon
    <2> QED
      BY <2>3, Zenon
  <1>8. t[2] # " "
    BY <1>1, Zenon
  <1>9. t[1] # " "
    BY <1>1, Zenon
  <1> QED
    BY <1>1, <1>6, <1>7, <1>8, <1>9, Zenon

\* A field has no spaces around it that trim_sp would take away.
LEMMA FieldTrimmed ==
  ASSUME NEW t \in Seq(FieldCharacter), IsField(t, TRUE)
  PROVE  trim_sp(t) = t
  <1> DEFINE kept == {i \in DOMAIN t : t[i] # " "}
  <1>1. Len(t) \in Nat /\ DOMAIN t = 1 .. Len(t)
    BY SeqFacts
  <1>2. Len(t) >= 2
    BY FieldEnd
  <1>3. 1 \in 1 .. Len(t) /\ Len(t) \in 1 .. Len(t)
    BY <1>1, <1>2
  <1>4. 1 \in kept /\ Len(t) \in kept /\ kept \subseteq 1 .. Len(t)
    BY <1>1, <1>3, FieldEnd, Zenon
  <1>5. trim_sp(t) = SubSeq(t, Min(kept), Max(kept))
    BY <1>4, Zenon DEF trim_sp
  <1> HIDE DEF kept
  <1>6. kept \subseteq Int /\ (\A k \in kept : 1 <= k) /\ (\A k \in kept : k <= Len(t))
    BY <1>1, <1>4
  <1>7. Min(kept) = 1 /\ Max(kept) = Len(t)
    BY <1>4, <1>6, MinIs, MaxIs
  <1>8. SubSeq(t, 1, Len(t)) = t
    <2>1. 1 \in Nat \ {0} /\ Len(t) \in 1 - 1 .. Len(t) /\ Len(t) - 1 + 1 = Len(t)
      BY <1>1
    <2>2. /\ SubSeq(t, 1, Len(t)) \in Seq(FieldCharacter) /\ Len(SubSeq(t, 1, Len(t))) = Len(t) - 1 + 1
          /\ \A j \in 1 .. Len(t) - 1 + 1 : SubSeq(t, 1, Len(t))[j] = t[1 + j - 1]
      BY <2>1, PartFacts
    <2>3. \A j \in 1 .. Len(t) : 1 + j - 1 = j
      BY <1>1
    <2>4. \A j \in 1 .. Len(t) : SubSeq(t, 1, Len(t))[j] = t[j]
      BY <2>1, <2>2, <2>3, Zenon
    <2> QED
      BY <2>1, <2>2, <2>4, SeqEqual, Zenon
  <1> QED
    BY <1>5, <1>7, <1>8, Zenon

\* serialize_capsule_protocol makes a field with the flag it was given.
LEMMA FieldSerialized ==
  ASSUME NEW value \in BOOLEAN
  PROVE  LET f == serialize_capsule_protocol(value) IN
         f \in Seq(FieldCharacter) /\ IsField(f, TRUE) /\ f[2] = IF value THEN "1" ELSE "0"
  <1>1. PICK c : c = IF value THEN "1" ELSE "0"
    OBVIOUS
  <1>2. serialize_capsule_protocol(value) = <<"?", c>> /\ c \in {"0", "1"}
    BY <1>1, Zenon DEF serialize_capsule_protocol
  <1>3. PICK f : f = serialize_capsule_protocol(value)
    OBVIOUS
  <1>4. f \in Seq(FieldCharacter) /\ Len(f) = 2 /\ f[1] = "?" /\ f[2] = c
    <2>1. "?" \in FieldCharacter /\ "0" \in FieldCharacter /\ "1" \in FieldCharacter
      BY DEF FieldCharacter, TokenChars, Digit
    <2>2. c \in FieldCharacter
      BY <2>1, <1>2, Zenon
    <2>3. /\ <<"?", c>> \in Seq(FieldCharacter) /\ Len(<<"?", c>>) = 2
          /\ <<"?", c>>[1] = "?" /\ <<"?", c>>[2] = c
      BY <2>1, <2>2, TwoFacts, Zenon
    <2> QED
      BY <1>2, <1>3, <2>3, Zenon
  <1>5. 3 \in 1 .. Len(f) + 1 /\ 3 = Len(f) + 1 /\ Len(f) >= 2
    <2>1. Len(f) = 2
      BY <1>4
    <2> QED
      BY <2>1
  <1>6. IsField(f, TRUE)
    <2>1. PICK P : /\ Reaches(P, 1, Len(f) + 1, OneParameters(f, TRUE))
                   /\ IsField(f, TRUE) <=> /\ Len(f) >= 2 /\ SubSeq(f, 1, 2) \in {<<"?", "0">>, <<"?", "1">>}
                                           /\ 3 \in P
      BY <1>4, FieldIs, Zenon
    <2>2. 3 \in P
      BY <1>5, <2>1, Zenon DEF Reaches
    <2>3. SubSeq(f, 1, 2) \in {<<"?", "0">>, <<"?", "1">>}
      BY <1>2, <1>4, <1>5, FieldBegins, Zenon
    <2> QED
      BY <1>5, <2>1, <2>2, <2>3, Zenon
  <1> QED
    BY <1>1, <1>3, <1>4, <1>6, Zenon
-----------------------------------------------------------------------------
(* The field on its way.                                                     *)

\* A field that was sent is one of the grammar and still holds the flag.
FieldInv ==
  /\ flag \in BOOLEAN /\ field \in Seq(FieldCharacter)
  /\ stage = "sent" => IsField(field, TRUE) /\ field[2] = IF flag THEN "1" ELSE "0"

\* FieldInv is inductive: the field is sent, extended, or written by a stranger.
LEMMA FieldInvHolds == Spec => []FieldInv
  <1>1. Init => FieldInv
    <2> SUFFICES ASSUME Init PROVE FieldInv
      OBVIOUS
    <2>1. <<>> \in Seq(FieldCharacter)
      OBVIOUS
    <2> QED
      BY <2>1, Zenon DEF Init, FieldInv
  <1>2. FieldInv /\ [Next]_vars => FieldInv'
    <2> SUFFICES ASSUME FieldInv, [Next]_vars PROVE FieldInv'
      OBVIOUS
    <2>0. /\ flag \in BOOLEAN /\ field \in Seq(FieldCharacter)
          /\ stage = "sent" => IsField(field, TRUE) /\ field[2] = IF flag THEN "1" ELSE "0"
      BY Zenon DEF FieldInv
    <2>1. ASSUME UNCHANGED <<flag, field>>, stage' # "sent" \/ stage' = stage PROVE FieldInv'
      BY <2>0, <2>1, Zenon DEF FieldInv
    <2>2. ASSUME NEW host \in Hosts, NEW port \in Ports, NEW config \in Configs, Build(host, port, config)
          PROVE  FieldInv'
      <3>1. UNCHANGED <<flag, field>> /\ (stage' = "built" \/ stage' = "refused")
        BY <2>2, Zenon DEF Build
      <3>2. stage' # "sent"
        BY <3>1
      <3> QED
        BY <3>1, <3>2, <2>1, Zenon
    <2>3. ASSUME NEW authority \in Authorities, NEW value \in BOOLEAN, Send(authority, value)
          PROVE  FieldInv'
      <3>1. \/ flag' = value /\ field' = serialize_capsule_protocol(value)
            \/ stage' = "refused" /\ UNCHANGED <<flag, field>>
        BY <2>3, Zenon DEF Send
      <3>2. CASE flag' = value /\ field' = serialize_capsule_protocol(value)
        <4>1. /\ field' \in Seq(FieldCharacter) /\ IsField(field', TRUE)
              /\ field'[2] = IF value THEN "1" ELSE "0"
          BY <3>2, FieldSerialized
        <4> QED
          BY <3>2, <4>1, Zenon DEF FieldInv
      <3>3. CASE stage' = "refused" /\ UNCHANGED <<flag, field>>
        <4>1. stage' # "sent"
          BY <3>3
        <4> QED
          BY <3>3, <4>1, <2>1, Zenon
      <3> QED
        BY <3>1, <3>2, <3>3, Zenon
    <2>4. ASSUME NEW base \in Bases, WriteBase(base) PROVE FieldInv'
      <3>1. /\ flag' = flag /\ stage' = "foreign"
            /\ field' = serialize_capsule_protocol(flag) \/ field' \in {b.text : b \in Beginnings}
        BY <2>4, Zenon DEF WriteBase
      <3>2. serialize_capsule_protocol(flag) \in Seq(FieldCharacter)
        BY <2>0, FieldSerialized
      <3>3. {b.text : b \in Beginnings} \subseteq Seq(FieldCharacter)
        BY HeadAssumption, Zenon
      <3>4. stage' # "sent"
        BY <3>1
      <3> QED
        BY <3>1, <3>2, <3>3, <3>4, <2>0, Zenon DEF FieldInv
    <2>5. ASSUME NEW p \in Parameters, WriteParameter(p) PROVE FieldInv'
      <3>1. UNCHANGED <<flag, field, stage>>
        BY <2>5, Zenon DEF WriteParameter
      <3> QED
        BY <3>1, <2>1, Zenon
    <2>6. CASE WriteField
      <3>1. PICK b \in Beginnings : \E c \in b.characters : field' = Append(field, c)
        BY <2>6, Zenon DEF WriteField
      <3>2. PICK c \in b.characters : field' = Append(field, c)
        BY <3>1
      <3>3. c \in FieldCharacter
        BY HeadAssumption, Zenon
      <3>4. Append(field, c) \in Seq(FieldCharacter)
        BY <2>0, <3>3, AppendProperties, Zenon
      <3>5. flag' = flag /\ stage' = stage /\ stage = "foreign"
        BY <2>6, Zenon DEF WriteField
      <3>6. stage' # "sent"
        BY <3>5
      <3> QED
        BY <3>2, <3>4, <3>5, <3>6, <2>0, Zenon DEF FieldInv
    <2>7. CASE Receive
      <3>1. UNCHANGED <<flag, field>> /\ (stage' = "received" \/ stage' = "refused")
        BY <2>7, Zenon DEF Receive
      <3>2. stage' # "sent"
        BY <3>1
      <3> QED
        BY <3>1, <3>2, <2>1, Zenon
    <2>8. CASE Forward
      <3>1. UNCHANGED <<flag, field>> /\ stage' = "built"
        BY <2>8, Zenon DEF Forward
      <3>2. stage' # "sent"
        BY <3>1
      <3> QED
        BY <3>1, <3>2, <2>1, Zenon
    <2>9. CASE Rewrite
      <3>1. UNCHANGED <<flag, field, stage>>
        BY <2>9, Zenon DEF Rewrite
      <3> QED
        BY <3>1, <2>1, Zenon
    <2>10. ASSUME NEW parameter \in Extensions, Extend(parameter) PROVE FieldInv'
      <3>1. /\ stage = "sent" /\ field' = field \o parameter /\ UNCHANGED <<stage, flag>>
        BY <2>10, Zenon DEF Extend
      <3>2. parameter \in Seq(FieldCharacter) /\ IsParameters(parameter)
        BY HeadAssumption, Zenon DEF IsParameters
      <3>3. IsField(field \o parameter, TRUE) /\ (field \o parameter)[2] = field[2]
        BY <2>0, <3>1, <3>2, FieldExtended, Zenon
      <3>4. field \o parameter \in Seq(FieldCharacter)
        BY <2>0, <3>2, ConcatFacts, Zenon
      <3> QED
        BY <2>0, <3>1, <3>3, <3>4, Zenon DEF FieldInv
    <2>11. CASE UNCHANGED vars
      <3>1. UNCHANGED <<flag, field, stage>>
        BY <2>11, Zenon DEF vars
      <3> QED
        BY <3>1, <2>1, Zenon
    <2> QED
      BY <2>2, <2>3, <2>4, <2>5, <2>6, <2>7, <2>8, <2>9, <2>10, <2>11, Zenon DEF Next
  <1> QED
    BY <1>1, <1>2, PTL DEF Spec

\* A foreign field that is parsed without an error is a Boolean Item of RFC 8941,
\* and of these exactly those are whose byte sequences leave no unused bit set, for
\* fields of any length (parse_capsule_protocol).
THEOREM FieldsAcceptedAreTheGrammars == Spec => []AcceptsGrammar
  <1>1. ASSUME FieldInv, stage = "foreign", part = "field"
        PROVE  /\ parse_capsule_protocol(field).result = "Ok" <=> IsField(trim_sp(field), TRUE)
               /\ IsField(trim_sp(field), TRUE) => IsField(trim_sp(field), FALSE)
    <2>1. field \in Seq(FieldCharacter)
      BY <1>1, Zenon DEF FieldInv
    <2> QED
      BY <2>1, CapsuleProtocolParsed, TrimFacts, ZeroedIsField, Zenon
  <1>2. FieldInv => AcceptsGrammar
    BY <1>1, Zenon DEF AcceptsGrammar
  <1> QED
    BY <1>2, FieldInvHolds, PTL

\* Whatever parameters are added on the way, the receiver reads the flag that was
\* sent (serialize_capsule_protocol and parse_capsule_protocol).
THEOREM FlagIsPreserved == Spec => []FlagPreserved
  <1>1. FieldInv => FlagPreserved
    <2> SUFFICES ASSUME FieldInv, stage = "sent"
                 PROVE  parse_capsule_protocol(field) = [result |-> "Ok", flag |-> flag]
      BY Zenon DEF FlagPreserved
    <2>1. /\ flag \in BOOLEAN /\ field \in Seq(FieldCharacter) /\ IsField(field, TRUE)
          /\ field[2] = IF flag THEN "1" ELSE "0"
      BY Zenon DEF FieldInv
    <2>2. parse_capsule_protocol(field) = [result |-> "Ok", flag |-> (field[2] = "1")]
      BY <2>1, FieldTrimmed, CapsuleProtocolParsed, Zenon
    <2>3. (field[2] = "1") = flag
      BY <2>1
    <2> QED
      BY <2>2, <2>3, Zenon
  <1> QED
    BY <1>1, FieldInvHolds, PTL
-----------------------------------------------------------------------------
(* Reading a sequence from its beginning.                                    *)

LEMMA PrefixFacts ==
  ASSUME NEW A, NEW s \in Seq(A), NEW m \in 0 .. Len(s) - 1
  PROVE  /\ SubSeq(s, 1, m) \in Seq(A) /\ s[m + 1] \in A
         /\ SubSeq(s, 1, m + 1) = Append(SubSeq(s, 1, m), s[m + 1])
  <1> DEFINE u == SubSeq(s, 1, m)
             v == SubSeq(s, 1, m + 1)
  <1>1. Len(s) \in Nat /\ \A i \in 1 .. Len(s) : s[i] \in A
    BY SeqFacts
  <1>2. /\ 1 \in Nat \ {0} /\ m \in 1 - 1 .. Len(s) /\ m + 1 \in 1 - 1 .. Len(s)
        /\ m - 1 + 1 = m /\ (m + 1) - 1 + 1 = m + 1 /\ m + 1 \in 1 .. Len(s)
    BY <1>1
  <1>3. u \in Seq(A) /\ Len(u) = m /\ \A j \in 1 .. m : u[j] = s[j]
    <2>1. u \in Seq(A) /\ Len(u) = m - 1 + 1 /\ \A j \in 1 .. m - 1 + 1 : u[j] = s[1 + j - 1]
      BY <1>2, PartFacts
    <2>2. \A j \in 1 .. m : 1 + j - 1 = j
      OBVIOUS
    <2> QED
      BY <2>1, <2>2, <1>2, Zenon
  <1>4. v \in Seq(A) /\ Len(v) = m + 1 /\ \A j \in 1 .. m + 1 : v[j] = s[j]
    <2>1. v \in Seq(A) /\ Len(v) = (m + 1) - 1 + 1
          /\ \A j \in 1 .. (m + 1) - 1 + 1 : v[j] = s[1 + j - 1]
      BY <1>2, PartFacts
    <2>2. \A j \in 1 .. m + 1 : 1 + j - 1 = j
      OBVIOUS
    <2> QED
      BY <2>1, <2>2, <1>2, Zenon
  <1>5. s[m + 1] \in A
    BY <1>1, <1>2, Zenon
  <1> HIDE DEF u, v
  <1>6. /\ Append(u, s[m + 1]) \in Seq(A) /\ Len(Append(u, s[m + 1])) = m + 1
        /\ \A j \in 1 .. m : Append(u, s[m + 1])[j] = u[j]
        /\ Append(u, s[m + 1])[m + 1] = s[m + 1]
    <2>1. /\ Append(u, s[m + 1]) \in Seq(A) /\ Len(Append(u, s[m + 1])) = Len(u) + 1
          /\ \A j \in 1 .. Len(u) : Append(u, s[m + 1])[j] = u[j]
          /\ Append(u, s[m + 1])[Len(u) + 1] = s[m + 1]
      BY <1>3, <1>5, AppendProperties
    <2> QED
      BY <2>1, <1>3, Zenon
  <1>7. \A j \in 1 .. m + 1 : j = m + 1 \/ j \in 1 .. m
    OBVIOUS
  <1>8. \A j \in 1 .. m + 1 : v[j] = Append(u, s[m + 1])[j]
    BY <1>3, <1>4, <1>6, <1>7, Zenon
  <1>9. v = Append(u, s[m + 1])
    BY <1>4, <1>6, <1>8, SeqEqual, Zenon
  <1> QED
    BY <1>3, <1>5, <1>9, Zenon DEF u, v

LEMMA WholeFacts ==
  ASSUME NEW A, NEW s \in Seq(A)
  PROVE  SubSeq(s, 1, Len(s)) = s /\ SubSeq(s, 1, 0) = <<>>
  <1>0. Len(s) \in Nat
    BY SeqFacts
  <1>1. 1 \in Nat \ {0} /\ Len(s) \in 1 - 1 .. Len(s) /\ Len(s) - 1 + 1 = Len(s)
    BY <1>0
  <1>2. /\ SubSeq(s, 1, Len(s)) \in Seq(A) /\ Len(SubSeq(s, 1, Len(s))) = Len(s) - 1 + 1
        /\ \A j \in 1 .. Len(s) - 1 + 1 : SubSeq(s, 1, Len(s))[j] = s[1 + j - 1]
    BY <1>1, PartFacts
  <1>3. \A j \in 1 .. Len(s) : 1 + j - 1 = j
    BY <1>0
  <1>4. \A j \in 1 .. Len(s) : SubSeq(s, 1, Len(s))[j] = s[j]
    BY <1>1, <1>2, <1>3, Zenon
  <1>5. SubSeq(s, 1, Len(s)) = s
    BY <1>1, <1>2, <1>4, SeqEqual, Zenon
  <1>6. SubSeq(s, 1, 0) = <<>>
    BY SubSeqEmpty
  <1> QED
    BY <1>5, <1>6, Zenon

\* A set that holds the empty sequence, and with each sequence those with one more
\* element, holds all.
LEMMA SeqInduct ==
  ASSUME NEW A, NEW S, <<>> \in S, \A s \in Seq(A) : \A a \in A : s \in S => Append(s, a) \in S
  PROVE  \A s \in Seq(A) : s \in S
  <1> SUFFICES ASSUME NEW s \in Seq(A) PROVE s \in S
    OBVIOUS
  <1> DEFINE T == {m \in 0 .. Len(s) : SubSeq(s, 1, m) \in S}
  <1>1. Len(s) \in Nat /\ 0 \in 0 .. Len(s) /\ Len(s) \in 0 .. Len(s)
    BY SeqFacts
  <1>2. 0 \in T
    BY <1>1, WholeFacts, Zenon
  <1>3. ASSUME NEW m \in 0 .. Len(s) - 1, m \in T PROVE m + 1 \in T
    <2>1. m + 1 \in 0 .. Len(s)
      BY <1>1
    <2>2. SubSeq(s, 1, m) \in S
      BY <1>3
    <2>3. /\ SubSeq(s, 1, m) \in Seq(A) /\ s[m + 1] \in A
          /\ SubSeq(s, 1, m + 1) = Append(SubSeq(s, 1, m), s[m + 1])
      BY PrefixFacts
    <2>4. Append(SubSeq(s, 1, m), s[m + 1]) \in S
      BY <2>2, <2>3, Zenon
    <2> QED
      BY <2>1, <2>3, <2>4, Zenon
  <1> HIDE DEF T
  <1>4. \A m \in 0 .. Len(s) : m \in T
    BY <1>1, <1>2, <1>3, Induct
  <1>5. Len(s) \in T
    BY <1>1, <1>4, Zenon
  <1> QED
    BY <1>5, WholeFacts, Zenon DEF T

\* f holds the results of F over the beginnings of s.
Folds(f, s, v, F) == f[0] = v /\ \A i \in 1 .. Len(s) : f[i] = F[<<f[i - 1], s[i]>>]

\* There is such a function.
LEMMA FoldExists ==
  ASSUME NEW A, NEW V, NEW v \in V, NEW F \in [V \X A -> V], NEW s \in Seq(A)
  PROVE  \E f \in [0 .. Len(s) -> V] : Folds(f, s, v, F)
  <1> DEFINE T == {m \in 0 .. Len(s) : \E f \in [0 .. m -> V] :
                     f[0] = v /\ \A i \in 1 .. m : f[i] = F[<<f[i - 1], s[i]>>]}
  <1>1. Len(s) \in Nat /\ 0 \in 0 .. Len(s) /\ Len(s) \in 0 .. Len(s)
        /\ \A i \in 1 .. Len(s) : s[i] \in A
    BY SeqFacts
  <1>2. 0 \in T
    <2> DEFINE f == [i \in 0 .. 0 |-> v]
    <2>1. f \in [0 .. 0 -> V] /\ f[0] = v /\ \A i \in 1 .. 0 : FALSE
      OBVIOUS
    <2> HIDE DEF f
    <2> QED
      BY <1>1, <2>1, Zenon
  <1>3. ASSUME NEW m \in 0 .. Len(s) - 1, m \in T PROVE m + 1 \in T
    <2>1. m + 1 \in 0 .. Len(s) /\ m + 1 \in 1 .. Len(s) /\ (m + 1) - 1 = m /\ m \in 0 .. m
          /\ 0 \in 0 .. m
      BY <1>1
    <2>2. PICK f \in [0 .. m -> V] : f[0] = v /\ \A i \in 1 .. m : f[i] = F[<<f[i - 1], s[i]>>]
      BY <1>3
    <2>3. f[m] \in V /\ s[m + 1] \in A /\ F[<<f[m], s[m + 1]>>] \in V
      <3>1. f[m] \in V /\ s[m + 1] \in A
        BY <2>1, <1>1, Zenon
      <3>2. <<f[m], s[m + 1]>> \in V \X A
        BY <3>1
      <3> QED
        BY <3>1, <3>2, Zenon
    <2>4. PICK w \in V : w = F[<<f[m], s[m + 1]>>]
      BY <2>3
    <2> DEFINE g == [i \in 0 .. m + 1 |-> IF i = m + 1 THEN w ELSE f[i]]
    <2>5. \A i \in 0 .. m + 1 : i = m + 1 \/ (i # m + 1 /\ i \in 0 .. m)
      OBVIOUS
    <2>6. g \in [0 .. m + 1 -> V]
      <3>1. \A i \in 0 .. m + 1 : (IF i = m + 1 THEN w ELSE f[i]) \in V
        BY <2>5, Zenon
      <3> QED
        BY <3>1, Zenon
    <2>7. \A i \in 0 .. m : i \in 0 .. m + 1 /\ i # m + 1
      OBVIOUS
    <2>8. \A i \in 0 .. m : g[i] = f[i]
      BY <2>7, Zenon
    <2>9. m + 1 \in 0 .. m + 1
      OBVIOUS
    <2>10. g[m + 1] = w
      BY <2>9, Zenon
    <2>11. \A i \in 1 .. m + 1 : i = m + 1 \/ i \in 1 .. m
      OBVIOUS
    <2>12. \A i \in 1 .. m : i \in 0 .. m /\ i - 1 \in 0 .. m
      OBVIOUS
    <2> HIDE DEF g
    <2>13. \A i \in 1 .. m + 1 : g[i] = F[<<g[i - 1], s[i]>>]
      BY <2>1, <2>2, <2>4, <2>8, <2>10, <2>11, <2>12, Zenon
    <2> QED
      BY <2>1, <2>2, <2>6, <2>8, <2>13, Zenon
  <1> HIDE DEF T
  <1>4. \A m \in 0 .. Len(s) : m \in T
    BY <1>1, <1>2, <1>3, Induct
  <1>5. Len(s) \in T
    BY <1>1, <1>4, Zenon
  <1> QED
    BY <1>5, Zenon DEF T, Folds

LEMMA FoldTyped ==
  ASSUME NEW A, NEW V, NEW v \in V, NEW F \in [V \X A -> V], NEW s \in Seq(A),
         NEW p, p[0] = v, \A i \in 1 .. Len(s) : p[i - 1] \in V => p[i] = F[<<p[i - 1], s[i]>>]
  PROVE  Folds(p, s, v, F)
  <1> DEFINE S == {i \in 0 .. Len(s) : p[i] \in V}
  <1>1. Len(s) \in Nat /\ 0 \in 0 .. Len(s) /\ Len(s) \in 0 .. Len(s)
        /\ \A i \in 1 .. Len(s) : s[i] \in A
    BY SeqFacts
  <1>2. 0 \in S
    BY <1>1, Zenon
  <1>3. ASSUME NEW i \in 0 .. Len(s) - 1, i \in S PROVE i + 1 \in S
    <2>1. i + 1 \in 1 .. Len(s) /\ (i + 1) - 1 = i /\ i + 1 \in 0 .. Len(s)
      BY <1>1
    <2>2. p[i + 1] = F[<<p[i], s[i + 1]>>]
      <3>1. p[(i + 1) - 1] \in V
        BY <2>1, <1>3, Zenon
      <3>2. p[i + 1] = F[<<p[(i + 1) - 1], s[i + 1]>>]
        BY <2>1, <3>1, Zenon
      <3> QED
        BY <2>1, <3>2, Zenon
    <2>3. p[i] \in V /\ s[i + 1] \in A
      BY <2>1, <1>1, <1>3, Zenon
    <2>4. <<p[i], s[i + 1]>> \in V \X A
      BY <2>3
    <2> QED
      BY <2>1, <2>2, <2>4, Zenon
  <1> HIDE DEF S
  <1>4. \A i \in 0 .. Len(s) : i \in S
    BY <1>1, <1>2, <1>3, Induct
  <1>5. \A i \in 0 .. Len(s) : p[i] \in V
    BY <1>4, Zenon DEF S
  <1>6. \A i \in 1 .. Len(s) : i - 1 \in 0 .. Len(s)
    BY <1>1
  <1> QED
    BY <1>1, <1>5, <1>6, Zenon DEF Folds

LEMMA FoldValue ==
  ASSUME NEW A, NEW V, NEW v \in V, NEW F \in [V \X A -> V], NEW s \in Seq(A),
         NEW f, Folds(f, s, v, F)
  PROVE  f[Len(s)] \in V
  <1> DEFINE T == {m \in 0 .. Len(s) : f[m] \in V}
  <1>1. Len(s) \in Nat /\ 0 \in 0 .. Len(s) /\ Len(s) \in 0 .. Len(s)
        /\ \A i \in 1 .. Len(s) : s[i] \in A
    BY SeqFacts
  <1>2. 0 \in T
    BY <1>1, Zenon DEF Folds
  <1>3. ASSUME NEW m \in 0 .. Len(s) - 1, m \in T PROVE m + 1 \in T
    <2>1. m + 1 \in 0 .. Len(s) /\ m + 1 \in 1 .. Len(s) /\ (m + 1) - 1 = m
      BY <1>1
    <2>2. f[m + 1] = F[<<f[m], s[m + 1]>>]
      BY <2>1, Zenon DEF Folds
    <2>3. f[m] \in V /\ s[m + 1] \in A
      BY <1>1, <1>3, <2>1, Zenon
    <2>4. <<f[m], s[m + 1]>> \in V \X A
      BY <2>3
    <2> QED
      BY <2>1, <2>2, <2>4, Zenon
  <1> HIDE DEF T
  <1>4. \A m \in 0 .. Len(s) : m \in T
    BY <1>1, <1>2, <1>3, Induct
  <1> QED
    BY <1>1, <1>4, Zenon DEF T

FoldGoesOn(f, g, s, a, F) == g[Len(Append(s, a))] = F[<<f[Len(s)], a>>]

\* What a fold of a sequence has come to is what the fold of its beginning came to.
LEMMA FoldFacts ==
  ASSUME NEW A, NEW V, NEW v \in V, NEW F \in [V \X A -> V], NEW s \in Seq(A), NEW a \in A,
         NEW f, Folds(f, s, v, F), NEW g, Folds(g, Append(s, a), v, F)
  PROVE  FoldGoesOn(f, g, s, a, F)
  <1> DEFINE T == {m \in 0 .. Len(s) : f[m] \in V /\ g[m] = f[m]}
  <1>1. Len(s) \in Nat /\ 0 \in 0 .. Len(s) /\ Len(s) \in 0 .. Len(s)
        /\ \A i \in 1 .. Len(s) : s[i] \in A
    BY SeqFacts
  <1>2. PICK t \in Seq(A) : t = Append(s, a)
    BY AppendProperties
  <1>3. /\ Len(t) = Len(s) + 1 /\ (\A j \in 1 .. Len(s) : t[j] = s[j])
        /\ t[Len(s) + 1] = a
    BY <1>2, AppendProperties
  <1>4. 0 \in T
    BY <1>1, Zenon DEF Folds
  <1>5. ASSUME NEW m \in 0 .. Len(s) - 1, m \in T PROVE m + 1 \in T
    <2>1. m + 1 \in 0 .. Len(s) /\ m + 1 \in 1 .. Len(s) /\ (m + 1) - 1 = m /\ m + 1 \in 1 .. Len(s) + 1
      BY <1>1
    <2>2. f[m + 1] = F[<<f[m], s[m + 1]>>]
      BY <2>1, Zenon DEF Folds
    <2>3. g[m + 1] = F[<<g[m], s[m + 1]>>]
      BY <2>1, <1>2, <1>3, Zenon DEF Folds
    <2>4. f[m] \in V /\ g[m] = f[m] /\ s[m + 1] \in A
      BY <1>1, <1>5, <2>1, Zenon
    <2>5. <<f[m], s[m + 1]>> \in V \X A
      BY <2>4
    <2>6. F[<<f[m], s[m + 1]>>] \in V
      BY <2>5, Zenon
    <2> QED
      BY <2>1, <2>2, <2>3, <2>4, <2>6, Zenon
  <1> HIDE DEF T
  <1>6. \A m \in 0 .. Len(s) : m \in T
    BY <1>1, <1>4, <1>5, Induct
  <1>7. f[Len(s)] \in V /\ g[Len(s)] = f[Len(s)]
    BY <1>1, <1>6, Zenon DEF T
  <1>8. Len(s) + 1 \in 1 .. Len(s) + 1 /\ (Len(s) + 1) - 1 = Len(s)
    BY <1>1
  <1>9. g[Len(s) + 1] = F[<<g[Len(s)], a>>]
    BY <1>2, <1>3, <1>8, ZenonT(60) DEF Folds
  <1> QED
    BY <1>2, <1>3, <1>7, <1>9, Zenon DEF FoldGoesOn
-----------------------------------------------------------------------------
(* The parts of a query.                                                     *)

\* What Pairs returns for queries over T.
Parts(T) == {ps \in Seq(Seq(T \ {Raw("&")})) : ps # <<>>}

\* One character of a query, as Pairs treats it.
PairStep(ps, c) ==
  IF c = Raw("&") THEN Append(ps, <<>>) ELSE [ps EXCEPT ![Len(ps)] = Append(@, c)]

LEMMA ExceptLast ==
  ASSUME NEW A, NEW ps \in Seq(A), ps # <<>>, NEW p \in A
  PROVE  LET r == [ps EXCEPT ![Len(ps)] = p] IN
         /\ r \in Seq(A) /\ r # <<>> /\ Len(r) = Len(ps) /\ r[Len(ps)] = p
         /\ \A i \in 1 .. Len(ps) - 1 : r[i] = ps[i]
         /\ Len(ps) \in 1 .. Len(ps)
  <1>1. Len(ps) \in Nat /\ DOMAIN ps = 1 .. Len(ps) /\ Len(ps) # 0
        /\ \A i \in 1 .. Len(ps) : ps[i] \in A
    BY SeqFacts
  <1> DEFINE r == [ps EXCEPT ![Len(ps)] = p]
  <1>2. r \in Seq(A) /\ Len(r) = Len(ps)
    BY <1>1
  <1>3. r[Len(ps)] = p /\ \A i \in 1 .. Len(ps) - 1 : r[i] = ps[i]
    <2>1. r = [i \in 1 .. Len(ps) |-> IF i = Len(ps) THEN p ELSE ps[i]]
      BY <1>1
    <2>2. \A i \in 1 .. Len(ps) - 1 : i \in 1 .. Len(ps) /\ i # Len(ps)
      <3>1. PICK m \in Nat : m = Len(ps)
        BY <1>1
      <3>2. \A i \in 1 .. m - 1 : i \in 1 .. m /\ i # m
        OBVIOUS
      <3> QED
        BY <3>1, <3>2, ZenonT(60)
    <2>3. Len(ps) \in 1 .. Len(ps)
      BY <1>1
    <2> HIDE DEF r
    <2> QED
      BY <2>1, <2>2, <2>3, Zenon
  <1>4. Len(ps) \in 1 .. Len(ps)
    BY <1>1
  <1> HIDE DEF r
  <1>5. r # <<>>
    BY <1>1, <1>2, SeqFacts
  <1> QED
    BY <1>2, <1>3, <1>4, <1>5, Zenon DEF r

LEMMA PairStepFacts ==
  ASSUME NEW T, NEW ps \in Parts(T), NEW c \in T
  PROVE  PairStep(ps, c) \in Parts(T)
  <1> DEFINE A == Seq(T \ {Raw("&")})
  <1>1. ps \in Seq(A) /\ ps # <<>>
    BY Zenon DEF Parts
  <1>2. CASE c = Raw("&")
    <2>1. <<>> \in A
      OBVIOUS
    <2> HIDE DEF A
    <2>2. Append(ps, <<>>) \in Seq(A) /\ Append(ps, <<>>) # <<>>
      BY <1>1, <2>1
    <2> QED
      BY <2>2, <1>2, Zenon DEF Parts, PairStep, A
  <1>3. CASE c # Raw("&")
    <2> HIDE DEF A
    <2>1. ps[Len(ps)] \in A
      <3>1. Len(ps) \in 1 .. Len(ps)
        BY <1>1, SeqFacts
      <3> QED
        BY <1>1, <3>1, SeqFacts, Zenon
    <2>2. c \in T \ {Raw("&")}
      BY <1>3
    <2>3. Append(ps[Len(ps)], c) \in A
      BY <2>1, <2>2, AppendProperties, Zenon DEF A
    <2>4. PICK p \in A : p = Append(ps[Len(ps)], c)
      BY <2>3
    <2>5. [ps EXCEPT ![Len(ps)] = p] \in Seq(A) /\ [ps EXCEPT ![Len(ps)] = p] # <<>>
      BY <1>1, ExceptLast
    <2>6. PairStep(ps, c) = [ps EXCEPT ![Len(ps)] = p]
      BY <1>3, <2>4, Zenon DEF PairStep
    <2> QED
      BY <2>5, <2>6, Zenon DEF Parts, A
  <1> QED
    BY <1>2, <1>3

PairFold(T) == [x \in Parts(T) \X T |-> PairStep(x[1], x[2])]

LEMMA PairFoldIs ==
  ASSUME NEW T
  PROVE  /\ <<<<>>>> \in Parts(T) /\ PairFold(T) \in [Parts(T) \X T -> Parts(T)]
         /\ \A ps \in Parts(T) : \A c \in T : PairFold(T)[<<ps, c>>] = PairStep(ps, c)
  <1>1. <<<<>>>> \in Parts(T)
    <2> DEFINE A == Seq(T \ {Raw("&")})
    <2>1. <<>> \in A
      OBVIOUS
    <2> HIDE DEF A
    <2>2. <<<<>>>> \in Seq(A) /\ <<<<>>>> # <<>>
      BY <2>1
    <2> QED
      BY <2>2, Zenon DEF Parts, A
  <1>2. \A x \in Parts(T) \X T : PairStep(x[1], x[2]) \in Parts(T)
    <2> TAKE x \in Parts(T) \X T
    <2>1. x[1] \in Parts(T) /\ x[2] \in T
      OBVIOUS
    <2> QED
      BY <2>1, PairStepFacts, Zenon
  <1>3. PairFold(T) \in [Parts(T) \X T -> Parts(T)]
    BY <1>2, Zenon DEF PairFold
  <1>4. ASSUME NEW ps \in Parts(T), NEW c \in T PROVE PairFold(T)[<<ps, c>>] = PairStep(ps, c)
    <2>1. <<ps, c>> \in Parts(T) \X T /\ <<ps, c>>[1] = ps /\ <<ps, c>>[2] = c
      OBVIOUS
    <2> QED
      BY <2>1, Zenon DEF PairFold
  <1> QED
    BY <1>1, <1>3, <1>4, Zenon

LEMMA PairsFold ==
  ASSUME NEW T, NEW q \in Seq(T)
  PROVE  \E f : f[Len(q)] \in Parts(T) /\ Folds(f, q, <<<<>>>>, PairFold(T)) /\ Pairs(q) = f[Len(q)]
  <1> DEFINE n == Len(q)
             E(g) == g = [i \in 0 .. n |->
                       IF i = 0 THEN <<<<>>>>
                       ELSE LET before == g[i - 1]
                            IN  IF q[i] = Raw("&") THEN Append(before, <<>>)
                                ELSE [before EXCEPT ![Len(before)] = Append(@, q[i])]]
             D(g) == g = [i \in 0 .. n |-> IF i = 0 THEN <<<<>>>> ELSE PairStep(g[i - 1], q[i])]
             p == CHOOSE g : E(g)
             F == PairFold(T)
  <1>1. n \in Nat /\ \A i \in 1 .. n : q[i] \in T
    BY SeqFacts
  <1>2. \A g : E(g) <=> D(g)
    BY Zenon DEF PairStep
  <1>3. PICK f \in [0 .. n -> Parts(T)] : Folds(f, q, <<<<>>>>, F)
    BY PairFoldIs, FoldExists, Zenon
  <1> HIDE DEF n
  <1>4. \A i \in 0 .. n : i = 0 \/ (i # 0 /\ i \in 1 .. n /\ i - 1 \in 0 .. n)
    BY <1>1
  <1>40. \A i \in 1 .. n : i # 0 /\ i \in 0 .. n /\ i - 1 \in 0 .. n
    BY <1>1
  <1>41. 0 \in 0 .. n /\ n \in 0 .. n
    BY <1>1
  <1>5. D(f)
    <2>1. \A i \in 0 .. n : f[i] = IF i = 0 THEN <<<<>>>> ELSE PairStep(f[i - 1], q[i])
      <3> TAKE i \in 0 .. n
      <3>1. CASE i = 0
        BY <1>3, <3>1, Zenon DEF Folds
      <3>2. CASE i # 0
        <4>1. i \in 1 .. n /\ i - 1 \in 0 .. n
          BY <1>4, <3>2, Zenon
        <4>2. f[i] = F[<<f[i - 1], q[i]>>]
          BY <1>3, <4>1, Zenon DEF Folds, n
        <4>3. f[i - 1] \in Parts(T) /\ q[i] \in T
          BY <1>1, <1>3, <4>1, Zenon
        <4> QED
          BY <3>2, <4>2, <4>3, PairFoldIs, Zenon
      <3> QED
        BY <3>1, <3>2
    <2>2. f = [i \in 0 .. n |-> f[i]]
      BY <1>3, Zenon
    <2> QED
      BY <2>1, <2>2, Zenon
  <1>6. E(p)
    <2>1. E(f)
      BY <1>2, <1>5, Zenon
    <2> HIDE DEF E
    <2> QED
      BY <2>1, Zenon
  <1>7. D(p)
    BY <1>2, <1>6, Zenon
  <1>8. Pairs(q) = p[n]
    BY Zenon DEF Pairs, n
  <1> HIDE DEF p
  <1>9. \A i \in 0 .. n : p[i] = IF i = 0 THEN <<<<>>>> ELSE PairStep(p[i - 1], q[i])
    BY <1>7, Zenon
  <1>10. p[0] = <<<<>>>>
    BY <1>9, <1>41, Zenon
  <1>11. ASSUME NEW i \in 1 .. n, p[i - 1] \in Parts(T) PROVE p[i] = F[<<p[i - 1], q[i]>>]
    <2> HIDE DEF D, E
    <2>1. p[i] = PairStep(p[i - 1], q[i])
      BY <1>9, <1>40, Zenon
    <2>2. q[i] \in T
      BY <1>1
    <2> QED
      BY <1>11, <2>1, <2>2, PairFoldIs, Zenon
  <1> HIDE DEF D, E
  <1>12. Folds(p, q, <<<<>>>>, F) /\ p[n] \in Parts(T)
    <2>1. <<<<>>>> \in Parts(T) /\ F \in [Parts(T) \X T -> Parts(T)]
      BY PairFoldIs, Zenon
    <2> HIDE DEF F
    <2>2. \A i \in 1 .. Len(q) : p[i - 1] \in Parts(T) => p[i] = F[<<p[i - 1], q[i]>>]
      BY <1>11, Zenon DEF n
    <2>3. PICK v \in Parts(T) : v = <<<<>>>>
      BY <2>1
    <2>4. p[0] = v
      BY <1>10, <2>3, Zenon
    <2>5. Folds(p, q, v, F)
      BY <2>1, <2>2, <2>4, FoldTyped, Zenon
    <2>6. p[Len(q)] \in Parts(T)
      BY <2>1, <2>5, FoldValue, Zenon
    <2> QED
      BY <2>3, <2>5, <2>6, Zenon DEF n
  <1> QED
    BY <1>8, <1>12, Zenon DEF n, F

LastSet(s, x) == [s EXCEPT ![Len(s)] = x]

LEMMA LastFacts ==
  ASSUME NEW A, NEW s \in Seq(A), NEW a \in A, NEW x \in A
  PROVE  /\ Append(s, a)[Len(Append(s, a))] = a
         /\ LastSet(Append(s, a), x) = Append(s, x)
  <1>0. Len(s) \in Nat
    BY SeqFacts
  <1>1. PICK t \in Seq(A) : t = Append(s, a)
    BY AppendProperties
  <1>2. t # <<>> /\ Len(t) = Len(s) + 1 /\ (\A i \in 1 .. Len(s) : t[i] = s[i]) /\ t[Len(s) + 1] = a
    BY <1>1, AppendProperties
  <1>3. PICK r : r = [t EXCEPT ![Len(t)] = x]
    OBVIOUS
  <1>4. r \in Seq(A) /\ Len(r) = Len(t) /\ r[Len(t)] = x /\ \A i \in 1 .. Len(t) - 1 : r[i] = t[i]
    BY <1>2, <1>3, ExceptLast
  <1>5. PICK u \in Seq(A) : u = Append(s, x)
    BY AppendProperties
  <1>6. Len(u) = Len(s) + 1 /\ (\A i \in 1 .. Len(s) : u[i] = s[i]) /\ u[Len(s) + 1] = x
    BY <1>5, AppendProperties
  <1>7. Len(t) - 1 = Len(s) /\ \A i \in 1 .. Len(s) + 1 : i = Len(s) + 1 \/ i \in 1 .. Len(s)
    <2>1. PICK n \in Nat : n = Len(s)
      BY <1>0
    <2>2. (n + 1) - 1 = n /\ \A i \in 1 .. n + 1 : i = n + 1 \/ i \in 1 .. n
      OBVIOUS
    <2> QED
      BY <1>2, <2>1, <2>2, Zenon
  <1>8. \A i \in 1 .. Len(s) + 1 : r[i] = u[i]
    BY <1>2, <1>4, <1>6, <1>7, Zenon
  <1>9. r = u
    BY <1>2, <1>4, <1>6, <1>8, SeqEqual, Zenon
  <1> QED
    BY <1>1, <1>2, <1>3, <1>5, <1>9, Zenon DEF LastSet

LEMMA ConcatLast ==
  ASSUME NEW A, NEW b \in Seq(A), NEW s \in Seq(A), NEW a \in A
  PROVE  b \o Append(s, a) = Append(b \o s, a)
  <1>1. <<a>> \in Seq(A) /\ b \o s \in Seq(A)
    BY ConcatProperties
  <1>2. Append(s, a) = s \o <<a>> /\ Append(b \o s, a) = (b \o s) \o <<a>>
    BY <1>1, AppendIsConcat
  <1>3. (b \o s) \o <<a>> = b \o (s \o <<a>>)
    BY <1>1, ConcatAssociative
  <1> QED
    BY <1>2, <1>3, Zenon

\* Pairs, character by character.
LEMMA PairsEquations ==
  ASSUME NEW T
  PROVE  /\ Pairs(<<>>) = <<<<>>>>
         /\ \A q \in Seq(T) : Pairs(q) \in Parts(T)
         /\ \A q \in Seq(T) : \A t \in T : Pairs(Append(q, t)) = PairStep(Pairs(q), t)
  <1>1. Pairs(<<>>) = <<<<>>>>
    <2>1. <<>> \in Seq(T) /\ Len(<<>>) = 0
      OBVIOUS
    <2>2. PICK f : Folds(f, <<>>, <<<<>>>>, PairFold(T)) /\ Pairs(<<>>) = f[0]
      BY <2>1, PairsFold, Zenon
    <2> QED
      BY <2>2, Zenon DEF Folds
  <1>2. \A q \in Seq(T) : Pairs(q) \in Parts(T)
    BY PairsFold, Zenon
  <1>3. ASSUME NEW q \in Seq(T), NEW t \in T PROVE Pairs(Append(q, t)) = PairStep(Pairs(q), t)
    <2>1. PICK f : Folds(f, q, <<<<>>>>, PairFold(T)) /\ Pairs(q) = f[Len(q)]
      BY PairsFold, Zenon
    <2>2. Append(q, t) \in Seq(T)
      BY AppendProperties
    <2>3. PICK g : Folds(g, Append(q, t), <<<<>>>>, PairFold(T)) /\ Pairs(Append(q, t)) = g[Len(Append(q, t))]
      BY <2>2, PairsFold, Zenon
    <2>4. <<<<>>>> \in Parts(T) /\ PairFold(T) \in [Parts(T) \X T -> Parts(T)]
      BY PairFoldIs, Zenon
    <2>5. PICK V, v, F : V = Parts(T) /\ v = <<<<>>>> /\ F = PairFold(T)
      OBVIOUS
    <2>6. v \in V /\ F \in [V \X T -> V] /\ Folds(f, q, v, F) /\ Folds(g, Append(q, t), v, F)
      BY <2>1, <2>3, <2>4, <2>5, Zenon
    <2>70. FoldGoesOn(f, g, q, t, F)
      BY <2>6, FoldFacts, Zenon
    <2>7. g[Len(Append(q, t))] = F[<<f[Len(q)], t>>]
      BY <2>70, Zenon DEF FoldGoesOn
    <2>8. Pairs(q) \in Parts(T)
      BY <1>2
    <2>9. PairFold(T)[<<Pairs(q), t>>] = PairStep(Pairs(q), t)
      BY <2>8, PairFoldIs, Zenon
    <2> QED
      BY <2>1, <2>3, <2>5, <2>7, <2>9, Zenon
  <1> QED
    BY <1>1, <1>2, <1>3, Zenon

\* What follows a "&" without another is the last of the parts.
LEMMA PairsJoin ==
  ASSUME NEW T, Raw("&") \in T, NEW q \in Seq(T), NEW p \in Seq(T \ {Raw("&")})
  PROVE  Pairs((q \o <<Raw("&")>>) \o p) = Append(Pairs(q), p)
  <1> DEFINE A == T \ {Raw("&")}
             S == {x \in Seq(A) : Pairs((q \o <<Raw("&")>>) \o x) = Append(Pairs(q), x)}
             b == q \o <<Raw("&")>>
  <1>1. b = Append(q, Raw("&")) /\ b \in Seq(T)
    BY AppendIsConcat, AppendProperties
  <1>2. Pairs(q) \in Seq(Seq(A)) /\ Pairs(q) # <<>>
    BY PairsEquations, Zenon DEF Parts
  <1>3. <<>> \in Seq(A) /\ b \o <<>> = b
    BY <1>1, ConcatEmptySeq
  <1>4. <<>> \in S
    <2>1. Pairs(b) = Append(Pairs(q), <<>>)
      BY <1>1, PairsEquations, Zenon DEF PairStep
    <2> QED
      BY <1>3, <2>1, Zenon
  <1>5. ASSUME NEW x \in Seq(A), NEW c \in A, x \in S PROVE Append(x, c) \in S
    <2>1. Append(x, c) \in Seq(A) /\ x \in Seq(T) /\ c \in T /\ c # Raw("&")
      <3>1. Append(x, c) \in Seq(A) /\ c \in T /\ c # Raw("&") /\ A \subseteq T
        BY AppendProperties
      <3>2. x \in Seq(T)
        BY <3>1, SeqMonotonic, Zenon
      <3> QED
        BY <3>1, <3>2, Zenon
    <2> HIDE DEF b, A
    <2>2. b \o Append(x, c) = Append(b \o x, c) /\ b \o x \in Seq(T)
      BY <1>1, <2>1, ConcatLast, ConcatProperties
    <2>3. Pairs(Append(b \o x, c)) = PairStep(Pairs(b \o x), c)
      BY <2>1, <2>2, PairsEquations, Zenon
    <2>4. Pairs(b \o x) = Append(Pairs(q), x)
      BY <1>5, Zenon DEF b
    <2>5. PICK ps \in Seq(Seq(A)) : ps = Pairs(q)
      BY <1>2
    <2>8. PICK y \in Seq(A) : y = Append(x, c)
      BY <2>1
    <2>6. /\ Append(ps, x)[Len(Append(ps, x))] = x
          /\ LastSet(Append(ps, x), y) = Append(ps, y)
      BY LastFacts
    <2>7. PairStep(Append(ps, x), c) = Append(ps, Append(x, c))
      BY <2>1, <2>6, <2>8, Zenon DEF PairStep, LastSet
    <2> QED
      BY <2>1, <2>2, <2>3, <2>4, <2>5, <2>7, Zenon DEF b
  <1>6. \A x \in Seq(A) : x \in S
    <2> HIDE DEF A, S
    <2> QED
      BY <1>4, <1>5, SeqInduct, Zenon
  <1> QED
    BY <1>6, Zenon

SameLast(b, s, x) ==
  /\ b \o s # <<>>
  /\ (b \o s)[Len(b \o s)] = s[Len(s)]
  /\ LastSet(b \o s, x) = b \o LastSet(s, x)

LEMMA ConcatExcept ==
  ASSUME NEW A, NEW b \in Seq(A), NEW s \in Seq(A), s # <<>>, NEW x \in A
  PROVE  SameLast(b, s, x)
  <1>1. PICK t \in Seq(A), a \in A : s = Append(t, a)
    BY SequenceEmptyOrAppend
  <1>2. b \o s = Append(b \o t, a) /\ b \o t \in Seq(A)
    BY <1>1, ConcatLast, ConcatProperties
  <1>3. b \o s # <<>>
    BY <1>2, AppendProperties
  <1>4. s[Len(s)] = a /\ LastSet(s, x) = Append(t, x)
    BY <1>1, LastFacts
  <1>5. PICK u \in Seq(A) : u = b \o t
    BY <1>2
  <1>6. Append(u, a)[Len(Append(u, a))] = a /\ LastSet(Append(u, a), x) = Append(u, x)
    BY LastFacts
  <1>7. b \o Append(t, x) = Append(b \o t, x)
    BY ConcatLast
  <1> QED
    BY <1>2, <1>3, <1>4, <1>5, <1>6, <1>7, Zenon DEF SameLast

\* A "&" in front puts an empty part in front.
LEMMA PairsFront ==
  ASSUME NEW T, Raw("&") \in T, NEW q \in Seq(T)
  PROVE  Pairs(<<Raw("&")>> \o q) = <<<<>>>> \o Pairs(q)
  <1> DEFINE b == <<Raw("&")>>
             S == {x \in Seq(T) : Pairs(b \o x) = <<<<>>>> \o Pairs(x)}
             A == Seq(T \ {Raw("&")})
             e == <<<<>>>>
  <1>1. b \in Seq(T) /\ <<>> \in Seq(T) /\ b = <<>> \o b /\ Append(<<>>, Raw("&")) = b /\ b \o <<>> = b
    <2>1. b \in Seq(T) /\ <<>> \in Seq(T)
      OBVIOUS
    <2> HIDE DEF b
    <2>2. b = <<>> \o b /\ b \o <<>> = b
      BY <2>1, ConcatEmptySeq
    <2>3. Append(<<>>, Raw("&")) = b
      BY <2>1, <2>2, AppendIsConcat DEF b
    <2> QED
      BY <2>1, <2>2, <2>3
  <1>2. e \in Seq(A) /\ <<>> \in A
    <2>1. <<>> \in A
      OBVIOUS
    <2> HIDE DEF A
    <2> QED
      BY <2>1
  <1>3. \A x \in Seq(T) : Pairs(x) \in Seq(A) /\ Pairs(x) # <<>>
    BY PairsEquations, Zenon DEF Parts
  <1>4. <<>> \in S
    <2>1. Pairs(b) = PairStep(e, Raw("&"))
      BY <1>1, PairsEquations, Zenon
    <2>2. PairStep(e, Raw("&")) = Append(e, <<>>)
      BY Zenon DEF PairStep
    <2> HIDE DEF A, e
    <2>3. Append(e, <<>>) = e \o <<<<>>>>
      BY <1>2, AppendIsConcat
    <2> QED
      BY <1>1, <2>1, <2>2, <2>3, PairsEquations, Zenon DEF e
  <1>5. ASSUME NEW x \in Seq(T), NEW c \in T, x \in S PROVE Append(x, c) \in S
    <2> HIDE DEF b, A, e
    <2>1. b \o Append(x, c) = Append(b \o x, c) /\ b \o x \in Seq(T) /\ Append(x, c) \in Seq(T)
      BY <1>1, ConcatLast, ConcatProperties, AppendProperties
    <2>2. Pairs(Append(b \o x, c)) = PairStep(Pairs(b \o x), c)
      BY <2>1, PairsEquations, Zenon
    <2>3. Pairs(b \o x) = e \o Pairs(x)
      BY <1>5, Zenon DEF e
    <2>4. PICK ps \in Seq(A) : ps = Pairs(x) /\ ps # <<>>
      BY <1>3, Zenon
    <2>5. PairStep(e \o ps, c) = e \o PairStep(ps, c)
      <3>1. CASE c = Raw("&")
        <4>1. e \o Append(ps, <<>>) = Append(e \o ps, <<>>)
          BY <1>2, ConcatLast
        <4> QED
          BY <3>1, <4>1, Zenon DEF PairStep
      <3>2. CASE c # Raw("&")
        <4>1. ps[Len(ps)] \in A
          <5>1. Len(ps) \in 1 .. Len(ps)
            BY <2>4, SeqFacts
          <5> QED
            BY <5>1, SeqFacts, Zenon
        <4>2. c \in T \ {Raw("&")}
          BY <3>2
        <4>3. PICK y \in A : y = Append(ps[Len(ps)], c)
          BY <4>1, <4>2, AppendProperties, Zenon DEF A
        <4>4. /\ (e \o ps)[Len(e \o ps)] = ps[Len(ps)]
              /\ LastSet(e \o ps, y) = e \o LastSet(ps, y)
          <5>1. SameLast(e, ps, y)
            BY <1>2, <2>4, ConcatExcept, Zenon
          <5> QED
            BY <5>1, Zenon DEF SameLast
        <4> QED
          BY <3>2, <4>3, <4>4, Zenon DEF PairStep, LastSet
      <3> QED
        BY <3>1, <3>2
    <2>6. Pairs(Append(x, c)) = PairStep(ps, c)
      BY <2>4, PairsEquations, Zenon
    <2> QED
      BY <2>1, <2>2, <2>3, <2>4, <2>5, <2>6, Zenon DEF e
  <1>6. \A x \in Seq(T) : x \in S
    <2> HIDE DEF S
    <2> QED
      BY <1>4, <1>5, SeqInduct, Zenon
  <1> QED
    BY <1>6, Zenon
-----------------------------------------------------------------------------
(* A query made of its parts.                                                *)

Joined(pairs) ==
  LET joined[i \in 0 .. Len(pairs)] ==
        IF i = 0 THEN <<>> ELSE joined[i - 1] \o <<Raw("&")>> \o pairs[i]
  IN  joined[Len(pairs)]

JoinFold(T) == [x \in Seq(T) \X Seq(T) |-> (x[1] \o <<Raw("&")>>) \o x[2]]

LEMMA JoinFoldIs ==
  ASSUME NEW T, Raw("&") \in T
  PROVE  /\ JoinFold(T) \in [Seq(T) \X Seq(T) -> Seq(T)]
         /\ \A v, p \in Seq(T) : JoinFold(T)[<<v, p>>] = (v \o <<Raw("&")>>) \o p
  <1>1. \A v, p \in Seq(T) : (v \o <<Raw("&")>>) \o p \in Seq(T)
    <2> TAKE v, p \in Seq(T)
    <2>1. <<Raw("&")>> \in Seq(T)
      OBVIOUS
    <2>2. PICK b \in Seq(T) : b = v \o <<Raw("&")>>
      BY <2>1, ConcatProperties
    <2>3. b \o p \in Seq(T)
      BY ConcatProperties
    <2> QED
      BY <2>2, <2>3, Zenon
  <1>2. \A x \in Seq(T) \X Seq(T) : x[1] \in Seq(T) /\ x[2] \in Seq(T)
    OBVIOUS
  <1>3. JoinFold(T) \in [Seq(T) \X Seq(T) -> Seq(T)]
    BY <1>1, <1>2, Zenon DEF JoinFold
  <1>4. ASSUME NEW v \in Seq(T), NEW p \in Seq(T)
        PROVE  JoinFold(T)[<<v, p>>] = (v \o <<Raw("&")>>) \o p
    <2>1. <<v, p>> \in Seq(T) \X Seq(T) /\ <<v, p>>[1] = v /\ <<v, p>>[2] = p
      OBVIOUS
    <2> QED
      BY <2>1, Zenon DEF JoinFold
  <1> QED
    BY <1>3, <1>4, Zenon

LEMMA JoinedFold ==
  ASSUME NEW T, Raw("&") \in T, NEW q \in Seq(Seq(T))
  PROVE  \E f : f[Len(q)] \in Seq(T) /\ Folds(f, q, <<>>, JoinFold(T)) /\ Joined(q) = f[Len(q)]
  <1> DEFINE n == Len(q)
             D(g) == g = [i \in 0 .. n |-> IF i = 0 THEN <<>> ELSE (g[i - 1] \o <<Raw("&")>>) \o q[i]]
             p == CHOOSE g : D(g)
             F == JoinFold(T)
             V == Seq(T)
  <1>1. n \in Nat /\ \A i \in 1 .. n : q[i] \in V
    BY SeqFacts
  <1>2. <<>> \in V /\ F \in [V \X V -> V]
    <2>1. <<>> \in V
      OBVIOUS
    <2>2. F \in [V \X V -> V]
      BY JoinFoldIs, Zenon
    <2> QED
      BY <2>1, <2>2, Zenon
  <1>3. PICK f \in [0 .. n -> V] : Folds(f, q, <<>>, F)
    <2> HIDE DEF F, V
    <2> QED
      BY <1>2, FoldExists, Zenon DEF V
  <1> HIDE DEF n
  <1>4. \A i \in 0 .. n : i = 0 \/ (i # 0 /\ i \in 1 .. n /\ i - 1 \in 0 .. n)
    BY <1>1
  <1>40. \A i \in 1 .. n : i # 0 /\ i \in 0 .. n /\ i - 1 \in 0 .. n
    BY <1>1
  <1>41. 0 \in 0 .. n /\ n \in 0 .. n
    BY <1>1
  <1>5. D(f)
    <2>1. \A i \in 0 .. n : f[i] = IF i = 0 THEN <<>> ELSE (f[i - 1] \o <<Raw("&")>>) \o q[i]
      <3> TAKE i \in 0 .. n
      <3>1. CASE i = 0
        BY <1>3, <3>1, Zenon DEF Folds
      <3>2. CASE i # 0
        <4>1. i \in 1 .. n /\ i - 1 \in 0 .. n
          BY <1>4, <3>2, Zenon
        <4>2. f[i] = F[<<f[i - 1], q[i]>>]
          BY <1>3, <4>1, Zenon DEF Folds, n
        <4>3. f[i - 1] \in V /\ q[i] \in V
          BY <1>1, <1>3, <4>1, Zenon
        <4> QED
          BY <3>2, <4>2, <4>3, JoinFoldIs, Zenon
      <3> QED
        BY <3>1, <3>2
    <2>2. f = [i \in 0 .. n |-> f[i]]
      BY <1>3, Zenon
    <2> QED
      BY <2>1, <2>2, Zenon
  <1>6. D(p)
    <2> HIDE DEF D
    <2> QED
      BY <1>5, Zenon
  <1>8. Joined(q) = p[n]
    BY Zenon DEF Joined, n
  <1> HIDE DEF p
  <1>9. \A i \in 0 .. n : p[i] = IF i = 0 THEN <<>> ELSE (p[i - 1] \o <<Raw("&")>>) \o q[i]
    BY <1>6, Zenon
  <1>10. p[0] = <<>>
    BY <1>9, <1>41, Zenon
  <1>11. ASSUME NEW i \in 1 .. n, p[i - 1] \in V PROVE p[i] = F[<<p[i - 1], q[i]>>]
    <2> HIDE DEF D
    <2>1. p[i] = (p[i - 1] \o <<Raw("&")>>) \o q[i]
      BY <1>9, <1>40, Zenon
    <2>2. q[i] \in V
      BY <1>1
    <2> QED
      BY <1>11, <2>1, <2>2, JoinFoldIs, Zenon
  <1> HIDE DEF D, F
  <1>12. Folds(p, q, <<>>, F) /\ p[n] \in V
    <2>2. \A i \in 1 .. Len(q) : p[i - 1] \in V => p[i] = F[<<p[i - 1], q[i]>>]
      BY <1>11, Zenon DEF n
    <2>3. PICK v \in V : v = <<>>
      BY <1>2
    <2>4. p[0] = v
      BY <1>10, <2>3, Zenon
    <2>5. Folds(p, q, v, F)
      BY <1>2, <2>2, <2>4, FoldTyped, Zenon
    <2>6. p[Len(q)] \in V
      BY <1>2, <2>5, FoldValue, Zenon
    <2> QED
      BY <2>3, <2>5, <2>6, Zenon DEF n
  <1> QED
    BY <1>8, <1>12, Zenon DEF n, F

LEMMA JoinedEquations ==
  ASSUME NEW T, Raw("&") \in T
  PROVE  /\ Joined(<<>>) = <<>>
         /\ \A ps \in Seq(Seq(T)) : Joined(ps) \in Seq(T)
         /\ \A ps \in Seq(Seq(T)) : \A p \in Seq(T) : Joined(Append(ps, p)) = (Joined(ps) \o <<Raw("&")>>) \o p
  <1>1. Joined(<<>>) = <<>>
    <2>1. <<>> \in Seq(Seq(T)) /\ Len(<<>>) = 0
      OBVIOUS
    <2>2. PICK f : Folds(f, <<>>, <<>>, JoinFold(T)) /\ Joined(<<>>) = f[0]
      BY <2>1, JoinedFold, Zenon
    <2> QED
      BY <2>2, Zenon DEF Folds
  <1>2. \A ps \in Seq(Seq(T)) : Joined(ps) \in Seq(T)
    BY JoinedFold, Zenon
  <1>3. ASSUME NEW q \in Seq(Seq(T)), NEW t \in Seq(T)
        PROVE  Joined(Append(q, t)) = (Joined(q) \o <<Raw("&")>>) \o t
    <2>1. PICK f : Folds(f, q, <<>>, JoinFold(T)) /\ Joined(q) = f[Len(q)]
      BY JoinedFold, Zenon
    <2>2. Append(q, t) \in Seq(Seq(T))
      BY AppendProperties
    <2>3. PICK g : Folds(g, Append(q, t), <<>>, JoinFold(T)) /\ Joined(Append(q, t)) = g[Len(Append(q, t))]
      BY <2>2, JoinedFold, Zenon
    <2>4. <<>> \in Seq(T) /\ JoinFold(T) \in [Seq(T) \X Seq(T) -> Seq(T)]
      <3>1. <<>> \in Seq(T)
        OBVIOUS
      <3> QED
        BY <3>1, JoinFoldIs, Zenon
    <2>7. FoldGoesOn(f, g, q, t, JoinFold(T))
      BY <2>1, <2>3, <2>4, FoldFacts, Zenon
    <2>8. Joined(q) \in Seq(T)
      BY <1>2
    <2>9. JoinFold(T)[<<Joined(q), t>>] = (Joined(q) \o <<Raw("&")>>) \o t
      BY <2>8, JoinFoldIs, Zenon
    <2> QED
      BY <2>1, <2>3, <2>7, <2>9, Zenon DEF FoldGoesOn
  <1> QED
    BY <1>1, <1>2, <1>3, Zenon

LEMMA OneFacts ==
  ASSUME NEW A, NEW e \in A
  PROVE  <<e>> \in Seq(A) /\ Len(<<e>>) = 1
  OBVIOUS

LEMMA FrontCancels ==
  ASSUME NEW A, NEW e \in A, NEW s \in Seq(A), NEW t \in Seq(A), <<e>> \o s = <<e>> \o t
  PROVE  s = t
  <1>1. PICK b \in Seq(A) : b = <<e>> /\ Len(b) = 1
    BY OneFacts, Zenon
  <1>2. /\ Len(s) \in Nat /\ Len(t) \in Nat
        /\ Len(b \o s) = 1 + Len(s) /\ \A j \in 1 .. Len(s) : (b \o s)[1 + j] = s[j]
    <2>1. Len(b \o s) = Len(b) + Len(s) /\ \A j \in 1 .. Len(s) : (b \o s)[Len(b) + j] = s[j]
      BY ConcatFacts
    <2>2. Len(s) \in Nat /\ Len(t) \in Nat
      BY SeqFacts
    <2> QED
      BY <1>1, <2>1, <2>2, Zenon
  <1>3. Len(b \o t) = 1 + Len(t) /\ \A j \in 1 .. Len(t) : (b \o t)[1 + j] = t[j]
    <2>1. Len(b \o t) = Len(b) + Len(t) /\ \A j \in 1 .. Len(t) : (b \o t)[Len(b) + j] = t[j]
      BY ConcatFacts
    <2> QED
      BY <1>1, <2>1, Zenon
  <1>4. 1 + Len(s) = 1 + Len(t) /\ \A j : (b \o s)[1 + j] = (b \o t)[1 + j]
    BY <1>1, <1>2, <1>3, Zenon
  <1>5. Len(s) = Len(t)
    BY <1>2, <1>4
  <1> QED
    BY <1>2, <1>3, <1>4, <1>5, SeqEqual, Zenon

LEMMA PairsSingle ==
  ASSUME NEW T, Raw("&") \in T, NEW p \in Seq(T \ {Raw("&")})
  PROVE  Pairs(p) = <<p>>
  <1> DEFINE A == Seq(T \ {Raw("&")})
             b == <<Raw("&")>>
             e == <<>>
  <1>1. p \in Seq(T) /\ e \in Seq(T) /\ b \in Seq(T) /\ e \in A
    <2>1. T \ {Raw("&")} \subseteq T /\ e \in Seq(T) /\ b \in Seq(T) /\ e \in A
      OBVIOUS
    <2>2. p \in Seq(T)
      BY <2>1, SeqMonotonic, Zenon
    <2> QED
      BY <2>1, <2>2
  <1> HIDE DEF b, A
  <1>2. e \o b = b
    BY <1>1, ConcatEmptySeq
  <1>3. Pairs((e \o b) \o p) = Append(Pairs(e), p)
    BY <1>1, PairsJoin, Zenon DEF b
  <1>4. Pairs(b \o p) = <<e>> \o Pairs(p)
    BY <1>1, PairsFront, Zenon DEF b
  <1>5. Append(Pairs(e), p) = Append(<<e>>, p)
    BY PairsEquations, Zenon
  <1> HIDE DEF e
  <1>6. p \in A /\ Pairs(p) \in Seq(A)
    BY <1>1, PairsEquations, Zenon DEF Parts, A
  <1>7. <<e>> \in Seq(A) /\ <<p>> \in Seq(A)
    BY <1>1, <1>6
  <1>8. Append(<<e>>, p) = <<e>> \o <<p>>
    BY <1>6, <1>7, AppendIsConcat, Zenon
  <1>9. <<e>> \o Pairs(p) = <<e>> \o <<p>>
    BY <1>2, <1>3, <1>4, <1>5, <1>8, Zenon
  <1> QED
    BY <1>1, <1>6, <1>7, <1>9, FrontCancels, Zenon

Associates(A) == \A s, t, u \in Seq(A) : (s \o t) \o u = s \o (t \o u)

LEMMA Associative ==
  ASSUME NEW A
  PROVE  Associates(A) /\ \A s, t \in Seq(A) : s \o t \in Seq(A)
  <1>1. ASSUME NEW s \in Seq(A), NEW t \in Seq(A), NEW u \in Seq(A) PROVE (s \o t) \o u = s \o (t \o u)
    BY ConcatAssociative
  <1>2. ASSUME NEW s \in Seq(A), NEW t \in Seq(A) PROVE s \o t \in Seq(A)
    BY ConcatProperties
  <1> QED
    BY <1>1, <1>2 DEF Associates

\* Query and Pairs are inverse: parts joined with "&" are those that are split again.
LEMMA QueryFacts ==
  ASSUME NEW T, Raw("&") \in T, NEW ps \in Seq(Seq(T \ {Raw("&")})), ps # <<>>
  PROVE  Query(ps) \in Seq(T) /\ Pairs(Query(ps)) = ps
  <1> DEFINE A == Seq(T \ {Raw("&")})
             b == <<Raw("&")>>
             e == <<>>
             S == {x \in Seq(A) : /\ Pairs(Joined(x)) = <<e>> \o x
                                  /\ x = <<>> \/ \E q \in Seq(T) : Joined(x) = b \o q}
  <1>1. /\ A \subseteq Seq(T) /\ Seq(A) \subseteq Seq(Seq(T))
        /\ b \in Seq(T) /\ e \in A /\ <<e>> \in Seq(A) /\ <<>> \in Seq(A)
    <2>1. T \ {Raw("&")} \subseteq T
      OBVIOUS
    <2>2. A \subseteq Seq(T)
      BY <2>1, SeqMonotonic, Zenon
    <2>3. b \in Seq(T) /\ e \in A
      OBVIOUS
    <2> HIDE DEF A
    <2>4. Seq(A) \subseteq Seq(Seq(T))
      BY <2>2, SeqMonotonic, Zenon
    <2>5. <<e>> \in Seq(A) /\ <<>> \in Seq(A)
      BY <2>3
    <2> QED
      BY <2>2, <2>3, <2>4, <2>5, Zenon
  <1> HIDE DEF A, b
  <1>2. <<>> \in S
    <2>1. <<e>> \o <<>> = <<e>>
      BY <1>1, ConcatEmptySeq
    <2>2. Pairs(Joined(<<>>)) = <<e>>
      BY JoinedEquations, PairsEquations, Zenon
    <2> QED
      BY <1>1, <2>1, <2>2, Zenon
  <1>3. ASSUME NEW x \in Seq(A), NEW p \in A, x \in S PROVE Append(x, p) \in S
    <2> HIDE DEF e
    <2>1. Append(x, p) \in Seq(A)
      BY AppendProperties
    <2>2. x \in Seq(Seq(T)) /\ p \in Seq(T)
      BY <1>1
    <2>3. Joined(Append(x, p)) = (Joined(x) \o b) \o p /\ Joined(x) \in Seq(T)
      BY <2>2, JoinedEquations, Zenon DEF b
    <2>4. Pairs((Joined(x) \o b) \o p) = Append(Pairs(Joined(x)), p)
      BY <2>3, PairsJoin, Zenon DEF A, b
    <2>5. <<e>> \o Append(x, p) = Append(<<e>> \o x, p)
      <3>1. PICK d \in Seq(A) : d = <<e>>
        BY <1>1, Zenon
      <3>2. d \o Append(x, p) = Append(d \o x, p)
        BY ConcatLast
      <3> QED
        BY <3>1, <3>2, Zenon
    <2>6. Pairs(Joined(x)) = <<e>> \o x
      BY <1>3
    <2>7. Pairs(Joined(Append(x, p))) = <<e>> \o Append(x, p)
      BY <2>3, <2>4, <2>5, <2>6, Zenon
    <2>8. \E q \in Seq(T) : Joined(Append(x, p)) = b \o q
      <3>1. CASE x = <<>>
        <4>1. Joined(x) = <<>>
          BY <3>1, JoinedEquations, Zenon
        <4>2. <<>> \o b = b
          BY <1>1, ConcatEmptySeq
        <4> QED
          BY <4>1, <4>2, <2>2, <2>3, Zenon
      <3>2. CASE x # <<>>
        <4>1. PICK q \in Seq(T) : Joined(x) = b \o q
          BY <3>2, <1>3, Zenon
        <4>2. ((b \o q) \o b) \o p = b \o ((q \o b) \o p) /\ (q \o b) \o p \in Seq(T)
          <5>0. PICK c \in Seq(T), y \in Seq(T) : c = b /\ y = p
            BY <1>1, <2>2, Zenon
          <5>1. PICK d \in Seq(T) : d = q \o c
            BY ConcatProperties
          <5>2. (c \o q) \o c = c \o (q \o c)
            BY ConcatAssociative
          <5>3. d \o y \in Seq(T)
            BY Associative, Zenon
          <5>4. (c \o d) \o y = c \o (d \o y)
            <6>1. Associates(T)
              BY Associative, Zenon
            <6> QED
              BY <6>1 DEF Associates
          <5> QED
            BY <5>0, <5>1, <5>2, <5>3, <5>4, Zenon
        <4> QED
          BY <4>1, <4>2, <2>3, Zenon
      <3> QED
        BY <3>1, <3>2
    <2> QED
      BY <2>1, <2>7, <2>8, Zenon
  <1>4. ps \in S
    <2> HIDE DEF S
    <2>1. \A x \in Seq(A) : x \in S
      BY <1>2, <1>3, SeqInduct, Zenon
    <2> QED
      BY <2>1, Zenon DEF A
  <1>5. PICK q \in Seq(T) : Joined(ps) = b \o q
    BY <1>4, Zenon
  <1>6. Query(ps) = Tail(Joined(ps))
    BY Zenon DEF Query, Joined
  <1>7. Tail(b \o q) = q
    <2>1. PICK a \in T : a = Raw("&")
      OBVIOUS
    <2>2. Tail(<<a>> \o q) = q
      OBVIOUS
    <2> QED
      BY <2>1, <2>2, Zenon DEF b
  <1>8. Query(ps) = q
    BY <1>5, <1>6, <1>7, Zenon
  <1>9. <<e>> \o Pairs(q) = <<e>> \o ps
    <2>1. Pairs(b \o q) = <<e>> \o Pairs(q)
      BY PairsFront, Zenon DEF b
    <2> QED
      BY <2>1, <1>4, <1>5, Zenon
  <1>10. Pairs(q) \in Seq(A) /\ ps \in Seq(A)
    BY PairsEquations, Zenon DEF Parts, A
  <1>11. Pairs(q) = ps
    <2> HIDE DEF e
    <2> QED
      BY <1>1, <1>9, <1>10, FrontCancels, Zenon
  <1> QED
    BY <1>8, <1>11, Zenon
-----------------------------------------------------------------------------
(* The key and the value of a parameter.                                     *)

LEMMA CutAt ==
  ASSUME NEW A, NEW s \in Seq(A), NEW e, e \in ToSet(s)
  PROVE  LET m == Min({i \in DOMAIN s : s[i] = e})
         IN  m \in 1 .. Len(s) /\ s[m] = e /\ \A j \in 1 .. Len(s) : s[j] = e => m <= j
  <1> DEFINE S == {i \in DOMAIN s : s[i] = e}
             m == Min(S)
  <1>1. Len(s) \in Nat /\ DOMAIN s = 1 .. Len(s) /\ \E i \in 1 .. Len(s) : s[i] = e
    BY SeqFacts
  <1>2. S \subseteq Nat /\ S # {}
    BY <1>1
  <1> HIDE DEF S
  <1>3. Min(S) \in S /\ \A k \in S : Min(S) <= k
    BY <1>2, MinFacts
  <1> QED
    BY <1>1, <1>3, Zenon DEF S

LEMMA CutFirst ==
  ASSUME NEW A, NEW s \in Seq(A), NEW e \in A, NEW k \in A, k # e, Len(s) >= 2, s[1] = k, s[2] = e
  PROVE  e \in ToSet(s) /\ Min({i \in DOMAIN s : s[i] = e}) = 2
  <1>1. Len(s) \in Nat /\ 1 \in 1 .. Len(s) /\ 2 \in 1 .. Len(s)
    BY SeqFacts
  <1>2. e \in ToSet(s)
    BY <1>1, SeqFacts
  <1> DEFINE m == Min({i \in DOMAIN s : s[i] = e})
  <1>3. m \in 1 .. Len(s) /\ s[m] = e /\ \A j \in 1 .. Len(s) : s[j] = e => m <= j
    BY <1>2, CutAt
  <1> HIDE DEF m
  <1>4. m <= 2 /\ m # 1
    BY <1>1, <1>3
  <1>5. m = 2
    BY <1>1, <1>3, <1>4
  <1> QED
    BY <1>2, <1>5 DEF m

LEMMA CutKey ==
  ASSUME NEW A, NEW s \in Seq(A), NEW e \in A, NEW k \in A, e \in ToSet(s),
         SubSeq(s, 1, Min({i \in DOMAIN s : s[i] = e}) - 1) = <<k>>
  PROVE  Len(s) >= 2 /\ s[1] = k /\ s[2] = e
  <1> DEFINE m == Min({i \in DOMAIN s : s[i] = e})
             u == SubSeq(s, 1, m - 1)
  <1>1. m \in 1 .. Len(s) /\ s[m] = e
    BY CutAt
  <1>2. u = <<k>>
    OBVIOUS
  <1>3. Len(s) \in Nat
    BY SeqFacts
  <1> HIDE DEF m
  <1>4. m - 1 \in 1 - 1 .. Len(s)
    BY <1>1, <1>3
  <1>5. Len(u) = (m - 1) - 1 + 1 /\ \A j \in 1 .. (m - 1) - 1 + 1 : u[j] = s[1 + j - 1]
    BY <1>4, PartFacts
  <1> HIDE DEF u
  <1>6. Len(u) = 1 /\ u[1] = k
    BY <1>2
  <1>7. m = 2
    <2>1. PICK n \in Nat : n = Len(u)
      BY <1>6
    <2>2. n = 1 /\ n = (m - 1) - 1 + 1 /\ m \in 1 .. Len(s) /\ Len(s) \in Nat
      BY <1>1, <1>3, <1>5, <1>6, <2>1, Zenon
    <2> QED
      BY <2>2
  <1> QED
    BY <1>1, <1>3, <1>5, <1>6, <1>7

LEMMA FirstTwo ==
  ASSUME NEW A, NEW s \in Seq(A), NEW e \in A, NEW k \in A, Len(s) >= 2
  PROVE  SubSeq(s, 1, 2) = <<k, e>> <=> s[1] = k /\ s[2] = e
  <1> DEFINE u == SubSeq(s, 1, 2)
  <1>1. Len(s) \in Nat
    BY SeqFacts
  <1>2. 2 \in 1 - 1 .. Len(s)
    BY <1>1
  <1>3. u \in Seq(A) /\ Len(u) = 2 - 1 + 1 /\ \A j \in 1 .. 2 - 1 + 1 : u[j] = s[1 + j - 1]
    BY <1>2, PartFacts
  <1> HIDE DEF u
  <1>4. Len(u) = 2 /\ u[1] = s[1] /\ u[2] = s[2]
    BY <1>3
  <1>5. u = <<k, e>> <=> u[1] = k /\ u[2] = e
    BY <1>3, <1>4
  <1> QED
    BY <1>4, <1>5 DEF u

LEMMA RawFacts ==
  /\ \A c : Raw(c).char = c /\ Escaped(c).char = c
  /\ \A c \in UriCharacter : Raw(c) \in Token /\ Escaped(c) \in Token
  /\ \A c, d : Raw(c) = Raw(d) => c = d
  /\ \A c, d : Raw(c) # Escaped(d)
  BY DEF Raw, Escaped, Token

LEMMA KeyNames ==
  /\ Keys \subseteq UriCharacter /\ "=" \in UriCharacter /\ "&" \in UriCharacter
  /\ \A k \in Keys : k # "="
  BY DEF Keys, UriCharacter, Unreserved, SubDelims

\* The parameter of a key begins with the key and the equals sign.
Begins(p, k) == Len(p) >= 2 /\ p[1] = Raw(k) /\ p[2] = Raw("=")

\* KeyOf and ValueOf of a parameter that begins with a key.
LEMMA KeyFacts ==
  ASSUME NEW p \in Seq(Token), NEW k \in Keys
  PROVE  /\ Begins(p, k) => /\ Raw("=") \in ToSet(p) /\ KeyOf(p) = <<Raw(k)>>
                            /\ ValueOf(p) = SubSeq(p, 3, Len(p))
         /\ Raw("=") \in ToSet(p) /\ KeyOf(p) = <<Raw(k)>> => Begins(p, k)
  <1>1. PICK e \in Token : e = Raw("=")
    BY RawFacts, KeyNames, Zenon
  <1>2. PICK a \in Token : a = Raw(k)
    BY RawFacts, KeyNames, Zenon
  <1>3. a # e
    BY <1>1, <1>2, RawFacts, KeyNames, Zenon
  <1> DEFINE m == Min({i \in DOMAIN p : p[i] = e})
  <1>4. ASSUME Len(p) >= 2, p[1] = a, p[2] = e
        PROVE  e \in ToSet(p) /\ SubSeq(p, 1, m - 1) = <<a>> /\ SubSeq(p, m + 1, Len(p)) = SubSeq(p, 3, Len(p))
    <2>1. e \in ToSet(p) /\ m = 2
      BY <1>3, <1>4, CutFirst
    <2> HIDE DEF m
    <2>2. m - 1 = 1 /\ m + 1 = 3
      BY <2>1
    <2>3. SubSeq(p, 1, 1) = <<a>>
      <3>1. Len(p) \in Nat
        BY SeqFacts
      <3>2. 1 \in 1 - 1 .. Len(p)
        BY <3>1, <1>4
      <3>3. /\ SubSeq(p, 1, 1) \in Seq(Token) /\ Len(SubSeq(p, 1, 1)) = 1 - 1 + 1
            /\ \A j \in 1 .. 1 - 1 + 1 : SubSeq(p, 1, 1)[j] = p[1 + j - 1]
        BY <3>2, PartFacts
      <3> DEFINE u == SubSeq(p, 1, 1)
      <3>4. u \in Seq(Token) /\ Len(u) = 1 /\ u[1] = a
        BY <3>3, <1>4
      <3> HIDE DEF u
      <3>5. u = <<a>>
        BY <3>4
      <3> QED
        BY <3>5 DEF u
    <2> QED
      BY <2>1, <2>2, <2>3, Zenon
  <1>5. ASSUME e \in ToSet(p), SubSeq(p, 1, m - 1) = <<a>>
        PROVE  Len(p) >= 2 /\ p[1] = a /\ p[2] = e
    BY <1>5, CutKey
  <1>6. KeyOf(p) = SubSeq(p, 1, m - 1) /\ ValueOf(p) = SubSeq(p, m + 1, Len(p))
    BY <1>1, Zenon DEF KeyOf, ValueOf
  <1> QED
    BY <1>1, <1>2, <1>4, <1>5, <1>6, Zenon DEF Begins

\* Sets, by how the part begins.
LEMMA SetsFacts ==
  ASSUME NEW p \in Seq(Token), NEW k \in Keys
  PROVE  Sets(p, k) <=> /\ Begins(p, k) /\ Decodable(SubSeq(p, 3, Len(p)))
                        /\ Valid(k, Chars(SubSeq(p, 3, Len(p)))) # {}
  <1>1. PICK e \in Token : e = Raw("=")
    BY RawFacts, KeyNames, Zenon
  <1>2. PICK a \in Token : a = Raw(k)
    BY RawFacts, KeyNames, Zenon
  <1>3. Len(p) >= 2 => (SubSeq(p, 1, 2) = <<a, e>> <=> p[1] = a /\ p[2] = e)
    BY FirstTwo
  <1> QED
    BY <1>1, <1>2, <1>3, Zenon DEF Sets, Begins
-----------------------------------------------------------------------------
(* One turn of the loop over the parameters.                                 *)

Values == UNION {Valid(x[1], x[2]) : x \in Keys \X Seq(UriCharacter)}
ReadState == [result : {"Ok", "query"} \cup Keys, values : [Keys -> SUBSET Values]]

\* The value that a part gives to its key.
Value(p, k) == Valid(k, Chars(SubSeq(p, 3, Len(p))))

LEMMA CharsFacts ==
  ASSUME NEW s \in Seq(Token)
  PROVE  /\ Chars(s) \in Seq(UriCharacter) /\ Len(Chars(s)) = Len(s)
         /\ \A i \in 1 .. Len(s) : Chars(s)[i] = s[i].char
  <1>1. Len(s) \in Nat /\ DOMAIN s = 1 .. Len(s) /\ \A i \in 1 .. Len(s) : s[i] \in Token
    BY SeqFacts
  <1>2. \A t \in Token : t.char \in UriCharacter
    BY DEF Token
  <1>3. Chars(s) = [i \in 1 .. Len(s) |-> s[i].char]
    BY <1>1, Zenon DEF Chars
  <1>4. \A i \in 1 .. Len(s) : s[i].char \in UriCharacter
    BY <1>1, <1>2, Zenon
  <1> HIDE DEF Chars
  <1> QED
    BY <1>1, <1>3, <1>4

LEMMA ValueTyped ==
  ASSUME NEW k \in Keys, NEW s \in Seq(Token)
  PROVE  Valid(k, Chars(s)) \in SUBSET Values
  <1>1. Chars(s) \in Seq(UriCharacter)
    BY CharsFacts
  <1>2. <<k, Chars(s)>> \in Keys \X Seq(UriCharacter) /\ <<k, Chars(s)>>[1] = k /\ <<k, Chars(s)>>[2] = Chars(s)
    BY <1>1
  <1> QED
    BY <1>2, Zenon DEF Values

LEMMA ValuePart ==
  ASSUME NEW p \in Seq(Token), Len(p) >= 2
  PROVE  SubSeq(p, 3, Len(p)) \in Seq(Token)
  <1>1. Len(p) \in Nat
    BY SeqFacts
  <1>2. Len(p) \in 3 - 1 .. Len(p)
    BY <1>1
  <1> QED
    BY <1>2, PartFacts

LEMMA BeginsOnce ==
  ASSUME NEW p, NEW j, NEW k, Begins(p, j), Begins(p, k)
  PROVE  j = k
  BY RawFacts, Zenon DEF Begins

\* Read, for a parameter that begins with a key.
ReadParameter(st, p, k) ==
  IF ~Decodable(SubSeq(p, 3, Len(p))) THEN [st EXCEPT !.result = "query"]
  ELSE IF st.values[k] # {} \/ Value(p, k) = {} THEN [st EXCEPT !.result = k]
  ELSE [st EXCEPT !.values[k] = Value(p, k)]

LEMMA ReadKnown ==
  ASSUME NEW st, st.result = "Ok", NEW p \in Seq(Token), NEW k \in Keys, Begins(p, k)
  PROVE  Read(st, p) = ReadParameter(st, p, k)
  <1>1. /\ Raw("=") \in ToSet(p) /\ KeyOf(p) = <<Raw(k)>> /\ ValueOf(p) = SubSeq(p, 3, Len(p))
    BY KeyFacts, Zenon
  <1>2. p # <<>>
    <2>1. Len(<<>>) = 0
      OBVIOUS
    <2>2. ~(0 >= 2)
      OBVIOUS
    <2> QED
      BY <2>1, <2>2, Zenon DEF Begins
  <1>3. KeyOf(p)[1].char = k
    <2>1. <<Raw(k)>>[1] = Raw(k)
      OBVIOUS
    <2> QED
      BY <1>1, <2>1, RawFacts, Zenon
  <1>4. KeyOf(p) \in {<<Raw(key)>> : key \in Keys}
    BY <1>1, Zenon
  <1> HIDE DEF KeyOf, ValueOf
  <1>5. Read(st, p) = IF Raw("=") \notin ToSet(p) \/ ~Decodable(ValueOf(p))
                         \/ KeyOf(p) \notin {<<Raw(key)>> : key \in Keys}
                      THEN [st EXCEPT !.result = "query"]
                      ELSE IF st.values[KeyOf(p)[1].char] # {} \/ Valid(KeyOf(p)[1].char, Chars(ValueOf(p))) = {}
                           THEN [st EXCEPT !.result = KeyOf(p)[1].char]
                           ELSE [st EXCEPT !.values[KeyOf(p)[1].char] = Valid(KeyOf(p)[1].char, Chars(ValueOf(p)))]
    BY <1>2, Zenon DEF Read
  <1>6. CASE ~Decodable(SubSeq(p, 3, Len(p)))
    BY <1>1, <1>5, <1>6, Zenon DEF ReadParameter
  <1>7. CASE Decodable(SubSeq(p, 3, Len(p)))
    <2>1. Valid(KeyOf(p)[1].char, Chars(ValueOf(p))) = Value(p, k)
      BY <1>1, <1>3, Zenon DEF Value
    <2>2. Read(st, p) = IF st.values[KeyOf(p)[1].char] # {} \/ Valid(KeyOf(p)[1].char, Chars(ValueOf(p))) = {}
                        THEN [st EXCEPT !.result = KeyOf(p)[1].char]
                        ELSE [st EXCEPT !.values[KeyOf(p)[1].char] = Valid(KeyOf(p)[1].char, Chars(ValueOf(p)))]
      BY <1>1, <1>4, <1>5, <1>7, Zenon
    <2>3. Read(st, p) = IF st.values[k] # {} \/ Value(p, k) = {}
                        THEN [st EXCEPT !.result = k]
                        ELSE [st EXCEPT !.values[k] = Value(p, k)]
      BY <1>3, <2>1, <2>2, Zenon
    <2> QED
      BY <1>7, <2>3, Zenon DEF ReadParameter
  <1> QED
    BY <1>6, <1>7, Zenon

LEMMA ReadUnknown ==
  ASSUME NEW st, st.result = "Ok", NEW p \in Seq(Token), p # <<>>, \A k \in Keys : ~Begins(p, k)
  PROVE  Read(st, p) = [st EXCEPT !.result = "query"]
  <1>1. Raw("=") \notin ToSet(p) \/ KeyOf(p) \notin {<<Raw(key)>> : key \in Keys}
    BY KeyFacts, Zenon
  <1> QED
    BY <1>1, Zenon DEF Read

\* What a turn of the loop does: it passes over an empty part, takes the first
\* valid value of a key, and fails on anything else.
ReadsAs(st, p) ==
  /\ Read(st, p) \in ReadState
  /\ st.result # "Ok" \/ p = <<>> => Read(st, p) = st
  /\ \A k \in Keys : st.result = "Ok" /\ Sets(p, k) /\ st.values[k] = {} =>
       /\ Read(st, p).result = "Ok"
       /\ Read(st, p).values[k] = Value(p, k)
       /\ \A j \in Keys : j # k => Read(st, p).values[j] = st.values[j]
  /\ st.result = "Ok" /\ p # <<>> /\ (\A k \in Keys : Sets(p, k) => st.values[k] # {}) =>
       Read(st, p).result # "Ok"

Ended(st, r) == [st EXCEPT !.result = r]
Given(st, k, v) == [st EXCEPT !.values[k] = v]

LEMMA StateFacts ==
  ASSUME NEW st \in ReadState
  PROVE  /\ \A r \in {"query"} \cup Keys : Ended(st, r) \in ReadState /\ Ended(st, r).result # "Ok"
         /\ \A k \in Keys : \A v \in SUBSET Values :
              /\ Given(st, k, v) \in ReadState /\ Given(st, k, v).result = st.result
              /\ Given(st, k, v).values[k] = v
              /\ \A j \in Keys : j # k => Given(st, k, v).values[j] = st.values[j]
  <1>1. \A r \in {"query"} \cup Keys : r # "Ok"
    BY DEF Keys
  <1>2. st.result \in {"Ok", "query"} \cup Keys /\ st.values \in [Keys -> SUBSET Values]
    BY DEF ReadState
  <1> QED
    BY <1>1, <1>2 DEF ReadState, Ended, Given

\* Read does so.
LEMMA ReadIs ==
  ASSUME NEW st \in ReadState, NEW p \in Seq(Token)
  PROVE  ReadsAs(st, p)
  <1>1. CASE st.result # "Ok" \/ p = <<>>
    <2>1. Read(st, p) = st
      BY <1>1, Zenon DEF Read
    <2>2. p = <<>> => \A k \in Keys : ~Sets(p, k)
      <3>1. Len(<<>>) = 0 /\ ~(0 >= 2)
        OBVIOUS
      <3> QED
        BY <3>1, Zenon DEF Sets
    <2> QED
      BY <1>1, <2>1, <2>2, Zenon DEF ReadsAs
  <1>2. CASE st.result = "Ok" /\ p # <<>> /\ \A k \in Keys : ~Begins(p, k)
    <2>1. Read(st, p) = Ended(st, "query")
      BY <1>2, ReadUnknown, Zenon DEF Ended
    <2>2. Read(st, p) \in ReadState /\ Read(st, p).result # "Ok"
      <3>1. Ended(st, "query") \in ReadState /\ Ended(st, "query").result # "Ok"
        BY StateFacts
      <3> QED
        BY <2>1, <3>1, Zenon
    <2>3. \A k \in Keys : ~Sets(p, k)
      BY <1>2, SetsFacts, Zenon
    <2> QED
      BY <1>2, <2>2, <2>3, Zenon DEF ReadsAs
  <1>3. ASSUME st.result = "Ok", p # <<>>, NEW k \in Keys, Begins(p, k)
        PROVE  ReadsAs(st, p)
    <2>1. Read(st, p) = ReadParameter(st, p, k)
      BY <1>3, ReadKnown, Zenon
    <2>2. \A j \in Keys : Sets(p, j) => j = k
      BY <1>3, SetsFacts, BeginsOnce, Zenon
    <2>3. Sets(p, k) <=> Decodable(SubSeq(p, 3, Len(p))) /\ Value(p, k) # {}
      BY <1>3, SetsFacts, Zenon DEF Value
    <2>4. Value(p, k) \in SUBSET Values
      <3>1. SubSeq(p, 3, Len(p)) \in Seq(Token)
        BY <1>3, ValuePart, Zenon DEF Begins
      <3> QED
        BY <3>1, ValueTyped, Zenon DEF Value
    <2>5. CASE Sets(p, k) /\ st.values[k] = {}
      <3>1. Read(st, p) = Given(st, k, Value(p, k))
        BY <2>1, <2>3, <2>5, Zenon DEF ReadParameter, Given
      <3>2. /\ Read(st, p) \in ReadState /\ Read(st, p).result = st.result
            /\ Read(st, p).values[k] = Value(p, k)
            /\ \A j \in Keys : j # k => Read(st, p).values[j] = st.values[j]
        <4> DEFINE w == Value(p, k)
        <4> HIDE DEF w
        <4>1. PICK v \in SUBSET Values : v = w
          BY <2>4, Zenon DEF w
        <4>2. /\ Given(st, k, v) \in ReadState /\ Given(st, k, v).result = st.result
              /\ Given(st, k, v).values[k] = v
              /\ \A j \in Keys : j # k => Given(st, k, v).values[j] = st.values[j]
          BY StateFacts
        <4> QED
          BY <3>1, <4>1, <4>2, Zenon DEF w
      <3> QED
        BY <1>3, <2>2, <2>5, <3>2, Zenon DEF ReadsAs
    <2>6. CASE ~(Sets(p, k) /\ st.values[k] = {})
      <3>1. PICK r \in {"query"} \cup Keys : Read(st, p) = Ended(st, r)
        BY <1>3, <2>1, <2>3, <2>6, Zenon DEF ReadParameter, Ended
      <3>2. Read(st, p) \in ReadState /\ Read(st, p).result # "Ok"
        <4>1. Ended(st, r) \in ReadState /\ Ended(st, r).result # "Ok"
          BY StateFacts
        <4> QED
          BY <3>1, <4>1, Zenon
      <3> QED
        BY <1>3, <2>2, <2>6, <3>2, Zenon DEF ReadsAs
    <2> QED
      BY <2>5, <2>6, Zenon
  <1> QED
    BY <1>1, <1>2, <1>3, Zenon
-----------------------------------------------------------------------------
(* The loop over the parameters.                                             *)

Start == [result |-> "Ok", values |-> [key \in Keys |-> {}]]
ReadFold == [x \in ReadState \X Seq(Token) |-> Read(x[1], x[2])]

LEMMA ReadFoldIs ==
  /\ Start \in ReadState /\ ReadFold \in [ReadState \X Seq(Token) -> ReadState]
  /\ \A st \in ReadState : \A p \in Seq(Token) : ReadFold[<<st, p>>] = Read(st, p)
  <1>1. Start \in ReadState
    <2>1. {} \in SUBSET Values
      OBVIOUS
    <2> QED
      BY <2>1 DEF Start, ReadState
  <1>2. \A st \in ReadState : \A p \in Seq(Token) : Read(st, p) \in ReadState
    BY ReadIs, Zenon DEF ReadsAs
  <1>3. \A x \in ReadState \X Seq(Token) : x[1] \in ReadState /\ x[2] \in Seq(Token)
    OBVIOUS
  <1>4. ReadFold \in [ReadState \X Seq(Token) -> ReadState]
    BY <1>2, <1>3, Zenon DEF ReadFold
  <1>5. ASSUME NEW st \in ReadState, NEW p \in Seq(Token)
        PROVE  ReadFold[<<st, p>>] = Read(st, p)
    <2>1. <<st, p>> \in ReadState \X Seq(Token) /\ <<st, p>>[1] = st /\ <<st, p>>[2] = p
      OBVIOUS
    <2> QED
      BY <2>1, Zenon DEF ReadFold
  <1> QED
    BY <1>1, <1>4, <1>5, Zenon

LEMMA ReadAllFold ==
  ASSUME NEW q \in Seq(Seq(Token))
  PROVE  \E f : f[Len(q)] \in ReadState /\ Folds(f, q, Start, ReadFold) /\ ReadAll(q) = f[Len(q)]
  <1> DEFINE n == Len(q)
             D(g) == g = [i \in 0 .. n |-> IF i = 0 THEN Start ELSE Read(g[i - 1], q[i])]
             p == CHOOSE g : D(g)
             F == ReadFold
             V == ReadState
             A == Seq(Token)
  <1>1. n \in Nat /\ \A i \in 1 .. n : q[i] \in A
    BY SeqFacts
  <1>2. Start \in V /\ F \in [V \X A -> V]
    BY ReadFoldIs, Zenon
  <1>3. PICK f \in [0 .. n -> V] : Folds(f, q, Start, F)
    <2> HIDE DEF F, V, A
    <2> QED
      BY <1>2, FoldExists, Zenon DEF A
  <1> HIDE DEF n
  <1>4. \A i \in 0 .. n : i = 0 \/ (i # 0 /\ i \in 1 .. n /\ i - 1 \in 0 .. n)
    BY <1>1
  <1>40. \A i \in 1 .. n : i # 0 /\ i \in 0 .. n /\ i - 1 \in 0 .. n
    BY <1>1
  <1>41. 0 \in 0 .. n /\ n \in 0 .. n
    BY <1>1
  <1>5. D(f)
    <2>1. \A i \in 0 .. n : f[i] = IF i = 0 THEN Start ELSE Read(f[i - 1], q[i])
      <3> TAKE i \in 0 .. n
      <3>1. CASE i = 0
        BY <1>3, <3>1, Zenon DEF Folds
      <3>2. CASE i # 0
        <4>1. i \in 1 .. n /\ i - 1 \in 0 .. n
          BY <1>4, <3>2, Zenon
        <4>2. f[i] = F[<<f[i - 1], q[i]>>]
          BY <1>3, <4>1, Zenon DEF Folds, n
        <4>3. f[i - 1] \in V /\ q[i] \in A
          BY <1>1, <1>3, <4>1, Zenon
        <4> QED
          BY <3>2, <4>2, <4>3, ReadFoldIs, Zenon
      <3> QED
        BY <3>1, <3>2
    <2>2. f = [i \in 0 .. n |-> f[i]]
      BY <1>3, Zenon
    <2> QED
      BY <2>1, <2>2, Zenon
  <1>6. D(p)
    <2> HIDE DEF D
    <2> QED
      BY <1>5, Zenon
  <1>8. ReadAll(q) = p[n]
    BY Zenon DEF ReadAll, Start, n
  <1> HIDE DEF p
  <1>9. \A i \in 0 .. n : p[i] = IF i = 0 THEN Start ELSE Read(p[i - 1], q[i])
    BY <1>6, Zenon
  <1>10. p[0] = Start
    BY <1>9, <1>41, Zenon
  <1>11. ASSUME NEW i \in 1 .. n, p[i - 1] \in V PROVE p[i] = F[<<p[i - 1], q[i]>>]
    <2> HIDE DEF D
    <2>1. p[i] = Read(p[i - 1], q[i])
      BY <1>9, <1>40, Zenon
    <2>2. q[i] \in A
      BY <1>1
    <2> QED
      BY <1>11, <2>1, <2>2, ReadFoldIs, Zenon
  <1> HIDE DEF D, F
  <1>12. Folds(p, q, Start, F) /\ p[n] \in V
    <2>2. \A i \in 1 .. Len(q) : p[i - 1] \in V => p[i] = F[<<p[i - 1], q[i]>>]
      BY <1>11, Zenon DEF n
    <2>5. Folds(p, q, Start, F)
      BY <1>2, <1>10, <2>2, FoldTyped, Zenon
    <2>6. p[Len(q)] \in V
      BY <1>2, <2>5, FoldValue, Zenon
    <2> QED
      BY <2>5, <2>6, Zenon DEF n
  <1> QED
    BY <1>8, <1>12, Zenon DEF n, F

\* The loop, part by part.
LEMMA ReadAllEquations ==
  /\ ReadAll(<<>>) = Start
  /\ \A ps \in Seq(Seq(Token)) : ReadAll(ps) \in ReadState
  /\ \A ps \in Seq(Seq(Token)) : \A p \in Seq(Token) : ReadAll(Append(ps, p)) = Read(ReadAll(ps), p)
  <1>1. ReadAll(<<>>) = Start
    <2>1. <<>> \in Seq(Seq(Token)) /\ Len(<<>>) = 0
      OBVIOUS
    <2>2. PICK f : Folds(f, <<>>, Start, ReadFold) /\ ReadAll(<<>>) = f[0]
      BY <2>1, ReadAllFold, Zenon
    <2> QED
      BY <2>2, Zenon DEF Folds
  <1>2. \A ps \in Seq(Seq(Token)) : ReadAll(ps) \in ReadState
    BY ReadAllFold, Zenon
  <1>3. ASSUME NEW q \in Seq(Seq(Token)), NEW t \in Seq(Token)
        PROVE  ReadAll(Append(q, t)) = Read(ReadAll(q), t)
    <2>1. PICK f : Folds(f, q, Start, ReadFold) /\ ReadAll(q) = f[Len(q)]
      BY ReadAllFold, Zenon
    <2>2. Append(q, t) \in Seq(Seq(Token))
      BY AppendProperties
    <2>3. PICK g : Folds(g, Append(q, t), Start, ReadFold) /\ ReadAll(Append(q, t)) = g[Len(Append(q, t))]
      BY <2>2, ReadAllFold, Zenon
    <2>4. Start \in ReadState /\ ReadFold \in [ReadState \X Seq(Token) -> ReadState]
      BY ReadFoldIs, Zenon
    <2>7. FoldGoesOn(f, g, q, t, ReadFold)
      BY <2>1, <2>3, <2>4, FoldFacts, Zenon
    <2>8. ReadAll(q) \in ReadState
      BY <1>2
    <2>9. ReadFold[<<ReadAll(q), t>>] = Read(ReadAll(q), t)
      BY <2>8, ReadFoldIs, Zenon
    <2> QED
      BY <2>1, <2>3, <2>7, <2>9, Zenon DEF FoldGoesOn
  <1> QED
    BY <1>1, <1>2, <1>3, Zenon
-----------------------------------------------------------------------------
(* What the loop accepts, and what it has read in the end.                   *)

\* Every part is empty or sets a key, and no two set the same.
Fits(ps) ==
  /\ \A i \in 1 .. Len(ps) : ps[i] = <<>> \/ \E k \in Keys : Sets(ps[i], k)
  /\ \A i, j \in 1 .. Len(ps) : \A k \in Keys : Sets(ps[i], k) /\ Sets(ps[j], k) => i = j

\* The values are those that the parts set.
Holds(ps, v) ==
  \A k \in Keys :
    /\ \A i \in 1 .. Len(ps) : Sets(ps[i], k) => v[k] = Value(ps[i], k)
    /\ (\A i \in 1 .. Len(ps) : ~Sets(ps[i], k)) => v[k] = {}

\* The loop of from_uri ends well exactly on parts that fit, with their values.
ReadWell(ps) ==
  /\ ReadAll(ps).result = "Ok" <=> Fits(ps)
  /\ Fits(ps) => Holds(ps, ReadAll(ps).values)

LEMMA SetsOne ==
  /\ \A p, k : Sets(p, k) => Value(p, k) # {}
  /\ \A p \in Seq(Token) : \A j, k \in Keys : Sets(p, j) /\ Sets(p, k) => j = k
  /\ \A k : ~Sets(<<>>, k)
  <1>1. \A p, k : Sets(p, k) => Value(p, k) # {}
    BY Zenon DEF Sets, Value
  <1>2. \A p \in Seq(Token) : \A j, k \in Keys : Sets(p, j) /\ Sets(p, k) => j = k
    BY SetsFacts, BeginsOnce, Zenon
  <1>3. \A k : ~Sets(<<>>, k)
    <2>1. Len(<<>>) = 0 /\ ~(0 >= 2)
      OBVIOUS
    <2> QED
      BY <2>1, Zenon DEF Sets
  <1> QED
    BY <1>1, <1>2, <1>3, Zenon

Extends(q, p, t) ==
  /\ \A i \in 1 .. Len(q) : i \in 1 .. Len(t) /\ t[i] = q[i]
  /\ Len(t) \in 1 .. Len(t) /\ t[Len(t)] = p
  /\ Len(t) \notin 1 .. Len(q)
  /\ \A i \in 1 .. Len(t) : i \in 1 .. Len(q) \/ i = Len(t)

LEMMA AppendExtends ==
  ASSUME NEW A, NEW q \in Seq(A), NEW p \in A
  PROVE  Extends(q, p, Append(q, p))
  <1>1. Len(q) \in Nat
    BY SeqFacts
  <1>2. /\ Len(Append(q, p)) = Len(q) + 1 /\ Append(q, p)[Len(q) + 1] = p
        /\ \A i \in 1 .. Len(q) : Append(q, p)[i] = q[i]
    BY AppendProperties
  <1> QED
    BY <1>1, <1>2 DEF Extends

\* It does, by induction over the parts.
LEMMA ReadAllIs ==
  \A ps \in Seq(Seq(Token)) : ReadWell(ps)
  <1> DEFINE A == Seq(Token)
             S == {ps \in Seq(A) : ReadWell(ps)}
  <1>1. <<>> \in S
    <2>1. ReadAll(<<>>) = Start
      BY ReadAllEquations
    <2>2. Start.result = "Ok" /\ \A k \in Keys : Start.values[k] = {}
      BY DEF Start
    <2>3. Fits(<<>>)
      BY DEF Fits
    <2>4. Holds(<<>>, ReadAll(<<>>).values)
      <3>1. \A i \in 1 .. Len(<<>>) : FALSE
        OBVIOUS
      <3>2. \A k \in Keys : ReadAll(<<>>).values[k] = {}
        BY <2>1, <2>2
      <3> QED
        BY <3>1, <3>2, Zenon DEF Holds
    <2>5. <<>> \in Seq(A)
      OBVIOUS
    <2> QED
      BY <2>1, <2>2, <2>3, <2>4, <2>5, Zenon DEF ReadWell
  <1>2. ASSUME NEW q \in Seq(A), NEW p \in A, q \in S PROVE Append(q, p) \in S
    <2> DEFINE t == Append(q, p)
               st == ReadAll(q)
               new_st == ReadAll(t)
    <2>1. t \in Seq(A)
      BY AppendProperties
    <2>2. new_st = Read(st, p) /\ st \in ReadState
      BY ReadAllEquations
    <2>3. Extends(q, p, t)
      BY AppendExtends
    <2>4. ReadsAs(st, p)
      BY <2>2, ReadIs, Zenon
    <2>5. ReadWell(q)
      BY <1>2
    <2> HIDE DEF t
    <2>6. CASE ~Fits(q)
      <3>1. ~Fits(t)
        BY <2>3, <2>6, Zenon DEF Fits, Extends
      <3>2. new_st.result # "Ok"
        BY <2>2, <2>4, <2>5, <2>6, Zenon DEF ReadsAs, ReadWell
      <3> QED
        BY <2>1, <3>1, <3>2, Zenon DEF ReadWell, t
    <2>7. CASE Fits(q) /\ p = <<>>
      <3>0. \A k : ~Sets(p, k)
        BY <2>7, SetsOne, Zenon
      <3>1. Fits(t)
        <4>1. \A i \in 1 .. Len(t) : t[i] = <<>> \/ \E k \in Keys : Sets(t[i], k)
          BY <2>3, <2>7, Zenon DEF Fits, Extends
        <4>2. ASSUME NEW i \in 1 .. Len(t), NEW j \in 1 .. Len(t), NEW k \in Keys, Sets(t[i], k), Sets(t[j], k)
              PROVE  i = j
          <5>1. i \in 1 .. Len(q) /\ j \in 1 .. Len(q)
            BY <2>3, <3>0, <4>2, Zenon DEF Extends
          <5> QED
            BY <2>3, <2>7, <4>2, <5>1, Zenon DEF Fits, Extends
        <4> QED
          BY <4>1, <4>2, Zenon DEF Fits
      <3>2. st.result = "Ok" /\ Holds(q, st.values) /\ new_st = st
        BY <2>2, <2>4, <2>5, <2>7, Zenon DEF ReadsAs, ReadWell
      <3>3. Holds(t, st.values)
        <4>1. ASSUME NEW k \in Keys
              PROVE  /\ \A i \in 1 .. Len(t) : Sets(t[i], k) => st.values[k] = Value(t[i], k)
                     /\ (\A i \in 1 .. Len(t) : ~Sets(t[i], k)) => st.values[k] = {}
          <5>1. ASSUME NEW i \in 1 .. Len(t), Sets(t[i], k) PROVE st.values[k] = Value(t[i], k)
            <6>1. i \in 1 .. Len(q) /\ t[i] = q[i]
              BY <2>3, <3>0, <5>1, Zenon DEF Extends
            <6> QED
              BY <3>2, <5>1, <6>1, Zenon DEF Holds
          <5>2. ASSUME \A i \in 1 .. Len(t) : ~Sets(t[i], k) PROVE st.values[k] = {}
            <6>1. \A i \in 1 .. Len(q) : ~Sets(q[i], k)
              BY <2>3, <5>2, Zenon DEF Extends
            <6> QED
              BY <3>2, <6>1, Zenon DEF Holds
          <5> QED
            BY <5>1, <5>2, Zenon
        <4> QED
          BY <4>1, Zenon DEF Holds
      <3> QED
        BY <2>1, <3>1, <3>2, <3>3, Zenon DEF ReadWell, t
    <2>8. ASSUME Fits(q), NEW k \in Keys, Sets(p, k), st.values[k] = {}
          PROVE  ReadWell(t)
      <3>1. st.result = "Ok" /\ Holds(q, st.values)
        BY <2>5, <2>8, Zenon DEF ReadWell
      <3>2. \A i \in 1 .. Len(q) : ~Sets(q[i], k)
        <4>1. \A i \in 1 .. Len(q) : Sets(q[i], k) => Value(q[i], k) # {}
          BY SetsOne, Zenon
        <4>2. \A i \in 1 .. Len(q) : Sets(q[i], k) => st.values[k] = Value(q[i], k)
          BY <3>1, Zenon DEF Holds
        <4> QED
          BY <2>8, <4>1, <4>2, Zenon
      <3>3. \A j \in Keys : Sets(p, j) => j = k
        BY <2>8, SetsOne, Zenon
      <3>4. Fits(t)
        <4>1. \A i \in 1 .. Len(t) : t[i] = <<>> \/ \E j \in Keys : Sets(t[i], j)
          BY <2>3, <2>8, Zenon DEF Fits, Extends
        <4>2. ASSUME NEW i \in 1 .. Len(t), NEW j \in 1 .. Len(t), NEW l \in Keys, Sets(t[i], l), Sets(t[j], l)
              PROVE  i = j
          <5>1. CASE i \in 1 .. Len(q) /\ j \in 1 .. Len(q)
            BY <2>3, <2>8, <4>2, <5>1, Zenon DEF Fits, Extends
          <5>2. i \notin 1 .. Len(q) => i = Len(t) /\ l = k
            BY <2>3, <4>2, <3>3, Zenon DEF Extends
          <5>3. j \notin 1 .. Len(q) => j = Len(t) /\ l = k
            BY <2>3, <4>2, <3>3, Zenon DEF Extends
          <5>4. l = k => i \notin 1 .. Len(q) /\ j \notin 1 .. Len(q)
            BY <2>3, <3>2, <4>2, Zenon DEF Extends
          <5> QED
            BY <5>1, <5>2, <5>3, <5>4, Zenon
        <4> QED
          BY <4>1, <4>2, Zenon DEF Fits
      <3>5. /\ new_st.result = "Ok" /\ new_st.values[k] = Value(p, k)
            /\ \A j \in Keys : j # k => new_st.values[j] = st.values[j]
        BY <2>2, <2>4, <2>8, <3>1, Zenon DEF ReadsAs
      <3>6. Holds(t, new_st.values)
        <4>1. ASSUME NEW l \in Keys
              PROVE  /\ \A i \in 1 .. Len(t) : Sets(t[i], l) => new_st.values[l] = Value(t[i], l)
                     /\ (\A i \in 1 .. Len(t) : ~Sets(t[i], l)) => new_st.values[l] = {}
          <5>1. CASE l = k
            <6>1. ASSUME NEW i \in 1 .. Len(t), Sets(t[i], l) PROVE t[i] = p
              BY <2>3, <3>2, <5>1, <6>1, Zenon DEF Extends
            <6>2. Len(t) \in 1 .. Len(t) /\ Sets(t[Len(t)], l)
              BY <2>3, <2>8, <5>1, Zenon DEF Extends
            <6>3. new_st.values[l] = Value(p, l)
              BY <3>5, <5>1, Zenon
            <6> QED
              BY <6>1, <6>2, <6>3, Zenon
          <5>2. CASE l # k
            <6>0. new_st.values[l] = st.values[l] /\ ~Sets(p, l)
              BY <3>3, <3>5, <5>2, Zenon
            <6>1. ASSUME NEW i \in 1 .. Len(t), Sets(t[i], l) PROVE st.values[l] = Value(t[i], l)
              <7>1. i \in 1 .. Len(q) /\ t[i] = q[i]
                BY <2>3, <6>0, <6>1, Zenon DEF Extends
              <7> QED
                BY <3>1, <6>1, <7>1, Zenon DEF Holds
            <6>2. ASSUME \A i \in 1 .. Len(t) : ~Sets(t[i], l) PROVE st.values[l] = {}
              <7>1. \A i \in 1 .. Len(q) : ~Sets(q[i], l)
                BY <2>3, <6>2, Zenon DEF Extends
              <7> QED
                BY <3>1, <7>1, Zenon DEF Holds
            <6> QED
              BY <6>0, <6>1, <6>2, Zenon
          <5> QED
            BY <5>1, <5>2, Zenon
        <4> QED
          BY <4>1, Zenon DEF Holds
      <3> QED
        BY <3>4, <3>5, <3>6, Zenon DEF ReadWell
    <2>9. CASE Fits(q) /\ p # <<>> /\ \A k \in Keys : Sets(p, k) => st.values[k] # {}
      <3>1. st.result = "Ok" /\ Holds(q, st.values)
        BY <2>5, <2>9, Zenon DEF ReadWell
      <3>2. new_st.result # "Ok"
        BY <2>2, <2>4, <2>9, <3>1, Zenon DEF ReadsAs
      <3>3. ~Fits(t)
        <4>1. CASE \A k \in Keys : ~Sets(p, k)
          BY <2>3, <2>9, <4>1, Zenon DEF Fits, Extends
        <4>2. ASSUME NEW k \in Keys, Sets(p, k) PROVE ~Fits(t)
          <5>1. PICK i \in 1 .. Len(q) : Sets(q[i], k)
            BY <2>9, <3>1, <4>2, Zenon DEF Holds
          <5> QED
            BY <2>3, <4>2, <5>1, Zenon DEF Fits, Extends
        <4> QED
          BY <4>1, <4>2, Zenon
      <3> QED
        BY <2>1, <3>2, <3>3, Zenon DEF ReadWell, t
    <2> QED
      BY <2>1, <2>6, <2>7, <2>8, <2>9, Zenon DEF t
  <1> HIDE DEF S
  <1>3. \A ps \in Seq(A) : ps \in S
    BY <1>1, <1>2, SeqInduct, Zenon
  <1> QED
    BY <1>3, Zenon DEF S
-----------------------------------------------------------------------------
(* from_uri and the template.                                                *)

\* The parts of the template, as MatchesTemplate has them.
Template(ps) ==
  LET parts == {i \in DOMAIN ps : ps[i] # <<>>}
  IN  \E h, p \in parts, config \in {{}} \cup {{i} : i \in parts} :
        /\ parts = {h, p} \cup config /\ h # p /\ {h, p} \cap config = {}
        /\ Sets(ps[h], "target_host") /\ Sets(ps[p], "target_port")
        /\ \A i \in config : Sets(ps[i], "udp_proxy_config")

LEMMA ThreeKeys ==
  /\ {"target_host", "target_port", "udp_proxy_config"} = Keys
  /\ "target_host" # "target_port" /\ "target_host" # "udp_proxy_config" /\ "target_port" # "udp_proxy_config"
  BY DEF Keys

LEMMA FitsTemplate ==
  ASSUME NEW ps \in Seq(Seq(Token)), Fits(ps), NEW h \in 1 .. Len(ps), NEW p \in 1 .. Len(ps),
         Sets(ps[h], "target_host"), Sets(ps[p], "target_port")
  PROVE  Template(ps)
  <1> DEFINE P == {i \in DOMAIN ps : ps[i] # <<>>}
             C == {i \in 1 .. Len(ps) : Sets(ps[i], "udp_proxy_config")}
  <1>1. DOMAIN ps = 1 .. Len(ps) /\ \A i \in 1 .. Len(ps) : ps[i] \in Seq(Token)
    BY SeqFacts
  <1>2. \A i \in 1 .. Len(ps) : \A k \in Keys : Sets(ps[i], k) => i \in P
    BY <1>1, SetsOne, Zenon
  <1>3. h \in P /\ p \in P
    BY <1>2, ThreeKeys, Zenon
  <1>4. h # p /\ h \notin C /\ p \notin C
    BY <1>1, SetsOne, ThreeKeys, Zenon
  <1>5. \A i \in P : i = h \/ i = p \/ i \in C
    <2>1. ASSUME NEW i \in 1 .. Len(ps), NEW k \in Keys, Sets(ps[i], k)
          PROVE  i = h \/ i = p \/ i \in C
      <3>1. k = "target_host" => i = h
        BY <2>1, ThreeKeys, Zenon DEF Fits
      <3>2. k = "target_port" => i = p
        BY <2>1, ThreeKeys, Zenon DEF Fits
      <3>3. k = "udp_proxy_config" => i \in C
        BY <2>1, Zenon
      <3>4. k \in {"target_host", "target_port", "udp_proxy_config"}
        BY <2>1, ThreeKeys, Zenon
      <3> QED
        BY <3>1, <3>2, <3>3, <3>4, Zenon
    <2>2. \A i \in P : i \in 1 .. Len(ps) /\ \E k \in Keys : Sets(ps[i], k)
      BY <1>1, Zenon DEF Fits
    <2> QED
      BY <2>1, <2>2, Zenon
  <1>6. \A i, j \in C : i = j
    BY ThreeKeys, Zenon DEF Fits
  <1>7. C \subseteq P
    BY <1>2, ThreeKeys, Zenon
  <1> HIDE DEF P, C
  <1>8. C \in {{}} \cup {{i} : i \in P}
    <2>1. CASE C = {}
      BY <2>1
    <2>2. ASSUME NEW c \in C PROVE C = {c} /\ c \in P
      BY <1>6, <1>7
    <2> QED
      BY <2>1, <2>2
  <1>9. P = {h, p} \cup C
    BY <1>3, <1>5, <1>7
  <1>10. {h, p} \cap C = {}
    BY <1>4
  <1>11. \A i \in C : Sets(ps[i], "udp_proxy_config")
    BY Zenon DEF C
  <1> QED
    BY <1>3, <1>4, <1>8, <1>9, <1>10, <1>11, Zenon DEF Template, P

LEMMA TemplateFits ==
  ASSUME NEW ps \in Seq(Seq(Token)), Template(ps)
  PROVE  /\ Fits(ps)
         /\ \E h \in 1 .. Len(ps) : Sets(ps[h], "target_host")
         /\ \E p \in 1 .. Len(ps) : Sets(ps[p], "target_port")
  <1> DEFINE P == {i \in DOMAIN ps : ps[i] # <<>>}
  <1>1. DOMAIN ps = 1 .. Len(ps) /\ \A i \in 1 .. Len(ps) : ps[i] \in Seq(Token)
    BY SeqFacts
  <1>2. PICK h \in P, p \in P, C \in {{}} \cup {{i} : i \in P} :
          /\ P = {h, p} \cup C /\ h # p /\ {h, p} \cap C = {}
          /\ Sets(ps[h], "target_host") /\ Sets(ps[p], "target_port")
          /\ \A i \in C : Sets(ps[i], "udp_proxy_config")
    BY Zenon DEF Template
  <1>3. \A i \in 1 .. Len(ps) : \A k \in Keys : Sets(ps[i], k) => i \in P
    BY <1>1, SetsOne, Zenon
  <1>4. h \in 1 .. Len(ps) /\ p \in 1 .. Len(ps) /\ \A i \in 1 .. Len(ps) : ps[i] = <<>> \/ i \in P
    BY <1>1
  <1> HIDE DEF P
  <1>5. (\A i \in P : i = h \/ i = p \/ i \in C) /\ \A i, j \in C : i = j
    <2>1. \A i \in P : i = h \/ i = p \/ i \in C
      BY <1>2, Zenon
    <2>2. C = {} \/ \E i : C = {i}
      BY Zenon
    <2> QED
      BY <2>1, <2>2
  <1>6. \A i \in 1 .. Len(ps) : ps[i] = <<>> \/ \E k \in Keys : Sets(ps[i], k)
    BY <1>2, <1>4, <1>5, ThreeKeys, Zenon
  <1>7. ASSUME NEW i \in 1 .. Len(ps), NEW j \in 1 .. Len(ps), NEW k \in Keys, Sets(ps[i], k), Sets(ps[j], k)
        PROVE  i = j
    <2>1. i \in P /\ j \in P /\ ps[i] \in Seq(Token) /\ ps[j] \in Seq(Token)
      BY <1>1, <1>3, <1>7, Zenon
    <2>2. \A l \in Keys : Sets(ps[i], l) \/ Sets(ps[j], l) => l = k
      BY <1>7, <2>1, SetsOne, Zenon
    <2>3. /\ (i = h \/ j = h) => k = "target_host"
          /\ (i = p \/ j = p) => k = "target_port"
          /\ (i \in C \/ j \in C) => k = "udp_proxy_config"
      BY <1>2, <2>2, ThreeKeys, Zenon
    <2> QED
      BY <1>5, <2>1, <2>3, ThreeKeys, Zenon
  <1> QED
    BY <1>2, <1>4, <1>6, <1>7, Zenon DEF Fits

\* When from_uri returns Ok: none of its checks fails.
LEMMA Accepted ==
  ASSUME NEW u
  PROVE  from_uri(u).result = "Ok" <=>
           /\ ~TooLong(u) /\ Raw("#") \notin ToSet(u.path) \cup ToSet(u.query)
           /\ ValidScheme(u.scheme) /\ u.authority \in ValidAuthorities
           /\ NormalPath(u.path) = Masque
           /\ ReadAll(Pairs(u.query)).result = "Ok"
           /\ ReadAll(Pairs(u.query)).values["target_host"] # {}
           /\ ReadAll(Pairs(u.query)).values["target_port"] # {}
  <1> DEFINE read == ReadAll(Pairs(u.query))
  <1>1. from_uri(u) =
          IF TooLong(u) THEN Refused("uri")
          ELSE IF Raw("#") \in ToSet(u.path) \cup ToSet(u.query) THEN Refused("fragment")
          ELSE IF ~ValidScheme(u.scheme) THEN Refused("scheme")
          ELSE IF u.authority \notin ValidAuthorities THEN Refused("authority")
          ELSE IF NormalPath(u.path) # Masque THEN Refused("path")
          ELSE IF read.result # "Ok" THEN Refused(read.result)
          ELSE IF read.values["target_host"] = {} THEN Refused("target_host")
          ELSE IF read.values["target_port"] = {} THEN Refused("target_port")
          ELSE [result |-> "Ok",
                request |-> [host |-> Only(read.values["target_host"]),
                             port |-> Only(read.values["target_port"]),
                             config |-> read.values["udp_proxy_config"]]]
    BY Zenon DEF from_uri
  <1> HIDE DEF read
  <1>2. \A r : Refused(r).result = r
    BY DEF Refused
  <1>3. \A x : [result |-> "Ok", request |-> x].result = "Ok"
    OBVIOUS
  <1> HIDE DEF Refused
  <1>4. from_uri(u).result =
          IF TooLong(u) THEN "uri"
          ELSE IF Raw("#") \in ToSet(u.path) \cup ToSet(u.query) THEN "fragment"
          ELSE IF ~ValidScheme(u.scheme) THEN "scheme"
          ELSE IF u.authority \notin ValidAuthorities THEN "authority"
          ELSE IF NormalPath(u.path) # Masque THEN "path"
          ELSE IF read.result # "Ok" THEN read.result
          ELSE IF read.values["target_host"] = {} THEN "target_host"
          ELSE IF read.values["target_port"] = {} THEN "target_port"
          ELSE "Ok"
    BY <1>1, <1>2, <1>3
  <1> QED
    BY <1>4 DEF read

LEMMA MasquePath ==
  ASSUME NEW path \in Seq(Token), NormalPath(path) = Masque
  PROVE  Raw("#") \notin ToSet(path)
  <1>1. SUFFICES ASSUME NEW i \in 1 .. Len(path), path[i] = Raw("#") PROVE FALSE
    BY SeqFacts, Zenon
  <1>2. DOMAIN path = 1 .. Len(path)
    BY SeqFacts
  <1>3. Raw("#").char = "#" /\ "#" \notin Unreserved
    BY DEF Raw, Unreserved, Digits, Keys, Numerals
  <1>4. NormalPath(path) = [j \in 1 .. Len(path) |-> IF path[j].char \in Unreserved THEN Raw(path[j].char) ELSE path[j]]
    BY <1>2, Zenon DEF NormalPath
  <1>5. NormalPath(path)[i] = Raw("#") /\ i \in DOMAIN Masque
    BY <1>1, <1>3, <1>4
  <1>6. Masque[i] # Raw("#")
    BY <1>5 DEF Masque, Raw
  <1> QED
    BY <1>5, <1>6, Zenon

\* from_uri accepts the URIs of the template and no others (connect_udp.rs).
THEOREM TemplateIsAccepted ==
  ASSUME NEW u \in Uri
  PROVE  from_uri(u).result = "Ok" <=> MatchesTemplate(u)
  <1> DEFINE ps == Pairs(u.query)
             v == ReadAll(ps).values
  <1>1. u.path \in Seq(Token) /\ u.query \in Seq(Token) /\ u.scheme \in {"http", "https", "HTTPS"}
    BY DEF Uri
  <1>2. ps \in Seq(Seq(Token))
    <2>1. ps \in Seq(Seq(Token \ {Raw("&")}))
      BY <1>1, PairsEquations, Zenon DEF Parts
    <2>2. Token \ {Raw("&")} \subseteq Token
      OBVIOUS
    <2>3. Seq(Token \ {Raw("&")}) \subseteq Seq(Token)
      BY <2>2, SeqMonotonic, Zenon
    <2>4. Seq(Seq(Token \ {Raw("&")})) \subseteq Seq(Seq(Token))
      BY <2>3, SeqMonotonic, ZenonT(60)
    <2> QED
      BY <2>1, <2>4, Zenon
  <1>3. ReadWell(ps)
    BY <1>2, ReadAllIs, Zenon
  <1>4. MatchesTemplate(u) <=>
          /\ ~TooLong(u) /\ u.scheme # "http" /\ u.authority \in ValidAuthorities
          /\ NormalPath(u.path) = Masque /\ Template(ps) /\ Raw("#") \notin ToSet(u.query)
    BY Zenon DEF MatchesTemplate, Template
  <1>5. ValidScheme(u.scheme) <=> u.scheme # "http"
    BY <1>1 DEF ValidScheme
  <1>6. NormalPath(u.path) = Masque => Raw("#") \notin ToSet(u.path)
    BY <1>1, MasquePath, Zenon
  <1> HIDE DEF ps
  <1>7. ReadAll(ps).result = "Ok" /\ v["target_host"] # {} /\ v["target_port"] # {} <=> Template(ps)
    <2>1. ASSUME ReadAll(ps).result = "Ok", v["target_host"] # {}, v["target_port"] # {}
          PROVE  Template(ps)
      <3>1. Fits(ps) /\ Holds(ps, v)
        BY <1>3, <2>1, Zenon DEF ReadWell
      <3>2. PICK h \in 1 .. Len(ps) : Sets(ps[h], "target_host")
        BY <2>1, <3>1, ThreeKeys, Zenon DEF Holds
      <3>3. PICK p \in 1 .. Len(ps) : Sets(ps[p], "target_port")
        BY <2>1, <3>1, ThreeKeys, Zenon DEF Holds
      <3> QED
        BY <1>2, <3>1, <3>2, <3>3, FitsTemplate, Zenon
    <2>2. ASSUME Template(ps)
          PROVE  ReadAll(ps).result = "Ok" /\ v["target_host"] # {} /\ v["target_port"] # {}
      <3>1. /\ Fits(ps)
            /\ \E h \in 1 .. Len(ps) : Sets(ps[h], "target_host")
            /\ \E p \in 1 .. Len(ps) : Sets(ps[p], "target_port")
        BY <1>2, <2>2, TemplateFits, Zenon
      <3>2. ReadAll(ps).result = "Ok" /\ Holds(ps, v)
        BY <1>3, <3>1, Zenon DEF ReadWell
      <3>3. \A k \in Keys : \A i \in 1 .. Len(ps) : Sets(ps[i], k) => v[k] # {}
        <4>1. \A k, i : Sets(ps[i], k) => Value(ps[i], k) # {}
          BY SetsOne, Zenon
        <4>2. \A k \in Keys : \A i \in 1 .. Len(ps) : Sets(ps[i], k) => v[k] = Value(ps[i], k)
          BY <3>2, Zenon DEF Holds
        <4> QED
          BY <4>1, <4>2, Zenon
      <3> QED
        BY <3>1, <3>2, <3>3, ThreeKeys, Zenon
    <2> QED
      BY <2>1, <2>2, Zenon
  <1> QED
    BY <1>4, <1>5, <1>6, <1>7, Accepted, Zenon DEF ps
-----------------------------------------------------------------------------
(* A foreign URI is a URI.                                                   *)

\* What a foreign client has written so far is a URI, of UTF-8 but for what is
\* percent-encoded.
ForeignInv ==
  stage = "foreign" /\ part = "uri" => uri \in Uri /\ uri.query \in Seq(Token \ {Raw("ff")})

LEMMA QueryReplaced ==
  ASSUME NEW u \in Uri, NEW q \in Seq(Token)
  PROVE  [u EXCEPT !.query = q] \in Uri /\ [u EXCEPT !.query = q].query = q
  BY DEF Uri

\* ForeignInv is inductive.
LEMMA ForeignInvHolds == Spec => []ForeignInv
  <1>1. Init => ForeignInv
    <2> SUFFICES ASSUME Init PROVE stage # "foreign"
      BY Zenon DEF ForeignInv
    <2>1. stage = "start"
      BY Zenon DEF Init
    <2> QED
      BY <2>1
  <1>2. ForeignInv /\ [Next]_vars => ForeignInv'
    <2> SUFFICES ASSUME ForeignInv, [Next]_vars PROVE ForeignInv'
      OBVIOUS
    <2>1. ASSUME stage' # "foreign" \/ UNCHANGED <<stage, part, uri>> PROVE ForeignInv'
      BY <2>1, Zenon DEF ForeignInv
    <2>2. ASSUME NEW host \in Hosts, NEW port \in Ports, NEW config \in Configs, Build(host, port, config)
          PROVE  ForeignInv'
      <3>1. stage' = "built" \/ stage' = "refused"
        BY <2>2, Zenon DEF Build
      <3>2. stage' # "foreign"
        BY <3>1
      <3> QED
        BY <3>2, <2>1, Zenon
    <2>3. ASSUME NEW authority \in Authorities, NEW value \in BOOLEAN, Send(authority, value)
          PROVE  ForeignInv'
      <3>1. stage' = "sent" \/ stage' = "refused"
        BY <2>3, Zenon DEF Send
      <3>2. stage' # "foreign"
        BY <3>1
      <3> QED
        BY <3>2, <2>1, Zenon
    <2>4. ASSUME NEW base \in Bases, WriteBase(base) PROVE ForeignInv'
      <3>1. part = "uri" => uri' = base
        BY <2>4, Zenon DEF WriteBase
      <3>2. part' = part /\ base \in Uri /\ base.query = <<>>
        BY <2>4, HeadAssumption, Zenon DEF WriteBase
      <3>3. <<>> \in Seq(Token \ {Raw("ff")})
        OBVIOUS
      <3> QED
        BY <3>1, <3>2, <3>3, Zenon DEF ForeignInv
    <2>5. ASSUME NEW p \in Parameters, WriteParameter(p) PROVE ForeignInv'
      <3> DEFINE T == Token \ {Raw("ff")}
                 x == IF uri.query = <<>> THEN p ELSE uri.query \o <<Raw("&")>> \o p
      <3>1. uri \in Uri /\ uri.query \in Seq(T)
        BY <2>5, Zenon DEF ForeignInv, WriteParameter
      <3>2. uri' = [uri EXCEPT !.query = x] /\ part' = part
        BY <2>5, Zenon DEF WriteParameter
      <3>3. p \in Seq(T)
        BY HeadAssumption, Zenon
      <3>4. PICK b \in Seq(T) : b = <<Raw("&")>>
        <4>1. Raw("&") \in T
          <5>1. "&" # "ff"
            OBVIOUS
          <5> QED
            BY <5>1, RawFacts, KeyNames, Zenon
        <4> QED
          BY <4>1, OneFacts, Zenon
      <3>5. T \subseteq Token
        OBVIOUS
      <3> HIDE DEF T
      <3>6. (uri.query \o b) \o p \in Seq(T)
        BY <3>1, <3>3, <3>4, Associative, Zenon
      <3>7. x \in Seq(T)
        BY <3>3, <3>4, <3>6, Zenon
      <3> HIDE DEF x
      <3>8. x \in Seq(Token)
        BY <3>5, <3>7, SeqMonotonic, Zenon
      <3>9. [uri EXCEPT !.query = x] \in Uri /\ [uri EXCEPT !.query = x].query = x
        BY <3>1, <3>8, QueryReplaced, Zenon
      <3> QED
        BY <3>2, <3>7, <3>9, Zenon DEF ForeignInv, T
    <2>6. CASE WriteField
      <3>1. UNCHANGED <<stage, part, uri>>
        BY <2>6, Zenon DEF WriteField
      <3> QED
        BY <3>1, <2>1, Zenon
    <2>7. CASE Receive
      <3>1. stage' = "received" \/ stage' = "refused"
        BY <2>7, Zenon DEF Receive
      <3>2. stage' # "foreign"
        BY <3>1
      <3> QED
        BY <3>2, <2>1, Zenon
    <2>8. CASE Forward
      <3>1. stage' = "built"
        BY <2>8, Zenon DEF Forward
      <3>2. stage' # "foreign"
        BY <3>1
      <3> QED
        BY <3>2, <2>1, Zenon
    <2>9. CASE Rewrite
      <3>1. stage' = "sent"
        BY <2>9, Zenon DEF Rewrite
      <3>2. stage' # "foreign"
        BY <3>1
      <3> QED
        BY <3>2, <2>1, Zenon
    <2>10. ASSUME NEW parameter \in Extensions, Extend(parameter) PROVE ForeignInv'
      <3>1. UNCHANGED <<stage, part, uri>>
        BY <2>10, Zenon DEF Extend
      <3> QED
        BY <3>1, <2>1, Zenon
    <2>11. CASE UNCHANGED vars
      <3>1. UNCHANGED <<stage, part, uri>>
        BY <2>11, Zenon DEF vars
      <3> QED
        BY <3>1, <2>1, Zenon
    <2> QED
      BY <2>2, <2>3, <2>4, <2>5, <2>6, <2>7, <2>8, <2>9, <2>10, <2>11, Zenon DEF Next
  <1> QED
    BY <1>1, <1>2, PTL DEF Spec

\* from_uri accepts a foreign URI exactly if it matches the template of its docs,
\* for queries of any length and parameters in any order.
THEOREM RequestsAcceptedAreTheTemplates == Spec => []AcceptsTemplate
  <1>1. ForeignInv => AcceptsTemplate
    BY TemplateIsAccepted, Zenon DEF ForeignInv, AcceptsTemplate
  <1> QED
    BY <1>1, ForeignInvHolds, PTL
-----------------------------------------------------------------------------
(* Encoding and escaping.                                                    *)

LEMMA SeqIs ==
  ASSUME NEW A, NEW n \in Nat, NEW f, f = [i \in 1 .. n |-> f[i]], \A i \in 1 .. n : f[i] \in A
  PROVE  f \in Seq(A) /\ Len(f) = n
  OBVIOUS

LEMMA OnlyFacts ==
  ASSUME NEW x
  PROVE  Only({x}) = x
  BY DEF Only

LEMMA CharacterKinds ==
  /\ Unreserved \subseteq UriCharacter
  /\ \A c \in {"&", "=", "#", "%", "ff"} : c \in UriCharacter /\ c \notin Unreserved
  BY DEF Unreserved, UriCharacter, SubDelims, Digits, Keys, Numerals

LEMMA Unescaped ==
  ASSUME NEW X, NEW s \in Seq(Token)
  PROVE  s \in Seq(Token \ X) <=> \A i \in 1 .. Len(s) : s[i] \notin X
  OBVIOUS

LEMMA DecodableIs ==
  ASSUME NEW s \in Seq(Token)
  PROVE  Decodable(s) <=> \A i \in 1 .. Len(s) : s[i] # Raw("%") /\ s[i] # Escaped("ff")
  BY SeqFacts, ZenonT(60) DEF Decodable

\* encode_query_value is decoded again, and leaves no delimiter of a query.
LEMMA EncodeFacts ==
  ASSUME NEW text \in Text
  PROVE  LET s == encode_query_value(text) IN
         /\ s \in Seq(Token) /\ Len(s) = Len(text) /\ Decodable(s) /\ Chars(s) = text
         /\ \A c \in {"&", "=", "#", "ff"} : \A i \in 1 .. Len(s) : s[i] # Raw(c)
  <1> DEFINE s == encode_query_value(text)
  <1>0. text \in Seq(UriCharacter \ {"ff"})
    BY Zenon DEF Text
  <1>1. text \in Seq(UriCharacter)
    <2>1. UriCharacter \ {"ff"} \subseteq UriCharacter
      BY Zenon
    <2> QED
      BY <1>0, <2>1, SeqMonotonic, Zenon
  <1>2. /\ Len(text) \in Nat /\ DOMAIN text = 1 .. Len(text)
        /\ \A i \in 1 .. Len(text) : text[i] \in UriCharacter /\ text[i] # "ff"
    <2>1. \A i \in 1 .. Len(text) : text[i] \in UriCharacter \ {"ff"}
      BY <1>0, SeqFacts
    <2> QED
      BY <1>1, <2>1, SeqFacts
  <1>3. s = [i \in 1 .. Len(text) |-> IF text[i] \in Unreserved THEN Raw(text[i]) ELSE Escaped(text[i])]
    BY <1>2, Zenon DEF encode_query_value
  <1> HIDE DEF s
  <1>4. \A i \in 1 .. Len(text) : \/ text[i] \in Unreserved /\ s[i] = Raw(text[i])
                                  \/ text[i] \notin Unreserved /\ s[i] = Escaped(text[i])
    BY <1>3
  <1>5. \A i \in 1 .. Len(text) : s[i] \in Token /\ s[i].char = text[i]
    BY <1>2, <1>4, RawFacts, Zenon
  <1>6. s \in Seq(Token) /\ Len(s) = Len(text)
    <2>1. s = [i \in 1 .. Len(text) |-> s[i]]
      BY <1>3
    <2> QED
      BY <1>2, <1>5, <2>1, SeqIs, Zenon
  <1>70. ASSUME NEW c, c \notin Unreserved, NEW i \in 1 .. Len(s) PROVE s[i] # Raw(c)
    <2>1. CASE text[i] \in Unreserved /\ s[i] = Raw(text[i])
      BY <1>70, <2>1, RawFacts, Zenon
    <2>2. CASE s[i] = Escaped(text[i])
      BY <2>2, RawFacts, Zenon
    <2> QED
      BY <1>4, <1>6, <2>1, <2>2, Zenon
  <1>7. \A i \in 1 .. Len(s) : s[i] # Raw("%") /\ s[i] # Escaped("ff")
    <2>1. \A i \in 1 .. Len(s) : s[i] # Raw("%")
      BY <1>70, CharacterKinds, Zenon
    <2>2. \A i \in 1 .. Len(s) : s[i] # Escaped("ff")
      BY <1>2, <1>5, <1>6, RawFacts, Zenon
    <2> QED
      BY <2>1, <2>2
  <1>8. Decodable(s)
    BY <1>6, <1>7, DecodableIs, Zenon
  <1>9. Chars(s) = text
    <2>1. /\ Chars(s) \in Seq(UriCharacter) /\ Len(Chars(s)) = Len(text)
          /\ \A i \in 1 .. Len(text) : Chars(s)[i] = text[i]
      BY <1>5, <1>6, CharsFacts, Zenon
    <2> QED
      BY <1>1, <2>1, SeqEqual, Zenon
  <1>10. \A c \in {"&", "=", "#", "ff"} : \A i \in 1 .. Len(s) : s[i] # Raw(c)
    BY <1>70, CharacterKinds, Zenon
  <1> QED
    BY <1>6, <1>8, <1>9, <1>10, Zenon DEF s

EscapeToken(t) == IF t.char \in Unreserved THEN Escaped(t.char) ELSE t
NormalToken(t) == IF t.char \in Unreserved THEN Raw(t.char) ELSE t

LEMMA TokenFacts ==
  ASSUME NEW t \in Token
  PROVE  /\ EscapeToken(t) \in Token /\ EscapeToken(t).char = t.char
         /\ NormalToken(EscapeToken(t)) = NormalToken(t)
         /\ \A c : c \notin Unreserved => /\ EscapeToken(t) = Raw(c) <=> t = Raw(c)
                                          /\ EscapeToken(t) = Escaped(c) <=> t = Escaped(c)
  <1>1. t.char \in UriCharacter
    BY DEF Token
  <1>2. CASE t.char \in Unreserved
    <2>1. EscapeToken(t) = Escaped(t.char)
      BY <1>2, Zenon DEF EscapeToken
    <2>2. EscapeToken(t) \in Token /\ EscapeToken(t).char = t.char
      BY <1>1, <2>1, RawFacts, Zenon
    <2>3. NormalToken(EscapeToken(t)) = NormalToken(t)
      BY <2>2, <1>2, Zenon DEF NormalToken
    <2>4. ASSUME NEW c, c \notin Unreserved
          PROVE  t # Raw(c) /\ t # Escaped(c) /\ EscapeToken(t) # Raw(c) /\ EscapeToken(t) # Escaped(c)
      BY <1>2, <2>2, <2>4, RawFacts, Zenon
    <2> QED
      BY <2>2, <2>3, <2>4, Zenon
  <1>3. CASE t.char \notin Unreserved
    <2>1. EscapeToken(t) = t
      BY <1>3, Zenon DEF EscapeToken
    <2> QED
      BY <2>1, Zenon
  <1> QED
    BY <1>2, <1>3, Zenon

\* Escaping unreserved characters changes nothing that is decoded.
LEMMA EscapeFacts ==
  ASSUME NEW s \in Seq(Token)
  PROVE  LET e == Escape(s) IN
         /\ e \in Seq(Token) /\ Len(e) = Len(s) /\ Chars(e) = Chars(s)
         /\ Decodable(e) <=> Decodable(s)
         /\ NormalPath(e) = NormalPath(s)
         /\ \A c : c \notin Unreserved => \A i \in 1 .. Len(s) : e[i] = Raw(c) <=> s[i] = Raw(c)
  <1> DEFINE e == Escape(s)
  <1>1. Len(s) \in Nat /\ DOMAIN s = 1 .. Len(s) /\ \A i \in 1 .. Len(s) : s[i] \in Token
    BY SeqFacts
  <1>2. e = [i \in 1 .. Len(s) |-> EscapeToken(s[i])]
    BY <1>1, Zenon DEF Escape, EscapeToken
  <1> HIDE DEF e
  <1>3. \A i \in 1 .. Len(s) : e[i] = EscapeToken(s[i])
    BY <1>2
  <1>4. \A i \in 1 .. Len(s) : e[i] \in Token /\ e[i].char = s[i].char
    BY <1>1, <1>3, TokenFacts, Zenon
  <1>5. e \in Seq(Token) /\ Len(e) = Len(s)
    <2>1. e = [i \in 1 .. Len(s) |-> e[i]]
      BY <1>2
    <2> QED
      BY <1>1, <1>4, <2>1, SeqIs, Zenon
  <1>6. Chars(e) = Chars(s)
    <2>1. /\ Chars(e) \in Seq(UriCharacter) /\ Chars(s) \in Seq(UriCharacter) /\ Len(Chars(e)) = Len(s)
          /\ Len(Chars(s)) = Len(s)
          /\ \A i \in 1 .. Len(s) : Chars(e)[i] = Chars(s)[i]
      BY <1>4, <1>5, CharsFacts, Zenon
    <2> QED
      BY <2>1, SeqEqual, Zenon
  <1>7. \A c : c \notin Unreserved => \A i \in 1 .. Len(s) : (e[i] = Raw(c) <=> s[i] = Raw(c))
                                                              /\ (e[i] = Escaped(c) <=> s[i] = Escaped(c))
    <2>1. ASSUME NEW c, c \notin Unreserved, NEW i \in 1 .. Len(s)
          PROVE  (e[i] = Raw(c) <=> s[i] = Raw(c)) /\ (e[i] = Escaped(c) <=> s[i] = Escaped(c))
      <3>1. PICK t \in Token : t = s[i]
        BY <1>1
      <3>2. (EscapeToken(t) = Raw(c) <=> t = Raw(c)) /\ (EscapeToken(t) = Escaped(c) <=> t = Escaped(c))
        BY <2>1, TokenFacts, Zenon
      <3> QED
        BY <1>3, <3>1, <3>2, Zenon
    <2> QED
      BY <2>1, Zenon
  <1>8. Decodable(e) <=> Decodable(s)
    BY <1>5, <1>7, DecodableIs, CharacterKinds, Zenon
  <1>9. NormalPath(e) = NormalPath(s)
    <2>1. DOMAIN e = 1 .. Len(s)
      BY <1>2
    <2>2. /\ NormalPath(e) = [i \in 1 .. Len(s) |-> NormalToken(e[i])]
          /\ NormalPath(s) = [i \in 1 .. Len(s) |-> NormalToken(s[i])]
      BY <1>1, <2>1, Zenon DEF NormalPath, NormalToken
    <2>3. \A i \in 1 .. Len(s) : NormalToken(e[i]) = NormalToken(s[i])
      BY <1>1, <1>3, TokenFacts, Zenon
    <2> QED
      BY <2>2, <2>3
  <1> QED
    BY <1>5, <1>6, <1>7, <1>8, <1>9, Zenon DEF e
-----------------------------------------------------------------------------
(* Trimming.                                                                 *)

\* A trimmed text is part of the text, and trimming it again changes nothing.
LEMMA TrimTrims ==
  ASSUME NEW A, NEW text \in Seq(A)
  PROVE  /\ Trim(text) \in Seq(A) /\ Trim(Trim(text)) = Trim(text)
         /\ \A i \in 1 .. Len(Trim(text)) : \E j \in 1 .. Len(text) : Trim(text)[i] = text[j]
  <1> DEFINE kept(s) == {i \in DOMAIN s : s[i] \notin Whitespace}
  <1>1. Len(text) \in Nat /\ DOMAIN text = 1 .. Len(text)
    BY SeqFacts
  <1>2. CASE kept(text) = {}
    <2>1. Trim(text) = <<>>
      BY <1>2, Zenon DEF Trim
    <2>2. <<>> \in Seq(A) /\ kept(<<>>) = {} /\ \A i \in 1 .. Len(<<>>) : FALSE
      OBVIOUS
    <2>3. Trim(<<>>) = <<>>
      BY <2>2, Zenon DEF Trim
    <2> QED
      BY <2>1, <2>2, <2>3, Zenon
  <1>3. CASE kept(text) # {}
    <2> DEFINE a == Min(kept(text))
               b == Max(kept(text))
               u == SubSeq(text, a, b)
    <2>1. kept(text) \subseteq 0 .. Len(text) /\ kept(text) \subseteq Nat
      BY <1>1
    <2>2. \A i : i \in kept(text) <=> i \in 1 .. Len(text) /\ text[i] \notin Whitespace
      BY <1>1
    <2>3. Trim(text) = u
      BY <1>3, Zenon DEF Trim
    <2> DEFINE K == kept(text)
    <2> HIDE DEF K
    <2>4. a \in K /\ \A k \in K : a <= k
      BY <1>3, <2>1, MinFacts, Zenon DEF K
    <2>5. b \in K /\ \A k \in K : k <= b
      BY <1>1, <1>3, <2>1, MaxFacts, Zenon DEF K
    <2>6. a \in 1 .. Len(text) /\ b \in 1 .. Len(text) /\ text[a] \notin Whitespace /\ text[b] \notin Whitespace
      BY <2>2, <2>4, <2>5, Zenon DEF K
    <2>7. a <= b
      BY <2>4, <2>5, Zenon
    <2> HIDE DEF a, b
    <2>8. a \in Nat \ {0} /\ b \in a - 1 .. Len(text) /\ b - a + 1 \in Nat \ {0}
      BY <1>1, <2>6, <2>7
    <2>9. /\ u \in Seq(A) /\ Len(u) = b - a + 1 /\ \A j \in 1 .. b - a + 1 : u[j] = text[a + j - 1]
      BY <2>8, PartFacts
    <2> HIDE DEF u
    <2>10. \A j \in 1 .. b - a + 1 : a + j - 1 \in 1 .. Len(text)
      BY <1>1, <2>6, <2>8
    <2>11. /\ 1 \in 1 .. b - a + 1 /\ b - a + 1 \in 1 .. b - a + 1
           /\ a + 1 - 1 = a /\ a + (b - a + 1) - 1 = b
      BY <2>6, <2>8
    <2>12. u[1] \notin Whitespace /\ u[Len(u)] \notin Whitespace
      BY <2>6, <2>9, <2>11, Zenon
    <2>13. Trim(u) = u
      <3>1. PICK n \in Nat \ {0} : n = Len(u)
        BY <2>8, <2>9
      <3>2. DOMAIN u = 1 .. n
        BY <2>9, <3>1, SeqFacts, Zenon
      <3> DEFINE L == kept(u)
      <3>3. L \subseteq 1 .. n /\ 1 \in L /\ n \in L
        BY <2>12, <3>1, <3>2
      <3>4. L \subseteq Int /\ (\A k \in L : 1 <= k) /\ (\A k \in L : k <= n)
        BY <3>3
      <3> HIDE DEF L
      <3>5. Min(L) = 1
        BY <3>3, <3>4, MinIs
      <3>6. Max(L) = n
        BY <3>3, <3>4, MaxIs
      <3>7. SubSeq(u, 1, n) = u
        BY <2>9, <3>1, WholeFacts, Zenon
      <3>8. L # {}
        BY <3>3
      <3> QED
        BY <3>5, <3>6, <3>7, <3>8, Zenon DEF Trim, L
    <2> QED
      BY <2>3, <2>9, <2>10, <2>13, Zenon
  <1> QED
    BY <1>2, <1>3

LEMMA TrimText ==
  ASSUME NEW text \in Text
  PROVE  Trim(text) \in Text /\ Trim(Trim(text)) = Trim(text)
  BY TrimTrims DEF Text
-----------------------------------------------------------------------------
(* The number a port's digits stand for.                                     *)

LEMMA NumeralIs ==
  /\ \A m \in 0 .. 9 : Numerals[m + 1] \in Digits /\ Numeral(Numerals[m + 1]) = m
  /\ \A d \in Digits : Numeral(d) \in 0 .. 9
  /\ Digits \subseteq Unreserved
  <1>1. \A m, n \in 0 .. 9 : Numerals[n + 1] = Numerals[m + 1] => n = m
    BY DEF Numerals
  <1>2. \A m \in 0 .. 9 : m + 1 \in 1 .. 10
    OBVIOUS
  <1>3. \A m \in 0 .. 9 : Numerals[m + 1] \in Digits
    BY <1>2, Zenon DEF Digits
  <1>4. ASSUME NEW m \in 0 .. 9 PROVE Numeral(Numerals[m + 1]) = m
    <2> DEFINE P(n) == n \in 0 .. 9 /\ Numerals[n + 1] = Numerals[m + 1]
               c == CHOOSE n : P(n)
    <2>1. P(m)
      OBVIOUS
    <2> HIDE DEF P
    <2>2. P(c)
      BY <2>1, Zenon
    <2>3. c = m
      BY <2>2, <1>1, Zenon DEF P
    <2> QED
      BY <2>3, Zenon DEF Numeral, P
  <1>5. \A d \in Digits : \E m \in 0 .. 9 : d = Numerals[m + 1]
    <2>1. \A i \in 1 .. 10 : i - 1 \in 0 .. 9 /\ i = (i - 1) + 1
      OBVIOUS
    <2> QED
      BY <2>1, Zenon DEF Digits
  <1>6. Digits \subseteq Unreserved
    BY Zenon DEF Unreserved
  <1> QED
    BY <1>3, <1>4, <1>5, <1>6, Zenon

NumberFold == [x \in Nat \X Digits |-> 10 * x[1] + Numeral(x[2])]

LEMMA NumberFoldIs ==
  /\ 0 \in Nat /\ NumberFold \in [Nat \X Digits -> Nat]
  /\ \A n \in Nat : \A d \in Digits : NumberFold[<<n, d>>] = 10 * n + Numeral(d)
  <1>1. \A d \in Digits : Numeral(d) \in Nat
    BY NumeralIs
  <1> HIDE DEF Numeral
  <1>2. \A n \in Nat : \A d \in Digits : 10 * n + Numeral(d) \in Nat
    BY <1>1
  <1> QED
    BY <1>1, <1>2 DEF NumberFold

\* Decimal, digit by digit.
LEMMA DecimalFold ==
  ASSUME NEW q \in Seq(Digits)
  PROVE  \E f : f[Len(q)] \in Nat /\ Folds(f, q, 0, NumberFold) /\ Decimal(q) = f[Len(q)]
  <1> DEFINE n == Len(q)
             D(g) == g = [i \in 0 .. n |-> IF i = 0 THEN 0 ELSE 10 * g[i - 1] + Numeral(q[i])]
             p == CHOOSE g : D(g)
             F == NumberFold
             V == Nat
             A == Digits
  <1>1. n \in Nat /\ \A i \in 1 .. n : q[i] \in A
    BY SeqFacts
  <1>2. 0 \in V /\ F \in [V \X A -> V]
    BY NumberFoldIs, Zenon
  <1>3. PICK f \in [0 .. n -> V] : Folds(f, q, 0, F)
    <2> HIDE DEF F, V, A
    <2> QED
      BY <1>2, FoldExists, Zenon DEF A
  <1> HIDE DEF n
  <1>4. \A i \in 0 .. n : i = 0 \/ (i # 0 /\ i \in 1 .. n /\ i - 1 \in 0 .. n)
    BY <1>1
  <1>40. \A i \in 1 .. n : i # 0 /\ i \in 0 .. n /\ i - 1 \in 0 .. n
    BY <1>1
  <1>41. 0 \in 0 .. n /\ n \in 0 .. n
    BY <1>1
  <1>5. D(f)
    <2>1. \A i \in 0 .. n : f[i] = IF i = 0 THEN 0 ELSE 10 * f[i - 1] + Numeral(q[i])
      <3> TAKE i \in 0 .. n
      <3>1. CASE i = 0
        BY <1>3, <3>1, Zenon DEF Folds
      <3>2. CASE i # 0
        <4>1. i \in 1 .. n /\ i - 1 \in 0 .. n
          BY <1>4, <3>2, Zenon
        <4>2. f[i] = F[<<f[i - 1], q[i]>>]
          BY <1>3, <4>1, Zenon DEF Folds, n
        <4>3. f[i - 1] \in V /\ q[i] \in A
          BY <1>1, <1>3, <4>1, Zenon
        <4> QED
          BY <3>2, <4>2, <4>3, NumberFoldIs, Zenon
      <3> QED
        BY <3>1, <3>2
    <2>2. f = [i \in 0 .. n |-> f[i]]
      BY <1>3, Zenon
    <2> QED
      BY <2>1, <2>2, Zenon
  <1>6. D(p)
    <2> HIDE DEF D
    <2> QED
      BY <1>5, Zenon
  <1>8. Decimal(q) = p[n]
    BY Zenon DEF Decimal, n
  <1> HIDE DEF p
  <1>9. \A i \in 0 .. n : p[i] = IF i = 0 THEN 0 ELSE 10 * p[i - 1] + Numeral(q[i])
    BY <1>6, Zenon
  <1>10. p[0] = 0
    BY <1>9, <1>41, Zenon
  <1>11. ASSUME NEW i \in 1 .. n, p[i - 1] \in V PROVE p[i] = F[<<p[i - 1], q[i]>>]
    <2> HIDE DEF D
    <2>1. p[i] = 10 * p[i - 1] + Numeral(q[i])
      BY <1>9, <1>40, Zenon
    <2>2. q[i] \in A
      BY <1>1
    <2> QED
      BY <1>11, <2>1, <2>2, NumberFoldIs, Zenon
  <1> HIDE DEF D, F
  <1>12. Folds(p, q, 0, F) /\ p[n] \in V
    <2>2. \A i \in 1 .. Len(q) : p[i - 1] \in V => p[i] = F[<<p[i - 1], q[i]>>]
      BY <1>11, Zenon DEF n
    <2>5. Folds(p, q, 0, F)
      BY <1>2, <1>10, <2>2, FoldTyped, Zenon
    <2>6. p[Len(q)] \in V
      BY <1>2, <2>5, FoldValue, Zenon
    <2> QED
      BY <2>5, <2>6, Zenon DEF n
  <1> QED
    BY <1>8, <1>12, Zenon DEF n, F
-----------------------------------------------------------------------------
(* The digits of a port.                                                     *)

\* The number that the first n of five digits stand for.
Upper(port, n) == IF n = 0 THEN 0 ELSE port \div Places[n]

LEMMA PlaceIs ==
  /\ Places[1] = 10000 /\ Places[2] = 1000 /\ Places[3] = 100 /\ Places[4] = 10 /\ Places[5] = 1
  /\ \A n \in 1 .. 5 : n = 1 \/ n = 2 \/ n = 3 \/ n = 4 \/ n = 5
  BY DEF Places

LEMMA DigitFacts ==
  ASSUME NEW port \in Nat, NEW n \in 1 .. 5
  PROVE  Places[n] \in Nat \ {0} /\ DigitAt(port, Places[n]) \in 0 .. 9
  <1>1. \A x \in {10000, 1000, 100, 10, 1} : x \in Nat \ {0} /\ DigitAt(port, x) \in 0 .. 9
    BY DEF DigitAt
  <1>2. Places[n] \in {10000, 1000, 100, 10, 1}
    BY PlaceIs
  <1> QED
    BY <1>1, <1>2

LEMMA UpperStep ==
  ASSUME NEW port \in Nat, port < 100000, NEW n \in 1 .. 5
  PROVE  Upper(port, n) = 10 * Upper(port, n - 1) + DigitAt(port, Places[n])
  <1>1. CASE n = 1
    BY <1>1, PlaceIs DEF Upper, DigitAt
  <1>2. CASE n = 2
    BY <1>2, PlaceIs DEF Upper, DigitAt
  <1>3. CASE n = 3
    BY <1>3, PlaceIs DEF Upper, DigitAt
  <1>4. CASE n = 4
    BY <1>4, PlaceIs DEF Upper, DigitAt
  <1>5. CASE n = 5
    BY <1>5, PlaceIs DEF Upper, DigitAt
  <1> QED
    BY <1>1, <1>2, <1>3, <1>4, <1>5

LEMMA UpperSmall ==
  ASSUME NEW port \in Nat, NEW n \in 0 .. 4, \A m \in 1 .. n : port < Places[m]
  PROVE  Upper(port, n) = 0
  <1>1. CASE n = 0
    BY <1>1 DEF Upper
  <1>2. CASE n # 0
    <2>1. PICK x \in Nat \ {0} : x = Places[n]
      BY <1>2, DigitFacts
    <2>2. port < x
      BY <1>2, <2>1
    <2>3. port \div x = 0
      BY <2>2
    <2> QED
      BY <1>2, <2>1, <2>3 DEF Upper
  <1> QED
    BY <1>1, <1>2

LEMMA MaxPortIs == MaxPort \in Nat /\ MaxPort < 100000
  BY SMTT(30) DEF MaxPort

LEMMA PortIsNat ==
  ASSUME NEW port \in 1 .. MaxPort
  PROVE  port \in Nat
  BY MaxPortIs, SMTT(30)

LEMMA UpperTyped ==
  ASSUME NEW port \in Nat, NEW n \in 0 .. 5
  PROVE  Upper(port, n) \in Nat
  <1>1. CASE n = 0
    BY <1>1 DEF Upper
  <1>2. CASE n # 0
    <2>1. PICK x \in Nat \ {0} : x = Places[n]
      BY <1>2, DigitFacts
    <2>2. port \div x \in Nat
      OBVIOUS
    <2> QED
      BY <1>2, <2>1, <2>2 DEF Upper
  <1> QED
    BY <1>1, <1>2

LEMMA UpperLast ==
  ASSUME NEW port \in Nat
  PROVE  Upper(port, 5) = port
  BY PlaceIs DEF Upper

\* The digits of a port, without the zeros in front, stand for it.
LEMMA PortDigits ==
  ASSUME NEW port \in 1 .. MaxPort
  PROVE  /\ PortText(port) \in Seq(Digits) /\ Decimal(PortText(port)) = port
  <1> DEFINE I == {i \in 1 .. 5 : Places[i] <= port}
             first == Min(I)
             t == PortText(port)
             digit(n) == DigitAt(port, Places[n])
  <1>1. /\ \A n \in 1 .. 5 : Places[n] \in Nat \ {0} /\ digit(n) \in 0 .. 9
        /\ \A n \in 1 .. 5 : Upper(port, n) = 10 * Upper(port, n - 1) + digit(n)
        /\ \A n \in 0 .. 4 : (\A m \in 1 .. n : port < Places[m]) => Upper(port, n) = 0
        /\ Upper(port, 5) = port /\ Places[5] <= port
    <2>1. port \in Nat /\ port < 100000 /\ Places[5] <= port
      BY PlaceIs, PortIsNat, MaxPortIs, SMTT(30)
    <2>2. ASSUME NEW n \in 1 .. 5
          PROVE  /\ Places[n] \in Nat \ {0} /\ digit(n) \in 0 .. 9
                 /\ Upper(port, n) = 10 * Upper(port, n - 1) + digit(n)
      <3>1. Places[n] \in Nat \ {0} /\ digit(n) \in 0 .. 9
        BY <2>1, DigitFacts
      <3>2. port < 100000
        BY <2>1
      <3>3. Upper(port, n) = 10 * Upper(port, n - 1) + digit(n)
        BY <2>1, <3>2, UpperStep, SMT
      <3> QED
        BY <3>1, <3>3
    <2>3. ASSUME NEW n \in 0 .. 4, \A m \in 1 .. n : port < Places[m] PROVE Upper(port, n) = 0
      BY <2>1, <2>3, UpperSmall
    <2>4. Upper(port, 5) = port
      BY <2>1, UpperLast
    <2> QED
      BY <2>1, <2>2, <2>3, <2>4
  <1>2. I \subseteq Nat /\ I # {}
    BY <1>1
  <1>3. t = [i \in 1 .. 6 - first |-> Numerals[digit(first + i - 1) + 1]]
    BY Zenon DEF PortText
  <1>4. \A i : i \in I <=> i \in 1 .. 5 /\ Places[i] <= port
    OBVIOUS
  <1> HIDE DEF I
  <1>5. first \in I /\ \A i \in I : first <= i
    BY <1>2, MinFacts, Zenon
  <1> HIDE DEF first, t, digit
  <1>6. first \in 1 .. 5 /\ \A m \in 1 .. first - 1 : m \in 1 .. 5 /\ m \notin I
    BY <1>4, <1>5
  <1>7. \A m \in 1 .. first - 1 : port < Places[m]
    BY <1>1, <1>4, <1>6
  <1>8. \A i \in 1 .. 6 - first : first + i - 1 \in 1 .. 5 /\ first + (i - 1) - 1 = (first + i - 1) - 1
    BY <1>6
  <1>9. 6 - first \in Nat /\ first - 1 \in 0 .. 4 /\ first + 0 - 1 = first - 1 /\ first + (6 - first) - 1 = 5
    BY <1>6
  <1>10. \A i \in 1 .. 6 - first : t[i] \in Digits /\ Numeral(t[i]) = digit(first + i - 1)
    BY <1>1, <1>3, <1>8, NumeralIs, Zenon
  <1>11. t \in Seq(Digits) /\ Len(t) = 6 - first
    <2>1. PICK n \in Nat : n = 6 - first
      BY <1>9
    <2>2. t = [i \in 1 .. n |-> t[i]]
      BY <1>3, <2>1
    <2>3. \A i \in 1 .. n : t[i] \in Digits
      BY <1>10, <2>1, Zenon
    <2>4. t \in Seq(Digits) /\ Len(t) = n
      BY <2>2, <2>3, SeqIs
    <2> QED
      BY <2>1, <2>4, Zenon
  <1>12. PICK f : f[Len(t)] \in Nat /\ Folds(f, t, 0, NumberFold) /\ Decimal(t) = f[Len(t)]
    BY <1>11, DecimalFold, Zenon
  <1> DEFINE n == 6 - first
             S == {i \in 0 .. n : f[i] = Upper(port, first + i - 1)}
  <1>13. f[0] = 0 /\ \A i \in 1 .. n : f[i] = NumberFold[<<f[i - 1], t[i]>>]
    BY <1>11, <1>12, Zenon DEF Folds
  <1>14. 0 \in S
    <2>1. Upper(port, first - 1) = 0
      BY <1>1, <1>7, <1>9, Zenon
    <2>2. 0 \in 0 .. n
      BY <1>9
    <2> QED
      BY <1>9, <1>13, <2>1, <2>2, Zenon
  <1>15. ASSUME NEW m \in 0 .. n - 1, m \in S PROVE m + 1 \in S
    <2> DEFINE i == m + 1
    <2>1. i \in 1 .. n /\ i \in 0 .. n /\ i - 1 = m
      BY <1>9
    <2> HIDE DEF i
    <2>2. first + i - 1 \in 1 .. 5 /\ first + m - 1 = (first + i - 1) - 1
      BY <1>8, <2>1
    <2>3. f[m] = Upper(port, first + m - 1)
      BY <1>15
    <2>4. Upper(port, first + m - 1) \in Nat
      <3>1. \A k \in 0 .. 5 : Upper(port, k) \in Nat
        BY PortIsNat, UpperTyped, Zenon
      <3>2. first + m - 1 \in 0 .. 5
        BY <2>2
      <3> QED
        BY <3>1, <3>2
    <2>5. f[i] = 10 * f[m] + Numeral(t[i])
      BY <1>10, <1>13, <2>1, <2>3, <2>4, NumberFoldIs, Zenon
    <2>6. Numeral(t[i]) = digit(first + i - 1)
      BY <1>10, <2>1, Zenon
    <2>7. Upper(port, first + i - 1) = 10 * Upper(port, first + m - 1) + digit(first + i - 1)
      BY <1>1, <2>2, Zenon
    <2>8. f[i] = Upper(port, first + i - 1)
      BY <2>3, <2>5, <2>6, <2>7, Zenon
    <2> QED
      BY <2>1, <2>8, Zenon DEF i
  <1>16. n \in S
    <2> HIDE DEF S
    <2>1. \A m \in 0 .. n : m \in S
      BY <1>9, <1>14, <1>15, Induct
    <2> QED
      BY <1>9, <2>1
  <1>17. f[n] = port
    BY <1>1, <1>9, <1>16, Zenon
  <1> QED
    BY <1>11, <1>12, <1>17, Zenon DEF t

\* A port comes back from its digits.
LEMMA PortFacts ==
  ASSUME NEW port \in 1 .. MaxPort
  PROVE  LET s == Plain(PortText(port)) IN
         /\ s \in Seq(Token) /\ Decodable(s) /\ PortNumber(Chars(s)) = port
         /\ \A c \in {"&", "=", "#", "ff"} : \A i \in 1 .. Len(s) : s[i] # Raw(c)
  <1> DEFINE t == PortText(port)
             s == Plain(t)
  <1>1. t \in Seq(Digits) /\ Decimal(t) = port
    BY PortDigits
  <1> HIDE DEF t
  <1>2. Len(t) \in Nat /\ DOMAIN t = 1 .. Len(t) /\ \A i \in 1 .. Len(t) : t[i] \in Digits
    BY <1>1, SeqFacts
  <1>3. s = [i \in 1 .. Len(t) |-> Raw(t[i])]
    BY <1>2, Zenon DEF Plain
  <1> HIDE DEF s
  <1>4. \A i \in 1 .. Len(t) : s[i] = Raw(t[i])
    BY <1>3
  <1>5. \A i \in 1 .. Len(t) : t[i] \in UriCharacter /\ t[i] \in Unreserved
    BY <1>2, NumeralIs, CharacterKinds, Zenon
  <1>6. \A i \in 1 .. Len(t) : s[i] \in Token /\ s[i].char = t[i]
    BY <1>4, <1>5, RawFacts, Zenon
  <1>7. s \in Seq(Token) /\ Len(s) = Len(t)
    <2>1. s = [i \in 1 .. Len(t) |-> s[i]]
      BY <1>3
    <2> QED
      BY <1>2, <1>6, <2>1, SeqIs, Zenon
  <1>8. ASSUME NEW c, c \notin Unreserved, NEW i \in 1 .. Len(s) PROVE s[i] # Raw(c)
    BY <1>4, <1>5, <1>7, <1>8, RawFacts, Zenon
  <1>9. \A i \in 1 .. Len(s) : s[i] # Escaped("ff")
    BY <1>4, <1>7, RawFacts, Zenon
  <1>10. Decodable(s)
    <2>1. \A i \in 1 .. Len(s) : s[i] # Raw("%")
      BY <1>8, CharacterKinds, Zenon
    <2> QED
      BY <1>7, <1>9, <2>1, DecodableIs, Zenon
  <1>11. Chars(s) = t
    <2>1. /\ Chars(s) \in Seq(UriCharacter) /\ Len(Chars(s)) = Len(t)
          /\ \A i \in 1 .. Len(t) : Chars(s)[i] = t[i]
      BY <1>6, <1>7, CharsFacts, Zenon
    <2>2. t \in Seq(UriCharacter)
      <3>1. Digits \subseteq UriCharacter
        BY NumeralIs, CharacterKinds, Zenon
      <3> QED
        BY <1>1, <3>1, SeqMonotonic, Zenon
    <2> QED
      BY <2>1, <2>2, SeqEqual, Zenon
  <1>12. PortNumber(t) = port
    <2>1. ToSet(t) \subseteq Digits
      BY <1>1, <1>2, SeqFacts, Zenon
    <2> QED
      BY <1>1, <2>1, Zenon DEF PortNumber
  <1>13. \A c \in {"&", "=", "#", "ff"} : \A i \in 1 .. Len(s) : s[i] # Raw(c)
    BY <1>8, CharacterKinds, Zenon
  <1> QED
    BY <1>7, <1>10, <1>11, <1>12, <1>13, Zenon DEF s, t
-----------------------------------------------------------------------------
(* A query that carries a request.                                           *)

\* What a query for the request o sets each key to.
Wanted(o, k) ==
  CASE k = "target_host" -> {o.host}
    [] k = "target_port" -> {o.port}
    [] k = "udp_proxy_config" -> o.config

\* The parts set each key of o once, to its value, and no other.
Carries(ps, o) ==
  /\ \A i \in 1 .. Len(ps) : ps[i] = <<>> \/ \E k \in Keys : Sets(ps[i], k) /\ Value(ps[i], k) = Wanted(o, k)
  /\ \A i, j \in 1 .. Len(ps) : \A k \in Keys : Sets(ps[i], k) /\ Sets(ps[j], k) => i = j
  /\ \A k \in Keys : Wanted(o, k) # {} => \E i \in 1 .. Len(ps) : Sets(ps[i], k)

\* A request that new may have made.
RequestOk(o) ==
  /\ o = [host |-> o.host, port |-> o.port, config |-> o.config]
  /\ o.host \in Text /\ ValidHost(o.host) /\ Trim(o.host) = o.host
  /\ o.port \in 1 .. MaxPort
  /\ o.config = {} \/ \E text \in Text : o.config = {text} /\ ValidConfig(text)

\* A URI that still says what its sender meant.
UriOk(u, o) ==
  /\ u \in Uri /\ ValidScheme(u.scheme) /\ u.authority \in ValidAuthorities
  /\ NormalPath(u.path) = Masque
  /\ u.query \in Seq(Token \ {Raw("#")})
  /\ Carries(Pairs(u.query), o)

LEMMA WantedIs ==
  ASSUME NEW o
  PROVE  /\ Wanted(o, "target_host") = {o.host} /\ Wanted(o, "target_port") = {o.port}
         /\ Wanted(o, "udp_proxy_config") = o.config
  BY DEF Wanted

\* From such parts the loop of from_uri reads the request.
LEMMA CarriesRead ==
  ASSUME NEW o, NEW ps \in Seq(Seq(Token)), Carries(ps, o)
  PROVE  ReadAll(ps).result = "Ok" /\ \A k \in Keys : ReadAll(ps).values[k] = Wanted(o, k)
  <1>1. ReadWell(ps)
    BY ReadAllIs, Zenon
  <1>2. \A i \in 1 .. Len(ps) : ps[i] \in Seq(Token)
    BY SeqFacts
  <1>3. Fits(ps)
    BY Zenon DEF Carries, Fits
  <1>4. ReadAll(ps).result = "Ok" /\ Holds(ps, ReadAll(ps).values)
    BY <1>1, <1>3, Zenon DEF ReadWell
  <1>5. ASSUME NEW k \in Keys PROVE ReadAll(ps).values[k] = Wanted(o, k)
    <2>1. ASSUME NEW i \in 1 .. Len(ps), Sets(ps[i], k) PROVE ReadAll(ps).values[k] = Wanted(o, k)
      <3>1. ReadAll(ps).values[k] = Value(ps[i], k)
        BY <1>4, <2>1, Zenon DEF Holds
      <3>2. ps[i] # <<>>
        BY <2>1, SetsOne, Zenon
      <3>3. PICK l \in Keys : Sets(ps[i], l) /\ Value(ps[i], l) = Wanted(o, l)
        BY <3>2, Zenon DEF Carries
      <3>4. l = k
        BY <1>2, <2>1, <3>3, SetsOne, Zenon
      <3> QED
        BY <3>1, <3>3, <3>4, Zenon
    <2>2. ASSUME \A i \in 1 .. Len(ps) : ~Sets(ps[i], k) PROVE ReadAll(ps).values[k] = Wanted(o, k)
      <3>1. Wanted(o, k) = {}
        BY <2>2, Zenon DEF Carries
      <3>2. ReadAll(ps).values[k] = {}
        BY <1>4, <2>2, Zenon DEF Holds
      <3> QED
        BY <3>1, <3>2
    <2> QED
      BY <2>1, <2>2, Zenon
  <1> QED
    BY <1>4, <1>5, Zenon

LEMMA PartsTyped ==
  ASSUME NEW T, T \subseteq Token, NEW q \in Seq(T)
  PROVE  Pairs(q) \in Seq(Seq(T \ {Raw("&")})) /\ Pairs(q) \in Seq(Seq(Token)) /\ Pairs(q) # <<>>
  <1>1. Pairs(q) \in Seq(Seq(T \ {Raw("&")})) /\ Pairs(q) # <<>>
    BY PairsEquations, Zenon DEF Parts
  <1>2. T \ {Raw("&")} \subseteq Token
    OBVIOUS
  <1>3. Seq(T \ {Raw("&")}) \subseteq Seq(Token)
    BY <1>2, SeqMonotonic, Zenon
  <1>4. Seq(Seq(T \ {Raw("&")})) \subseteq Seq(Seq(Token))
    BY <1>3, SeqMonotonic, ZenonT(60)
  <1> QED
    BY <1>1, <1>4, Zenon

\* from_uri of a URI that carries a request returns it, or refuses the length.
LEMMA CarriedAccepted ==
  ASSUME NEW o, RequestOk(o), NEW u, UriOk(u, o)
  PROVE  from_uri(u) = Refused("uri") \/ from_uri(u) = [result |-> "Ok", request |-> o]
  <1> DEFINE read == ReadAll(Pairs(u.query))
  <1>1. from_uri(u) =
          IF TooLong(u) THEN Refused("uri")
          ELSE IF Raw("#") \in ToSet(u.path) \cup ToSet(u.query) THEN Refused("fragment")
          ELSE IF ~ValidScheme(u.scheme) THEN Refused("scheme")
          ELSE IF u.authority \notin ValidAuthorities THEN Refused("authority")
          ELSE IF NormalPath(u.path) # Masque THEN Refused("path")
          ELSE IF read.result # "Ok" THEN Refused(read.result)
          ELSE IF read.values["target_host"] = {} THEN Refused("target_host")
          ELSE IF read.values["target_port"] = {} THEN Refused("target_port")
          ELSE [result |-> "Ok",
                request |-> [host |-> Only(read.values["target_host"]),
                             port |-> Only(read.values["target_port"]),
                             config |-> read.values["udp_proxy_config"]]]
    BY Zenon DEF from_uri
  <1>2. u.path \in Seq(Token)
    BY Zenon DEF UriOk, Uri
  <1>3. Raw("#") \notin ToSet(u.path)
    BY <1>2, MasquePath, Zenon DEF UriOk
  <1>4. Raw("#") \notin ToSet(u.query)
    <2>1. PICK q \in Seq(Token \ {Raw("#")}) : q = u.query
      BY Zenon DEF UriOk
    <2>2. \A c : c \in ToSet(q) => c \in Token \ {Raw("#")}
      BY SeqFacts
    <2> QED
      BY <2>1, <2>2, Zenon
  <1>5. Pairs(u.query) \in Seq(Seq(Token))
    <2>1. Token \ {Raw("#")} \subseteq Token
      OBVIOUS
    <2> QED
      BY <2>1, PartsTyped, Zenon DEF UriOk
  <1>6. read.result = "Ok" /\ \A k \in Keys : read.values[k] = Wanted(o, k)
    BY <1>5, CarriesRead, Zenon DEF UriOk
  <1>7. /\ read.values["target_host"] = {o.host} /\ read.values["target_port"] = {o.port}
        /\ read.values["udp_proxy_config"] = o.config
    <2>1. "target_host" \in Keys /\ "target_port" \in Keys /\ "udp_proxy_config" \in Keys
      BY ThreeKeys, Zenon
    <2> QED
      BY <1>6, <2>1, WantedIs
  <1> HIDE DEF read
  <1>8. /\ read.values["target_host"] # {} /\ read.values["target_port"] # {}
        /\ Only(read.values["target_host"]) = o.host /\ Only(read.values["target_port"]) = o.port
    BY <1>7, OnlyFacts
  <1>9. ValidScheme(u.scheme) /\ u.authority \in ValidAuthorities /\ NormalPath(u.path) = Masque
    BY Zenon DEF UriOk
  <1>10. from_uri(u) = Refused("uri")
         \/ from_uri(u) = [result |-> "Ok",
                           request |-> [host |-> Only(read.values["target_host"]),
                                        port |-> Only(read.values["target_port"]),
                                        config |-> read.values["udp_proxy_config"]]]
    BY <1>1, <1>3, <1>4, <1>6, <1>8, <1>9, Zenon
  <1>11. o = [host |-> o.host, port |-> o.port, config |-> o.config]
    BY Zenon DEF RequestOk
  <1> QED
    BY <1>7, <1>8, <1>10, <1>11, Zenon
-----------------------------------------------------------------------------
(* Sending: the query of to_uri carries its request.                         *)

\* The tokens inside a parameter.
Inner == (Token \ {Raw("#")}) \ {Raw("&")}

LEMMA InnerFacts ==
  /\ Inner \subseteq Token /\ Inner \subseteq Token \ {Raw("#")}
  /\ Raw("&") \in Token \ {Raw("#")} /\ Raw("=") \in Inner
  /\ \A k \in Keys : Raw(k) \in Inner
  /\ \A s \in Seq(Token) : (\A i \in 1 .. Len(s) : s[i] # Raw("&") /\ s[i] # Raw("#")) => s \in Seq(Inner)
  <1>1. Inner \subseteq Token /\ Inner \subseteq Token \ {Raw("#")}
    BY Zenon DEF Inner
  <1>2. "&" # "#" /\ "=" # "#" /\ "=" # "&" /\ \A k \in Keys : k # "#" /\ k # "&"
    BY DEF Keys
  <1>3. Raw("&") \in Token \ {Raw("#")} /\ Raw("=") \in Inner
    BY <1>2, RawFacts, KeyNames, Zenon DEF Inner
  <1>4. \A k \in Keys : Raw(k) \in Inner
    BY <1>2, RawFacts, KeyNames, Zenon DEF Inner
  <1>5. ASSUME NEW s \in Seq(Token), \A i \in 1 .. Len(s) : s[i] # Raw("&") /\ s[i] # Raw("#")
        PROVE  s \in Seq(Inner)
    <2>1. \A i \in 1 .. Len(s) : s[i] \in Inner
      BY <1>5, SeqFacts, Zenon DEF Inner
    <2> QED
      BY <2>1
  <1> QED
    BY <1>1, <1>3, <1>4, <1>5, Zenon

LEMMA TwoInFront ==
  ASSUME NEW A, NEW a \in A, NEW b \in A, NEW s \in Seq(A)
  PROVE  LET p == <<a, b>> \o s
         IN  /\ p \in Seq(A) /\ Len(p) = Len(s) + 2 /\ p[1] = a /\ p[2] = b
             /\ SubSeq(p, 3, Len(p)) = s
  <1> DEFINE p == <<a, b>> \o s
             v == SubSeq(p, 3, Len(p))
  <1>1. PICK h \in Seq(A) : h = <<a, b>> /\ Len(h) = 2 /\ h[1] = a /\ h[2] = b
    <2>1. <<a, b>> \in Seq(A) /\ Len(<<a, b>>) = 2 /\ <<a, b>>[1] = a /\ <<a, b>>[2] = b
      BY TwoFacts
    <2> QED
      BY <2>1, Zenon
  <1>2. /\ h \o s \in Seq(A) /\ Len(h \o s) = Len(h) + Len(s)
        /\ \A j \in 1 .. Len(h) : (h \o s)[j] = h[j]
        /\ \A j \in 1 .. Len(s) : (h \o s)[Len(h) + j] = s[j]
    BY ConcatFacts
  <1>3. Len(s) \in Nat
    BY SeqFacts
  <1>4. p = h \o s
    BY <1>1, Zenon
  <1> HIDE DEF p
  <1>5. /\ p \in Seq(A) /\ Len(p) = 2 + Len(s) /\ p[1] = a /\ p[2] = b
        /\ \A j \in 1 .. Len(s) : p[2 + j] = s[j]
    <2>1. 1 \in 1 .. 2 /\ 2 \in 1 .. 2
      OBVIOUS
    <2> QED
      BY <1>1, <1>2, <1>4, <2>1, Zenon
  <1>6. Len(p) \in 3 - 1 .. Len(p)
    BY <1>3, <1>5
  <1>7. v \in Seq(A) /\ Len(v) = Len(p) - 3 + 1 /\ \A j \in 1 .. Len(p) - 3 + 1 : v[j] = p[3 + j - 1]
    BY <1>5, <1>6, PartFacts
  <1> HIDE DEF v
  <1>8. Len(v) = Len(s) /\ \A j \in 1 .. Len(s) : v[j] = s[j]
    BY <1>3, <1>5, <1>7
  <1>9. v = s
    BY <1>7, <1>8, SeqEqual, Zenon
  <1> QED
    BY <1>3, <1>5, <1>9 DEF p, v

\* A parameter as to_uri writes it.
Parameter(k, s) == <<Raw(k), Raw("=")>> \o s

LEMMA ParameterFacts ==
  ASSUME NEW k \in Keys, NEW s \in Seq(Inner)
  PROVE  /\ Parameter(k, s) \in Seq(Inner) /\ Begins(Parameter(k, s), k)
         /\ SubSeq(Parameter(k, s), 3, Len(Parameter(k, s))) = s
         /\ Decodable(s) /\ Valid(k, Chars(s)) # {} =>
              Sets(Parameter(k, s), k) /\ Value(Parameter(k, s), k) = Valid(k, Chars(s))
  <1> DEFINE p == Parameter(k, s)
  <1>1. PICK a \in Inner : a = Raw(k)
    BY InnerFacts, Zenon
  <1>2. PICK b \in Inner : b = Raw("=")
    BY InnerFacts, Zenon
  <1>3. /\ <<a, b>> \o s \in Seq(Inner) /\ Len(<<a, b>> \o s) = Len(s) + 2
        /\ (<<a, b>> \o s)[1] = a /\ (<<a, b>> \o s)[2] = b
        /\ SubSeq(<<a, b>> \o s, 3, Len(<<a, b>> \o s)) = s
    BY TwoInFront
  <1>4. p = <<a, b>> \o s
    BY <1>1, <1>2, Zenon DEF Parameter
  <1> HIDE DEF p
  <1>5. p \in Seq(Inner) /\ SubSeq(p, 3, Len(p)) = s /\ p[1] = Raw(k) /\ p[2] = Raw("=")
    BY <1>1, <1>2, <1>3, <1>4, Zenon
  <1>6. Len(p) >= 2
    <2>1. Len(s) \in Nat
      BY SeqFacts
    <2>2. PICK n \in Nat : n = Len(s)
      BY <2>1
    <2>3. n + 2 >= 2
      OBVIOUS
    <2> QED
      BY <1>3, <1>4, <2>2, <2>3, Zenon
  <1>7. Begins(p, k)
    BY <1>5, <1>6, Zenon DEF Begins
  <1>8. p \in Seq(Token)
    BY <1>5, InnerFacts, SeqMonotonic, Zenon
  <1>9. Decodable(s) /\ Valid(k, Chars(s)) # {} => Sets(p, k) /\ Value(p, k) = Valid(k, Chars(s))
    BY <1>5, <1>7, <1>8, SetsFacts, Zenon DEF Value
  <1> QED
    BY <1>5, <1>7, <1>9, Zenon DEF p

LEMMA ValidIs ==
  /\ \A text : Trim(text) = text /\ ValidHost(text) => Valid("target_host", text) = {text}
  /\ \A text : PortNumber(text) \in 1 .. MaxPort => Valid("target_port", text) = {PortNumber(text)}
  /\ \A text : ValidConfig(text) => Valid("udp_proxy_config", text) = {text}
  <1>1. \A text : Valid("target_host", text) = {host \in {Trim(text)} : ValidHost(host)}
    BY DEF Valid
  <1>2. \A text : Valid("target_port", text) = {port \in {PortNumber(text)} : ValidPort(port)}
    BY DEF Valid
  <1>3. \A text : Valid("udp_proxy_config", text) = {config \in {text} : ValidConfig(config)}
    BY DEF Valid
  <1>4. \A port : ValidPort(port) <=> port \in 1 .. MaxPort
    BY Zenon DEF ValidPort
  <1> HIDE DEF Valid
  <1>5. ASSUME NEW text, Trim(text) = text, ValidHost(text) PROVE Valid("target_host", text) = {text}
    BY <1>1, <1>5
  <1>6. ASSUME NEW text, PortNumber(text) \in 1 .. MaxPort
        PROVE  Valid("target_port", text) = {PortNumber(text)}
    BY <1>2, <1>4, <1>6
  <1>7. ASSUME NEW text, ValidConfig(text) PROVE Valid("udp_proxy_config", text) = {text}
    BY <1>3, <1>7
  <1> QED
    BY <1>5, <1>6, <1>7

LEMMA LongerFacts ==
  ASSUME NEW A, NEW u \in Seq(A), NEW r \in A, NEW v \in Seq(A), Len(v) = Len(u) + 1,
         \A i \in 1 .. Len(u) : v[i] = u[i], v[Len(u) + 1] = r
  PROVE  Append(u, r) = v
  <1>1. Len(u) \in Nat
    BY SeqFacts
  <1>2. /\ Append(u, r) \in Seq(A) /\ Len(Append(u, r)) = Len(u) + 1 /\ Append(u, r)[Len(u) + 1] = r
        /\ \A i \in 1 .. Len(u) : Append(u, r)[i] = u[i]
    BY AppendProperties
  <1>3. \A i \in 1 .. Len(u) + 1 : i \in 1 .. Len(u) \/ i = Len(u) + 1
    BY <1>1
  <1>4. \A i \in 1 .. Len(v) : Append(u, r)[i] = v[i]
    BY <1>2, <1>3, Zenon
  <1> QED
    BY <1>2, <1>4, SeqEqual, Zenon

LEMMA ThreeFacts ==
  ASSUME NEW A, NEW p \in A, NEW q \in A, NEW r \in A
  PROVE  Append(<<p>>, q) = <<p, q>> /\ Append(<<p, q>>, r) = <<p, q, r>>
  <1>1. /\ <<p>> \in Seq(A) /\ <<p, q>> \in Seq(A) /\ <<p, q, r>> \in Seq(A)
        /\ Len(<<p>>) = 1 /\ Len(<<p, q>>) = Len(<<p>>) + 1 /\ Len(<<p, q, r>>) = Len(<<p, q>>) + 1
        /\ \A i \in 1 .. Len(<<p>>) : <<p, q>>[i] = <<p>>[i]
        /\ <<p, q>>[Len(<<p>>) + 1] = q
        /\ \A i \in 1 .. Len(<<p, q>>) : <<p, q, r>>[i] = <<p, q>>[i]
        /\ <<p, q, r>>[Len(<<p, q>>) + 1] = r
    OBVIOUS
  <1>2. Append(<<p>>, q) = <<p, q>>
    BY <1>1, LongerFacts, Zenon
  <1>3. Append(<<p, q>>, r) = <<p, q, r>>
    BY <1>1, LongerFacts, Zenon
  <1> QED
    BY <1>2, <1>3

LEMMA QueryOfTwo ==
  ASSUME NEW T, Raw("&") \in T, NEW p \in Seq(T \ {Raw("&")}), NEW q \in Seq(T \ {Raw("&")})
  PROVE  LET x == (p \o <<Raw("&")>>) \o q IN x \in Seq(T) /\ Pairs(x) = <<p, q>>
  <1>1. T \ {Raw("&")} \subseteq T
    OBVIOUS
  <1>2. p \in Seq(T) /\ q \in Seq(T) /\ <<Raw("&")>> \in Seq(T)
    BY <1>1, SeqMonotonic, OneFacts, Zenon
  <1>3. (p \o <<Raw("&")>>) \o q \in Seq(T)
    BY <1>2, Associative, Zenon
  <1>4. Pairs((p \o <<Raw("&")>>) \o q) = Append(Pairs(p), q)
    BY <1>2, PairsJoin, Zenon
  <1>5. Pairs(p) = <<p>>
    BY PairsSingle, Zenon
  <1>6. Append(<<p>>, q) = <<p, q>>
    <2>1. PICK u \in Seq(T), v \in Seq(T) : u = p /\ v = q
      BY <1>2, Zenon
    <2>2. Append(<<u>>, v) = <<u, v>>
      BY ThreeFacts
    <2> QED
      BY <2>1, <2>2, Zenon
  <1> QED
    BY <1>3, <1>4, <1>5, <1>6, Zenon

QueryIs(T, x, ps) == x \in Seq(T) /\ Pairs(x) = ps

LEMMA QueryOfThree ==
  ASSUME NEW T, Raw("&") \in T, NEW p \in Seq(T \ {Raw("&")}), NEW q \in Seq(T \ {Raw("&")}),
         NEW r \in Seq(T \ {Raw("&")})
  PROVE  QueryIs(T, ((p \o <<Raw("&")>>) \o q) \o (<<Raw("&")>> \o r), <<p, q, r>>)
  <1>1. PICK b \in Seq(T) : b = <<Raw("&")>>
    BY OneFacts, Zenon
  <1>2. PICK y \in Seq(T) : y = (p \o b) \o q /\ Pairs(y) = <<p, q>>
    BY <1>1, QueryOfTwo, Zenon
  <1>3. PICK z \in Seq(T) : z = r
    <2>1. T \ {Raw("&")} \subseteq T
      OBVIOUS
    <2> QED
      BY <2>1, SeqMonotonic, Zenon
  <1>4. (y \o b) \o z = y \o (b \o z)
    <2>1. Associates(T)
      BY Associative, Zenon
    <2> QED
      BY <2>1 DEF Associates
  <1>5. y \o (b \o z) \in Seq(T)
    <2>1. b \o z \in Seq(T)
      BY Associative, Zenon
    <2> QED
      BY <2>1, Associative, Zenon
  <1>6. Pairs((y \o b) \o r) = Append(Pairs(y), r)
    BY <1>1, PairsJoin, Zenon
  <1>7. Append(<<p, q>>, r) = <<p, q, r>>
    <2> DEFINE A == Seq(T \ {Raw("&")})
    <2>1. PICK c \in A, u \in A, v \in A : c = p /\ u = q /\ v = r
      BY Zenon
    <2> HIDE DEF A
    <2>2. Append(<<c, u>>, v) = <<c, u, v>>
      BY ThreeFacts
    <2> QED
      BY <2>1, <2>2, Zenon
  <1> QED
    BY <1>1, <1>2, <1>3, <1>4, <1>5, <1>6, <1>7, Zenon DEF QueryIs

\* One of the values a request carries: text or number and its encoding.
Encodes(s, k, o) ==
  s \in Seq(Inner) /\ Decodable(s) /\ Valid(k, Chars(s)) = Wanted(o, k) /\ Wanted(o, k) # {}

LEMMA Encoded ==
  ASSUME NEW o, RequestOk(o)
  PROVE  /\ Encodes(encode_query_value(o.host), "target_host", o)
         /\ Encodes(Plain(PortText(o.port)), "target_port", o)
         /\ o.config # {} => Encodes(encode_query_value(Only(o.config)), "udp_proxy_config", o)
  <1>1. /\ o.host \in Text /\ ValidHost(o.host) /\ Trim(o.host) = o.host
        /\ o.port \in 1 .. MaxPort
        /\ o.config = {} \/ \E text \in Text : o.config = {text} /\ ValidConfig(text)
    BY Zenon DEF RequestOk
  <1>2. ASSUME NEW text \in Text
        PROVE  /\ encode_query_value(text) \in Seq(Inner) /\ Decodable(encode_query_value(text))
               /\ Chars(encode_query_value(text)) = text
    <2> DEFINE s == encode_query_value(text)
    <2>1. /\ s \in Seq(Token) /\ Decodable(s) /\ Chars(s) = text
          /\ \A c \in {"&", "=", "#", "ff"} : \A i \in 1 .. Len(s) : s[i] # Raw(c)
      BY EncodeFacts
    <2> HIDE DEF s
    <2>2. \A i \in 1 .. Len(s) : s[i] # Raw("&") /\ s[i] # Raw("#")
      BY <2>1, Zenon
    <2>3. s \in Seq(Inner)
      BY <2>1, <2>2, InnerFacts, Zenon
    <2> QED
      BY <2>1, <2>3, Zenon DEF s
  <1>3. Encodes(encode_query_value(o.host), "target_host", o)
    <2>1. Valid("target_host", o.host) = {o.host}
      BY <1>1, ValidIs, Zenon
    <2>2. Wanted(o, "target_host") = {o.host} /\ {o.host} # {}
      BY WantedIs
    <2> QED
      BY <1>1, <1>2, <2>1, <2>2, Zenon DEF Encodes
  <1>4. Encodes(Plain(PortText(o.port)), "target_port", o)
    <2> DEFINE s == Plain(PortText(o.port))
    <2>1. /\ s \in Seq(Token) /\ Decodable(s) /\ PortNumber(Chars(s)) = o.port
          /\ \A c \in {"&", "=", "#", "ff"} : \A i \in 1 .. Len(s) : s[i] # Raw(c)
      BY <1>1, PortFacts
    <2> HIDE DEF s
    <2>2. \A i \in 1 .. Len(s) : s[i] # Raw("&") /\ s[i] # Raw("#")
      BY <2>1, Zenon
    <2>3. s \in Seq(Inner)
      BY <2>1, <2>2, InnerFacts, Zenon
    <2>4. Valid("target_port", Chars(s)) = {o.port}
      BY <1>1, <2>1, ValidIs, Zenon
    <2>5. Wanted(o, "target_port") = {o.port} /\ {o.port} # {}
      BY WantedIs
    <2> QED
      BY <2>1, <2>3, <2>4, <2>5, Zenon DEF Encodes, s
  <1>5. ASSUME o.config # {} PROVE Encodes(encode_query_value(Only(o.config)), "udp_proxy_config", o)
    <2>1. PICK text \in Text : o.config = {text} /\ ValidConfig(text)
      BY <1>1, <1>5, Zenon
    <2>2. Only(o.config) = text
      BY <2>1, OnlyFacts, Zenon
    <2>3. Valid("udp_proxy_config", text) = {text}
      BY <2>1, ValidIs, Zenon
    <2>4. Wanted(o, "udp_proxy_config") = {text} /\ {text} # {}
      BY <2>1, WantedIs
    <2> QED
      BY <1>2, <2>2, <2>3, <2>4, Zenon DEF Encodes
  <1> QED
    BY <1>3, <1>4, <1>5, Zenon

LEMMA CarriedOne ==
  ASSUME NEW o, NEW k \in Keys, NEW s, Encodes(s, k, o)
  PROVE  /\ Parameter(k, s) \in Seq(Inner) /\ Parameter(k, s) \in Seq(Token)
         /\ Sets(Parameter(k, s), k) /\ Value(Parameter(k, s), k) = Wanted(o, k)
  <1>1. s \in Seq(Inner) /\ Decodable(s) /\ Valid(k, Chars(s)) = Wanted(o, k) /\ Valid(k, Chars(s)) # {}
    BY Zenon DEF Encodes
  <1>2. Parameter(k, s) \in Seq(Inner)
    BY <1>1, ParameterFacts, Zenon
  <1>3. Sets(Parameter(k, s), k) /\ Value(Parameter(k, s), k) = Valid(k, Chars(s))
    BY <1>1, ParameterFacts, Zenon
  <1>4. Parameter(k, s) \in Seq(Token)
    BY <1>2, InnerFacts, SeqMonotonic, Zenon
  <1> QED
    BY <1>1, <1>2, <1>3, <1>4, Zenon

\* A parameter of a request.
Says(p, k, o) == p \in Seq(Token) /\ Sets(p, k) /\ Value(p, k) = Wanted(o, k)

LEMMA CarriesTwo ==
  ASSUME NEW o, NEW h, NEW p, Says(h, "target_host", o), Says(p, "target_port", o), o.config = {}
  PROVE  Carries(<<h, p>>, o)
  <1>1. PICK ps : ps = <<h, p>>
    OBVIOUS
  <1>2. Len(ps) = 2 /\ ps[1] = h /\ ps[2] = p
    BY <1>1
  <1>3. /\ h \in Seq(Token) /\ Sets(h, "target_host") /\ Value(h, "target_host") = Wanted(o, "target_host")
        /\ p \in Seq(Token) /\ Sets(p, "target_port") /\ Value(p, "target_port") = Wanted(o, "target_port")
    BY Zenon DEF Says
  <1>4. /\ \A i \in 1 .. Len(ps) : i = 1 \/ i = 2
        /\ 1 \in 1 .. Len(ps) /\ 2 \in 1 .. Len(ps)
    BY <1>2
  <1>5. \A k \in Keys : /\ Sets(h, k) => k = "target_host"
                        /\ Sets(p, k) => k = "target_port"
    BY <1>3, SetsOne, ThreeKeys, Zenon
  <1>6. \A i \in 1 .. Len(ps) : ps[i] = <<>> \/ \E k \in Keys : Sets(ps[i], k) /\ Value(ps[i], k) = Wanted(o, k)
    BY <1>2, <1>3, <1>4, ThreeKeys, Zenon
  <1>7. ASSUME NEW i \in 1 .. Len(ps), NEW j \in 1 .. Len(ps), NEW k \in Keys, Sets(ps[i], k), Sets(ps[j], k)
        PROVE  i = j
    <2>1. (i = 1 \/ j = 1) => k = "target_host"
      BY <1>2, <1>5, <1>7, Zenon
    <2>2. (i = 2 \/ j = 2) => k = "target_port"
      BY <1>2, <1>5, <1>7, Zenon
    <2> QED
      BY <1>4, <2>1, <2>2, ThreeKeys, Zenon
  <1>8. ASSUME NEW k \in Keys, Wanted(o, k) # {} PROVE \E i \in 1 .. Len(ps) : Sets(ps[i], k)
    <2>1. k # "udp_proxy_config"
      BY <1>8, WantedIs, Zenon
    <2>2. k = "target_host" \/ k = "target_port"
      BY <2>1, ThreeKeys, Zenon
    <2> QED
      BY <1>2, <1>3, <1>4, <2>2, Zenon
  <1>9. Carries(ps, o)
    BY <1>6, <1>7, <1>8, Zenon DEF Carries
  <1> QED
    BY <1>1, <1>9, Zenon

LEMMA CarriesThree ==
  ASSUME NEW o, NEW h, NEW p, NEW c, Says(h, "target_host", o), Says(p, "target_port", o),
         Says(c, "udp_proxy_config", o)
  PROVE  Carries(<<h, p, c>>, o)
  <1>1. PICK ps : ps = <<h, p, c>>
    OBVIOUS
  <1>2. Len(ps) = 3 /\ ps[1] = h /\ ps[2] = p /\ ps[3] = c
    BY <1>1
  <1>3. /\ h \in Seq(Token) /\ Sets(h, "target_host") /\ Value(h, "target_host") = Wanted(o, "target_host")
        /\ p \in Seq(Token) /\ Sets(p, "target_port") /\ Value(p, "target_port") = Wanted(o, "target_port")
        /\ c \in Seq(Token) /\ Sets(c, "udp_proxy_config")
        /\ Value(c, "udp_proxy_config") = Wanted(o, "udp_proxy_config")
    BY Zenon DEF Says
  <1>4. /\ \A i \in 1 .. Len(ps) : i = 1 \/ i = 2 \/ i = 3
        /\ 1 \in 1 .. Len(ps) /\ 2 \in 1 .. Len(ps) /\ 3 \in 1 .. Len(ps)
    BY <1>2
  <1>5. \A k \in Keys : /\ Sets(h, k) => k = "target_host"
                        /\ Sets(p, k) => k = "target_port"
                        /\ Sets(c, k) => k = "udp_proxy_config"
    BY <1>3, SetsOne, ThreeKeys, Zenon
  <1>6. \A i \in 1 .. Len(ps) : ps[i] = <<>> \/ \E k \in Keys : Sets(ps[i], k) /\ Value(ps[i], k) = Wanted(o, k)
    BY <1>2, <1>3, <1>4, ThreeKeys, Zenon
  <1>7. ASSUME NEW i \in 1 .. Len(ps), NEW j \in 1 .. Len(ps), NEW k \in Keys, Sets(ps[i], k), Sets(ps[j], k)
        PROVE  i = j
    <2>1. (i = 1 \/ j = 1) => k = "target_host"
      BY <1>2, <1>5, <1>7, Zenon
    <2>2. (i = 2 \/ j = 2) => k = "target_port"
      BY <1>2, <1>5, <1>7, Zenon
    <2>3. (i = 3 \/ j = 3) => k = "udp_proxy_config"
      BY <1>2, <1>5, <1>7, Zenon
    <2> QED
      BY <1>4, <2>1, <2>2, <2>3, ThreeKeys, Zenon
  <1>8. ASSUME NEW k \in Keys, Wanted(o, k) # {} PROVE \E i \in 1 .. Len(ps) : Sets(ps[i], k)
    BY <1>2, <1>3, <1>4, ThreeKeys, Zenon
  <1>9. Carries(ps, o)
    BY <1>6, <1>7, <1>8, Zenon DEF Carries
  <1> QED
    BY <1>1, <1>9, Zenon

LEMMA MasqueFacts ==
  Masque \in Seq(Token) /\ NormalPath(Masque) = Masque
  <1>1. PICK a \in Token : a = Raw("m")
    <2>1. "m" \in UriCharacter
      BY DEF UriCharacter, Unreserved
    <2> QED
      BY <2>1, RawFacts, Zenon
  <1>2. PICK b \in Token : b = Raw("asque")
    <2>1. "asque" \in UriCharacter
      BY DEF UriCharacter, Unreserved
    <2> QED
      BY <2>1, RawFacts, Zenon
  <1>3. Masque = <<a, b>>
    BY <1>1, <1>2, Zenon DEF Masque
  <1>4. <<a, b>> \in Seq(Token) /\ DOMAIN <<a, b>> = 1 .. 2 /\ <<a, b>>[1] = a /\ <<a, b>>[2] = b
        /\ <<a, b>> = [i \in 1 .. 2 |-> <<a, b>>[i]]
    OBVIOUS
  <1>5. NormalToken(a) = a /\ NormalToken(b) = b
    <2>1. a.char = "m" /\ b.char = "asque"
      BY <1>1, <1>2, RawFacts, Zenon
    <2>2. "m" \in Unreserved /\ "asque" \in Unreserved
      BY DEF Unreserved
    <2> QED
      BY <1>1, <1>2, <2>1, <2>2, Zenon DEF NormalToken
  <1>6. \A i \in 1 .. 2 : NormalToken(<<a, b>>[i]) = <<a, b>>[i]
    <2>1. \A i \in 1 .. 2 : i = 1 \/ i = 2
      OBVIOUS
    <2> QED
      BY <1>4, <1>5, <2>1, Zenon
  <1>7. NormalPath(Masque) = [i \in 1 .. 2 |-> NormalToken(Masque[i])]
    BY <1>3, <1>4, Zenon DEF NormalPath, NormalToken
  <1>8. NormalPath(Masque) = Masque
    <2>1. \A i \in 1 .. 2 : NormalToken(Masque[i]) = Masque[i]
      BY <1>3, <1>6, Zenon
    <2>2. Masque = [i \in 1 .. 2 |-> Masque[i]]
      BY <1>3, <1>4, Zenon
    <2> QED
      BY <1>7, <2>1, <2>2, Zenon
  <1> QED
    BY <1>3, <1>4, <1>8, Zenon

\* What to_uri returns carries the request it was given.
LEMMA Sent ==
  ASSUME NEW o, RequestOk(o), NEW a \in Authorities, to_uri(o, a).result = "Ok"
  PROVE  UriOk(to_uri(o, a).uri, o)
  <1> DEFINE h == Parameter("target_host", encode_query_value(o.host))
             p == Parameter("target_port", Plain(PortText(o.port)))
             c == Parameter("udp_proxy_config", encode_query_value(Only(o.config)))
             q == (h \o <<Raw("&")>>) \o p
             x == IF o.config = {} THEN q ELSE q \o (<<Raw("&")>> \o c)
             u == [scheme |-> "https", authority |-> a, path |-> Masque, query |-> x]
             T == Token \ {Raw("#")}
  <1>1. to_uri(o, a) = IF a \notin ValidAuthorities THEN Refused("proxy_authority")
                       ELSE IF TooLong(u) THEN Refused("uri")
                       ELSE [result |-> "Ok", uri |-> u]
    BY Zenon DEF to_uri, Parameter
  <1> HIDE DEF u
  <1>2. Refused("proxy_authority").result # "Ok" /\ Refused("uri").result # "Ok"
    BY DEF Refused
  <1>3. [result |-> "Ok", uri |-> u].uri = u
    OBVIOUS
  <1>4. a \in ValidAuthorities /\ to_uri(o, a).uri = u
    BY <1>1, <1>2, <1>3, Zenon
  <1>5. "target_host" \in Keys /\ "target_port" \in Keys /\ "udp_proxy_config" \in Keys
    BY ThreeKeys, Zenon
  <1>6. h \in Seq(Inner) /\ Says(h, "target_host", o)
    BY <1>5, Encoded, CarriedOne, Zenon DEF Says
  <1>7. p \in Seq(Inner) /\ Says(p, "target_port", o)
    BY <1>5, Encoded, CarriedOne, Zenon DEF Says
  <1>8. o.config # {} => c \in Seq(Inner) /\ Says(c, "udp_proxy_config", o)
    BY <1>5, Encoded, CarriedOne, Zenon DEF Says
  <1> HIDE DEF h, p, c, T
  <1>9. Raw("&") \in T /\ Inner = T \ {Raw("&")}
    BY InnerFacts, Zenon DEF T, Inner
  <1>10. x \in Seq(T) /\ Carries(Pairs(x), o)
    <2>1. CASE o.config = {}
      <3>1. q \in Seq(T) /\ Pairs(q) = <<h, p>>
        BY <1>6, <1>7, <1>9, QueryOfTwo, Zenon
      <3>2. Carries(<<h, p>>, o)
        BY <1>6, <1>7, <2>1, CarriesTwo, Zenon
      <3> QED
        BY <2>1, <3>1, <3>2, Zenon
    <2>2. CASE o.config # {}
      <3>1. q \o (<<Raw("&")>> \o c) \in Seq(T) /\ Pairs(q \o (<<Raw("&")>> \o c)) = <<h, p, c>>
        <4>1. QueryIs(T, q \o (<<Raw("&")>> \o c), <<h, p, c>>)
          BY <1>6, <1>7, <1>8, <1>9, <2>2, QueryOfThree, Zenon
        <4> QED
          BY <4>1, Zenon DEF QueryIs
      <3>2. Carries(<<h, p, c>>, o)
        BY <1>6, <1>7, <1>8, <2>2, CarriesThree, Zenon
      <3> QED
        BY <2>2, <3>1, <3>2, Zenon
    <2> QED
      BY <2>1, <2>2
  <1> HIDE DEF x
  <1>11. u \in Uri /\ u.scheme = "https" /\ u.authority = a /\ u.path = Masque /\ u.query = x
    <2>1. PICK y \in Seq(Token) : y = x
      <3>1. T \subseteq Token
        BY Zenon DEF T
      <3> QED
        BY <1>10, <3>1, SeqMonotonic, Zenon
    <2>2. PICK m \in Seq(Token) : m = Masque
      BY MasqueFacts, Zenon
    <2>3. [scheme |-> "https", authority |-> a, path |-> m, query |-> y] \in Uri
      BY DEF Uri
    <2>4. u = [scheme |-> "https", authority |-> a, path |-> m, query |-> y]
      BY <2>1, <2>2, Zenon DEF u
    <2> QED
      BY <2>1, <2>2, <2>3, <2>4
  <1>12. ValidScheme("https")
    BY DEF ValidScheme
  <1> QED
    BY <1>4, <1>10, <1>11, <1>12, MasqueFacts, Zenon DEF UriOk, T
-----------------------------------------------------------------------------
(* Rewriting: the same parameters, in another order or spelling.             *)

\* Two parts say the same.
Same(p, q) == \A k \in Keys : (Sets(p, k) <=> Sets(q, k)) /\ Value(p, k) = Value(q, k)

\* The parts qs that are not empty are those of ps, each once; f tells which.
Relabels(f, ps, qs) ==
  /\ \A i \in 1 .. Len(qs) : qs[i] # <<>> => f[i] \in 1 .. Len(ps) /\ ps[f[i]] # <<>> /\ Same(ps[f[i]], qs[i])
  /\ \A i, j \in 1 .. Len(qs) : qs[i] # <<>> /\ qs[j] # <<>> /\ f[i] = f[j] => i = j
  /\ \A j \in 1 .. Len(ps) : ps[j] # <<>> => \E i \in 1 .. Len(qs) : f[i] = j /\ qs[i] # <<>>

\* Then they carry the same request.
LEMMA Relabelled ==
  ASSUME NEW o, NEW ps, NEW qs, NEW f, Carries(ps, o), Relabels(f, ps, qs)
  PROVE  Carries(qs, o)
  <1>0. \A p, k : Sets(p, k) => p # <<>>
    BY SetsOne, Zenon
  <1>1. ASSUME NEW i \in 1 .. Len(qs), qs[i] # <<>>
        PROVE  \E k \in Keys : Sets(qs[i], k) /\ Value(qs[i], k) = Wanted(o, k)
    <2>1. f[i] \in 1 .. Len(ps) /\ ps[f[i]] # <<>> /\ Same(ps[f[i]], qs[i])
      BY <1>1, Zenon DEF Relabels
    <2>2. PICK k \in Keys : Sets(ps[f[i]], k) /\ Value(ps[f[i]], k) = Wanted(o, k)
      BY <2>1, Zenon DEF Carries
    <2>3. Sets(qs[i], k) /\ Value(ps[f[i]], k) = Value(qs[i], k)
      BY <2>1, <2>2, Zenon DEF Same
    <2> QED
      BY <2>2, <2>3, Zenon
  <1>2. ASSUME NEW i \in 1 .. Len(qs), NEW j \in 1 .. Len(qs), NEW k \in Keys, Sets(qs[i], k), Sets(qs[j], k)
        PROVE  i = j
    <2>1. qs[i] # <<>> /\ qs[j] # <<>>
      BY <1>0, <1>2, Zenon
    <2>2. /\ f[i] \in 1 .. Len(ps) /\ Same(ps[f[i]], qs[i])
          /\ f[j] \in 1 .. Len(ps) /\ Same(ps[f[j]], qs[j])
      BY <2>1, Zenon DEF Relabels
    <2>3. Sets(ps[f[i]], k) /\ Sets(ps[f[j]], k)
      BY <1>2, <2>2, Zenon DEF Same
    <2>4. f[i] = f[j]
      BY <2>2, <2>3, Zenon DEF Carries
    <2> QED
      BY <2>1, <2>4, Zenon DEF Relabels
  <1>3. ASSUME NEW k \in Keys, Wanted(o, k) # {} PROVE \E i \in 1 .. Len(qs) : Sets(qs[i], k)
    <2>1. PICK j \in 1 .. Len(ps) : Sets(ps[j], k)
      BY <1>3, Zenon DEF Carries
    <2>2. ps[j] # <<>>
      BY <1>0, <2>1, Zenon
    <2>3. PICK i \in 1 .. Len(qs) : f[i] = j /\ qs[i] # <<>>
      BY <2>2, Zenon DEF Relabels
    <2>4. Same(ps[f[i]], qs[i])
      BY <2>3, Zenon DEF Relabels
    <2> QED
      BY <2>1, <2>3, <2>4, Zenon DEF Same
  <1> QED
    BY <1>1, <1>2, <1>3, Zenon DEF Carries

LEMMA SameSelf ==
  ASSUME NEW p
  PROVE  Same(p, p)
  BY Zenon DEF Same

LEMMA Rotated ==
  ASSUME NEW A, NEW ps \in Seq(A), ps # <<>>
  PROVE  /\ Append(Tail(ps), Head(ps)) \in Seq(A) /\ Append(Tail(ps), Head(ps)) # <<>>
         /\ \E f : Relabels(f, ps, Append(Tail(ps), Head(ps)))
  <1> DEFINE r == Append(Tail(ps), Head(ps))
             n == Len(ps)
             f == [i \in 1 .. n |-> IF i = n THEN 1 ELSE i + 1]
  <1>1. n \in Nat \ {0}
    BY SeqFacts
  <1>2. r \in Seq(A) /\ Len(r) = n /\ r[n] = ps[1] /\ \A i \in 1 .. n - 1 : r[i] = ps[i + 1]
    OBVIOUS
  <1>3. r # <<>>
    BY <1>1, <1>2, SeqFacts
  <1> HIDE DEF r, n
  <1>4. \A i \in 1 .. n : f[i] \in 1 .. n /\ r[i] = ps[f[i]]
    BY <1>1, <1>2
  <1>5. \A i, j \in 1 .. n : f[i] = f[j] => i = j
    BY <1>1
  <1>6. \A j \in 1 .. n : \E i \in 1 .. n : f[i] = j
    <2> TAKE j \in 1 .. n
    <2>1. CASE j = 1
      BY <1>1, <2>1
    <2>2. CASE j # 1
      <3>1. j - 1 \in 1 .. n /\ f[j - 1] = j
        BY <1>1, <2>2
      <3> QED
        BY <3>1
    <2> QED
      BY <2>1, <2>2
  <1> HIDE DEF f
  <1>7. Relabels(f, ps, r)
    <2>1. ASSUME NEW i \in 1 .. n, r[i] # <<>>
          PROVE  f[i] \in 1 .. n /\ ps[f[i]] # <<>> /\ Same(ps[f[i]], r[i])
      <3>1. f[i] \in 1 .. n /\ r[i] = ps[f[i]]
        BY <1>4
      <3>2. Same(r[i], r[i])
        BY SameSelf, Zenon
      <3> QED
        BY <2>1, <3>1, <3>2, Zenon
    <2>2. ASSUME NEW j \in 1 .. n, ps[j] # <<>> PROVE \E i \in 1 .. n : f[i] = j /\ r[i] # <<>>
      <3>1. PICK i \in 1 .. n : f[i] = j
        BY <1>6
      <3>2. r[i] = ps[f[i]]
        BY <1>4
      <3> QED
        BY <2>2, <3>1, <3>2, Zenon
    <2>3. Len(r) = n
      BY <1>2
    <2> QED
      BY <1>5, <2>1, <2>2, <2>3, Zenon DEF Relabels, n
  <1> QED
    BY <1>2, <1>3, <1>7, Zenon DEF r

LEMMA HeadReplaced ==
  ASSUME NEW A, NEW ps \in Seq(A), ps # <<>>, ps[1] # <<>>, NEW x \in A, x # <<>>, Same(ps[1], x)
  PROVE  /\ <<x>> \o Tail(ps) \in Seq(A) /\ <<x>> \o Tail(ps) # <<>>
         /\ \E f : Relabels(f, ps, <<x>> \o Tail(ps))
  <1> DEFINE r == <<x>> \o Tail(ps)
             n == Len(ps)
             f == [i \in 1 .. n |-> i]
  <1>1. n \in Nat \ {0}
    BY SeqFacts
  <1>2. r \in Seq(A) /\ Len(r) = n /\ r[1] = x /\ \A i \in 2 .. n : r[i] = ps[i]
    OBVIOUS
  <1>3. r # <<>>
    BY <1>1, <1>2, SeqFacts
  <1> HIDE DEF r, n
  <1>4. \A i \in 1 .. n : f[i] = i /\ (i = 1 \/ i \in 2 .. n)
    BY <1>1
  <1>40. 1 \in 1 .. n
    BY <1>1
  <1> HIDE DEF f
  <1>5. \A i \in 1 .. n : Same(ps[i], r[i]) /\ (ps[i] = <<>> <=> r[i] = <<>>)
    BY <1>2, <1>4, SameSelf, Zenon
  <1>7. Relabels(f, ps, r)
    <2>1. ASSUME NEW i \in 1 .. n, r[i] # <<>>
          PROVE  f[i] \in 1 .. n /\ ps[f[i]] # <<>> /\ Same(ps[f[i]], r[i])
      <3>1. f[i] = i /\ Same(ps[i], r[i]) /\ (ps[i] = <<>> <=> r[i] = <<>>)
        BY <1>4, <1>5, Zenon
      <3> QED
        BY <2>1, <3>1, Zenon
    <2>2. ASSUME NEW j \in 1 .. n, ps[j] # <<>> PROVE \E i \in 1 .. n : f[i] = j /\ r[i] # <<>>
      <3>1. f[j] = j /\ (ps[j] = <<>> <=> r[j] = <<>>)
        BY <1>4, <1>5, Zenon
      <3> QED
        BY <2>2, <3>1, Zenon
    <2>3. Len(r) = n
      BY <1>2
    <2>4. \A i, j \in 1 .. n : f[i] = f[j] => i = j
      BY <1>4, Zenon
    <2> QED
      BY <2>1, <2>2, <2>3, <2>4, Zenon DEF Relabels, n
  <1> QED
    BY <1>2, <1>3, <1>7, Zenon DEF r

LEMMA EmptyInFront ==
  ASSUME NEW A, NEW ps \in Seq(A), <<>> \in A
  PROVE  \E f : Relabels(f, ps, <<<<>>>> \o ps)
  <1> DEFINE n == Len(ps)
             f == [i \in 1 .. n + 1 |-> i - 1]
  <1>1. PICK e \in A : e = <<>>
    BY Zenon
  <1> DEFINE r == <<e>> \o ps
  <1>2. n \in Nat
    BY SeqFacts
  <1>3. Len(r) = n + 1 /\ r[1] = e /\ \A i \in 2 .. n + 1 : r[i] = ps[i - 1]
    OBVIOUS
  <1> HIDE DEF r, n
  <1>4. \A i \in 1 .. n + 1 : i = 1 \/ i \in 2 .. n + 1
    BY <1>2
  <1>5. \A i \in 2 .. n + 1 : f[i] \in 1 .. n /\ r[i] = ps[f[i]] /\ f[i] = i - 1
    BY <1>2, <1>3
  <1>6. \A i, j \in 1 .. n + 1 : f[i] = f[j] => i = j
    BY <1>2
  <1>7. \A j \in 1 .. n : j + 1 \in 1 .. n + 1 /\ j + 1 \in 2 .. n + 1 /\ f[j + 1] = j
    BY <1>2
  <1> HIDE DEF f
  <1>8. Relabels(f, ps, r)
    <2>1. \A i \in 1 .. n + 1 : r[i] # <<>> => i \in 2 .. n + 1
      BY <1>1, <1>3, <1>4, Zenon
    <2>2. \A j \in 1 .. n : ps[j] # <<>> => \E i \in 1 .. n + 1 : f[i] = j /\ r[i] # <<>>
      <3> TAKE j \in 1 .. n
      <3>1. PICK i \in 2 .. n + 1 : i \in 1 .. n + 1 /\ f[i] = j
        BY <1>7, Zenon
      <3>2. r[i] = ps[f[i]]
        BY <1>5, Zenon
      <3> QED
        BY <3>1, <3>2, Zenon
    <2>3. \A i \in 1 .. n + 1 : r[i] # <<>> => f[i] \in 1 .. n /\ ps[f[i]] # <<>> /\ Same(ps[f[i]], r[i])
      BY <1>5, <2>1, SameSelf, Zenon
    <2> QED
      BY <1>3, <1>6, <2>2, <2>3, Zenon DEF Relabels, n
  <1> QED
    BY <1>1, <1>8, Zenon DEF r

LEMMA PairIs ==
  ASSUME NEW A, NEW a \in A, NEW b \in A
  PROVE  <<a>> \o <<b>> = <<a, b>>
  <1>1. <<a>> \in Seq(A)
    BY OneFacts, Zenon
  <1>2. Append(<<a>>, b) = <<a>> \o <<b>>
    BY <1>1, AppendIsConcat, Zenon
  <1>3. Append(<<a>>, b) = <<a, b>>
    BY ThreeFacts
  <1> QED
    BY <1>2, <1>3, Zenon

LEMMA InnerPart ==
  ASSUME NEW p \in Seq(Inner), Len(p) >= 2
  PROVE  SubSeq(p, 3, Len(p)) \in Seq(Inner)
  <1>1. Len(p) \in Nat
    BY SeqFacts
  <1>2. Len(p) \in 3 - 1 .. Len(p)
    BY <1>1
  <1> QED
    BY <1>2, PartFacts

LEMMA InnerTokens ==
  ASSUME NEW s \in Seq(Inner)
  PROVE  s \in Seq(Token) /\ \A i \in 1 .. Len(s) : s[i] # Raw("&") /\ s[i] # Raw("#")
  <1>1. s \in Seq(Token)
    BY InnerFacts, SeqMonotonic, Zenon
  <1>2. \A i \in 1 .. Len(s) : s[i] \in Inner
    BY SeqFacts
  <1> QED
    BY <1>1, <1>2, Zenon DEF Inner

LEMMA EscapedInner ==
  ASSUME NEW s \in Seq(Inner)
  PROVE  Escape(s) \in Seq(Inner) /\ Chars(Escape(s)) = Chars(s) /\ (Decodable(Escape(s)) <=> Decodable(s))
  <1>1. s \in Seq(Token) /\ \A i \in 1 .. Len(s) : s[i] # Raw("&") /\ s[i] # Raw("#")
    BY InnerTokens
  <1> DEFINE e == Escape(s)
  <1>2. e \in Seq(Token) /\ Len(e) = Len(s) /\ Chars(e) = Chars(s) /\ (Decodable(e) <=> Decodable(s))
    BY <1>1, EscapeFacts
  <1>3. \A c : c \notin Unreserved => \A i \in 1 .. Len(s) : e[i] = Raw(c) <=> s[i] = Raw(c)
    BY <1>1, EscapeFacts
  <1> HIDE DEF e
  <1>4. \A i \in 1 .. Len(e) : e[i] # Raw("&") /\ e[i] # Raw("#")
    BY <1>1, <1>2, <1>3, CharacterKinds, Zenon
  <1>5. e \in Seq(Inner)
    BY <1>2, <1>4, InnerFacts, Zenon
  <1> QED
    BY <1>2, <1>5, Zenon DEF e

\* A parameter with its value escaped says the same.
LEMMA EscapedParameter ==
  ASSUME NEW p \in Seq(Inner), NEW k \in Keys, Sets(p, k)
  PROVE  EscapeValue(p) \in Seq(Inner) /\ EscapeValue(p) # <<>> /\ Same(p, EscapeValue(p))
  <1> DEFINE s == SubSeq(p, 3, Len(p))
             e == Escape(s)
             x == Parameter(k, e)
  <1>1. p \in Seq(Token)
    BY InnerTokens, Zenon
  <1>2. Begins(p, k) /\ Decodable(s) /\ Valid(k, Chars(s)) # {}
    BY <1>1, SetsFacts, Zenon
  <1>3. s \in Seq(Inner)
    BY <1>2, InnerPart, Zenon DEF Begins
  <1>4. KeyOf(p) = <<Raw(k)>> /\ ValueOf(p) = s
    BY <1>1, <1>2, KeyFacts, Zenon
  <1> HIDE DEF s
  <1>5. e \in Seq(Inner) /\ Chars(e) = Chars(s) /\ (Decodable(e) <=> Decodable(s))
    BY <1>3, EscapedInner, Zenon
  <1>6. EscapeValue(p) = x
    <2>1. <<Raw(k)>> \o <<Raw("=")>> = <<Raw(k), Raw("=")>>
      <3>1. Raw(k) \in Inner /\ Raw("=") \in Inner
        BY InnerFacts, Zenon
      <3> QED
        BY <3>1, PairIs
    <2>2. EscapeValue(p) = (KeyOf(p) \o <<Raw("=")>>) \o Escape(ValueOf(p))
      BY Zenon DEF EscapeValue
    <2> QED
      BY <1>4, <2>1, <2>2, Zenon DEF Parameter
  <1> HIDE DEF e
  <1>7. /\ x \in Seq(Inner) /\ Begins(x, k) /\ SubSeq(x, 3, Len(x)) = e
    BY <1>5, ParameterFacts, Zenon
  <1>8. Sets(x, k) /\ Value(x, k) = Valid(k, Chars(e))
    <2>1. Decodable(e) /\ Valid(k, Chars(e)) # {}
      BY <1>2, <1>5, Zenon DEF s
    <2> QED
      BY <1>5, <2>1, ParameterFacts, Zenon
  <1> HIDE DEF x
  <1>9. x \in Seq(Token) /\ x # <<>>
    BY <1>7, <1>8, InnerTokens, SetsOne, Zenon
  <1>10. \A j \in Keys : (Sets(p, j) \/ Sets(x, j)) => j = k
    BY <1>1, <1>8, <1>9, SetsOne, Zenon
  <1>11. \A j \in Keys : Value(p, j) = Value(x, j)
    BY <1>5, <1>7, Zenon DEF Value, s
  <1>12. Same(p, x)
    BY <1>8, <1>10, <1>11, Zenon DEF Same
  <1> QED
    BY <1>6, <1>7, <1>9, <1>12, Zenon

\* A query of relabelled parts carries the same request.
LEMMA QueryRewritten ==
  ASSUME NEW o, NEW u, UriOk(u, o), NEW qs \in Seq(Seq(Inner)), qs # <<>>,
         NEW f, Relabels(f, Pairs(u.query), qs)
  PROVE  UriOk([u EXCEPT !.query = Query(qs)], o)
  <1> DEFINE T == Token \ {Raw("#")}
             q == Query(qs)
             w == [u EXCEPT !.query = q]
  <1>1. Inner = T \ {Raw("&")} /\ Raw("&") \in T /\ T \subseteq Token
    BY InnerFacts, Zenon DEF Inner
  <1> HIDE DEF T
  <1>2. q \in Seq(T) /\ Pairs(q) = qs
    BY <1>1, QueryFacts, Zenon
  <1> HIDE DEF q
  <1>3. q \in Seq(Token)
    BY <1>1, <1>2, SeqMonotonic, Zenon
  <1>4. u \in Uri
    BY Zenon DEF UriOk
  <1>5. w \in Uri /\ w.scheme = u.scheme /\ w.authority = u.authority /\ w.path = u.path /\ w.query = q
    BY <1>3, <1>4 DEF Uri
  <1> HIDE DEF w
  <1>6. Carries(qs, o)
    BY Relabelled, Zenon DEF UriOk
  <1>7. UriOk(w, o)
    BY <1>2, <1>5, <1>6, Zenon DEF UriOk, T
  <1> QED
    BY <1>7, Zenon DEF w, q

LEMMA EmptyAdded ==
  ASSUME NEW o, NEW u, UriOk(u, o)
  PROVE  UriOk([u EXCEPT !.query = <<Raw("&")>> \o u.query], o)
  <1> DEFINE T == Token \ {Raw("#")}
             q == <<Raw("&")>> \o u.query
             w == [u EXCEPT !.query = q]
  <1>1. Raw("&") \in T /\ T \subseteq Token /\ u.query \in Seq(T) /\ u \in Uri
    BY InnerFacts, Zenon DEF UriOk
  <1>2. <<Raw("&")>> \in Seq(T)
    BY <1>1, OneFacts, Zenon
  <1> HIDE DEF T
  <1>3. q \in Seq(T)
    BY <1>1, <1>2, Associative, Zenon
  <1>4. Pairs(q) = <<<<>>>> \o Pairs(u.query)
    BY <1>1, PairsFront, Zenon
  <1> HIDE DEF q
  <1>5. q \in Seq(Token)
    BY <1>1, <1>3, SeqMonotonic, Zenon
  <1>6. w \in Uri /\ w.scheme = u.scheme /\ w.authority = u.authority /\ w.path = u.path /\ w.query = q
    BY <1>1, <1>5 DEF Uri
  <1> HIDE DEF w
  <1>7. PICK f : Relabels(f, Pairs(u.query), <<<<>>>> \o Pairs(u.query))
    <2>1. Pairs(u.query) \in Seq(Seq(Token))
      BY <1>1, PartsTyped, Zenon
    <2>2. <<>> \in Seq(Token)
      OBVIOUS
    <2> QED
      BY <2>1, <2>2, EmptyInFront
  <1>8. Carries(Pairs(q), o)
    BY <1>4, <1>7, Relabelled, Zenon DEF UriOk
  <1>9. UriOk(w, o)
    BY <1>3, <1>6, <1>8, Zenon DEF UriOk, T
  <1> QED
    BY <1>9, Zenon DEF w, q

LEMMA SchemeOrPathReplaced ==
  ASSUME NEW o, NEW u, UriOk(u, o)
  PROVE  /\ UriOk([u EXCEPT !.scheme = "HTTPS"], o)
         /\ UriOk([u EXCEPT !.path = Escape(u.path)], o)
  <1>1. u \in Uri /\ u.path \in Seq(Token) /\ NormalPath(u.path) = Masque
    BY Zenon DEF UriOk, Uri
  <1>2. UriOk([u EXCEPT !.scheme = "HTTPS"], o)
    <2> DEFINE w == [u EXCEPT !.scheme = "HTTPS"]
    <2>1. w \in Uri /\ w.scheme = "HTTPS" /\ w.authority = u.authority /\ w.path = u.path /\ w.query = u.query
      BY <1>1 DEF Uri
    <2>2. ValidScheme("HTTPS")
      BY DEF ValidScheme
    <2> HIDE DEF w
    <2>3. UriOk(w, o)
      BY <2>1, <2>2, Zenon DEF UriOk
    <2> QED
      BY <2>3, Zenon DEF w
  <1>3. UriOk([u EXCEPT !.path = Escape(u.path)], o)
    <2>1. Escape(u.path) \in Seq(Token) /\ NormalPath(Escape(u.path)) = NormalPath(u.path)
      BY <1>1, EscapeFacts
    <2> DEFINE e == Escape(u.path)
               w == [u EXCEPT !.path = e]
    <2> HIDE DEF e
    <2>2. w \in Uri /\ w.scheme = u.scheme /\ w.authority = u.authority /\ w.path = e /\ w.query = u.query
      BY <1>1, <2>1 DEF Uri, e
    <2> HIDE DEF w
    <2>3. UriOk(w, o)
      BY <1>1, <2>1, <2>2, Zenon DEF UriOk, e
    <2> QED
      BY <2>3, Zenon DEF w, e
  <1> QED
    BY <1>2, <1>3
-----------------------------------------------------------------------------
(* A request that a caller has built, or that a receiver has understood.     *)

LEMMA MakesOk ==
  ASSUME NEW h \in Text, ValidHost(h), Trim(h) = h, NEW p \in 1 .. MaxPort, NEW c,
         c = {} \/ \E text \in Text : c = {text} /\ ValidConfig(text)
  PROVE  RequestOk([host |-> h, port |-> p, config |-> c])
  <1> DEFINE o == [host |-> h, port |-> p, config |-> c]
  <1>1. o.host = h /\ o.port = p /\ o.config = c
    OBVIOUS
  <1>2. o = [host |-> o.host, port |-> o.port, config |-> o.config]
    OBVIOUS
  <1> HIDE DEF o
  <1>3. RequestOk(o)
    BY <1>1, <1>2, Zenon DEF RequestOk
  <1> QED
    BY <1>3, Zenon DEF o

LEMMA RefusedIs ==
  /\ \A r : Refused(r).result = r
  /\ \A r : [result |-> "Ok", request |-> r].result = "Ok" /\ [result |-> "Ok", request |-> r].request = r
  /\ Refused("uri").result = "uri"
  BY DEF Refused

\* What new returns is a request.
LEMMA BuiltOk ==
  ASSUME NEW host \in Text, NEW port, NEW config,
         \A text, other \in config : text \in Text /\ text = other,
         new(host, port, config).result = "Ok"
  PROVE  RequestOk(new(host, port, config).request)
  <1> DEFINE h == Trim(host)
             r == [host |-> h, port |-> port, config |-> config]
  <1>1. h \in Text /\ Trim(h) = h
    BY TrimText
  <1>2. \A x \in {"target_host", "target_port", "udp_proxy_config"} : Refused(x).result # "Ok"
    BY RefusedIs
  <1>3. new(host, port, config) =
          IF ~ValidHost(h) THEN Refused("target_host")
          ELSE IF ~ValidPort(port) THEN Refused("target_port")
          ELSE IF \E text \in config : ~ValidConfig(text) THEN Refused("udp_proxy_config")
          ELSE [result |-> "Ok", request |-> r]
    BY Zenon DEF new
  <1> HIDE DEF r, h
  <1>4. /\ ValidHost(h) /\ ValidPort(port) /\ \A text \in config : ValidConfig(text)
        /\ new(host, port, config) = [result |-> "Ok", request |-> r]
    BY <1>2, <1>3, Zenon
  <1>5. new(host, port, config).request = r
    BY <1>4, RefusedIs, Zenon
  <1>6. config = {} \/ \E text \in Text : config = {text} /\ ValidConfig(text)
    <2>1. ASSUME NEW text \in config PROVE text \in Text /\ config = {text} /\ ValidConfig(text)
      BY <1>4
    <2> QED
      BY <2>1
  <1>7. port \in 1 .. MaxPort
    BY <1>4, Zenon DEF ValidPort
  <1>8. RequestOk(r)
    BY <1>1, <1>4, <1>6, <1>7, MakesOk, Zenon DEF r
  <1> QED
    BY <1>5, <1>8, Zenon

LEMMA ValidGives ==
  /\ \A text : Valid("target_host", text) # {} =>
       Valid("target_host", text) = {Trim(text)} /\ ValidHost(Trim(text))
  /\ \A text : Valid("target_port", text) # {} =>
       Valid("target_port", text) = {PortNumber(text)} /\ ValidPort(PortNumber(text))
  /\ \A text : Valid("udp_proxy_config", text) # {} =>
       Valid("udp_proxy_config", text) = {text} /\ ValidConfig(text)
  <1>1. \A text : Valid("target_host", text) = {host \in {Trim(text)} : ValidHost(host)}
    BY DEF Valid
  <1>2. \A text : Valid("target_port", text) = {port \in {PortNumber(text)} : ValidPort(port)}
    BY DEF Valid
  <1>3. \A text : Valid("udp_proxy_config", text) = {config \in {text} : ValidConfig(config)}
    BY DEF Valid
  <1> HIDE DEF Valid
  <1> QED
    BY <1>1, <1>2, <1>3

LEMMA TokenIs ==
  ASSUME NEW t \in Token
  PROVE  t.char \in UriCharacter /\ (t = Raw(t.char) \/ t = Escaped(t.char))
  BY DEF Token, Raw, Escaped

\* What decode_query_value returns is a text again.
LEMMA DecodedText ==
  ASSUME NEW s \in Seq(Token \ {Raw("ff")}), Decodable(s)
  PROVE  Chars(s) \in Text
  <1>1. s \in Seq(Token) /\ \A i \in 1 .. Len(s) : s[i] \in Token /\ s[i] # Raw("ff")
    BY SeqFacts
  <1>2. Len(s) \in Nat
    BY SeqFacts
  <1>3. \A i \in 1 .. Len(s) : s[i] # Escaped("ff")
    BY <1>1, DecodableIs, Zenon
  <1> DEFINE c == Chars(s)
             Y == UriCharacter \ {"ff"}
  <1>4. c \in Seq(UriCharacter) /\ Len(c) = Len(s) /\ \A i \in 1 .. Len(s) : c[i] = s[i].char
    BY <1>1, CharsFacts
  <1>5. \A i \in 1 .. Len(s) : s[i].char \in UriCharacter /\ s[i].char # "ff"
    BY <1>1, <1>3, TokenIs, Zenon
  <1>6. \A i \in 1 .. Len(s) : c[i] \in Y
    BY <1>4, <1>5, Zenon
  <1> HIDE DEF c, Y
  <1>7. c = [i \in 1 .. Len(s) |-> c[i]]
    BY <1>4
  <1>8. c \in Seq(Y)
    BY <1>2, <1>6, <1>7, SeqIs
  <1> QED
    BY <1>8, Zenon DEF c, Y, Text

\* What from_uri returns, for a URI of anyone, is a request that new could have made.
LEMMA UnderstoodOk ==
  ASSUME NEW u \in Uri, u.query \in Seq(Token \ {Raw("ff")}), from_uri(u).result = "Ok"
  PROVE  RequestOk(from_uri(u).request)
  <1> DEFINE T == Token \ {Raw("ff")}
             A == T \ {Raw("&")}
             ps == Pairs(u.query)
             read == ReadAll(ps)
             v == read.values
             host == Only(v["target_host"])
             port == Only(v["target_port"])
             r == [host |-> host, port |-> port, config |-> v["udp_proxy_config"]]
  <1>1. read.result = "Ok" /\ v["target_host"] # {} /\ v["target_port"] # {}
    BY Accepted, Zenon
  <1>2. from_uri(u) =
          IF TooLong(u) THEN Refused("uri")
          ELSE IF Raw("#") \in ToSet(u.path) \cup ToSet(u.query) THEN Refused("fragment")
          ELSE IF ~ValidScheme(u.scheme) THEN Refused("scheme")
          ELSE IF u.authority \notin ValidAuthorities THEN Refused("authority")
          ELSE IF NormalPath(u.path) # Masque THEN Refused("path")
          ELSE IF read.result # "Ok" THEN Refused(read.result)
          ELSE IF v["target_host"] = {} THEN Refused("target_host")
          ELSE IF v["target_port"] = {} THEN Refused("target_port")
          ELSE [result |-> "Ok", request |-> r]
    BY Zenon DEF from_uri
  <1>3. T \subseteq Token /\ A \subseteq Token /\ A \subseteq T
    OBVIOUS
  <1>4. ps \in Seq(Seq(A)) /\ ps \in Seq(Seq(Token))
    BY <1>3, PartsTyped, Zenon
  <1> HIDE DEF ps, r
  <1>5. from_uri(u).request = r
    <2>1. Refused("uri").result # "Ok" /\ Refused("fragment").result # "Ok" /\ Refused("scheme").result # "Ok"
      BY DEF Refused
    <2>2. Refused("authority").result # "Ok" /\ Refused("path").result # "Ok"
      BY DEF Refused
    <2>3. Refused("target_host").result # "Ok" /\ Refused("target_port").result # "Ok"
      BY DEF Refused
    <2>4. from_uri(u) = [result |-> "Ok", request |-> r]
      BY <1>1, <1>2, <2>1, <2>2, <2>3, Zenon
    <2> QED
      BY <2>4, RefusedIs, Zenon
  <1> HIDE DEF read, T, A
  <1>6. Fits(ps) /\ Holds(ps, v)
    BY <1>1, <1>4, ReadAllIs, Zenon DEF ReadWell, read
  <1>7. ASSUME NEW k \in Keys, v[k] # {} PROVE \E text \in Text : v[k] = Valid(k, text)
    <2>1. PICK i \in 1 .. Len(ps) : Sets(ps[i], k)
      BY <1>6, <1>7, Zenon DEF Holds
    <2>2. v[k] = Value(ps[i], k)
      BY <1>6, <2>1, Zenon DEF Holds
    <2>3. PICK p \in Seq(A) : p = ps[i]
      BY <1>4, SeqFacts
    <2> DEFINE s == SubSeq(p, 3, Len(p))
    <2>4. Decodable(s) /\ Len(p) >= 2
      BY <2>1, <2>3, Zenon DEF Sets
    <2>5. s \in Seq(A)
      <3>1. Len(p) \in 3 - 1 .. Len(p)
        <4>1. Len(p) \in Nat
          BY SeqFacts
        <4> QED
          BY <2>4, <4>1
      <3> QED
        BY <3>1, PartFacts
    <2>6. s \in Seq(T)
      BY <1>3, <2>5, SeqMonotonic, Zenon
    <2>7. Chars(s) \in Text
      BY <2>4, <2>6, DecodedText, Zenon DEF T
    <2>8. v[k] = Valid(k, Chars(s))
      BY <2>2, <2>3, Zenon DEF Value
    <2> QED
      BY <2>7, <2>8, Zenon
  <1> HIDE DEF v
  <1>8. "target_host" \in Keys /\ "target_port" \in Keys /\ "udp_proxy_config" \in Keys
    BY ThreeKeys, Zenon
  <1>9. host \in Text /\ ValidHost(host) /\ Trim(host) = host
    <2>1. PICK text \in Text : v["target_host"] = Valid("target_host", text)
      BY <1>1, <1>7, <1>8, Zenon
    <2>2. v["target_host"] = {Trim(text)} /\ ValidHost(Trim(text))
      BY <1>1, <2>1, ValidGives, Zenon
    <2>3. host = Trim(text)
      BY <2>2, OnlyFacts
    <2> QED
      BY <2>2, <2>3, TrimText, Zenon
  <1>10. port \in 1 .. MaxPort
    <2>1. PICK text \in Text : v["target_port"] = Valid("target_port", text)
      BY <1>1, <1>7, <1>8, Zenon
    <2>2. v["target_port"] = {PortNumber(text)} /\ ValidPort(PortNumber(text))
      BY <1>1, <2>1, ValidGives, Zenon
    <2>3. port = PortNumber(text)
      BY <2>2, OnlyFacts
    <2> QED
      BY <2>2, <2>3, Zenon DEF ValidPort
  <1>11. v["udp_proxy_config"] = {} \/ \E text \in Text : v["udp_proxy_config"] = {text} /\ ValidConfig(text)
    <2>1. ASSUME v["udp_proxy_config"] # {}
          PROVE  \E text \in Text : v["udp_proxy_config"] = {text} /\ ValidConfig(text)
      <3>1. PICK text \in Text : v["udp_proxy_config"] = Valid("udp_proxy_config", text)
        BY <1>7, <1>8, <2>1, Zenon
      <3>2. v["udp_proxy_config"] = {text} /\ ValidConfig(text)
        BY <2>1, <3>1, ValidGives, Zenon
      <3> QED
        BY <3>2, Zenon
    <2> QED
      BY <2>1, Zenon
  <1> HIDE DEF host, port
  <1>12. RequestOk(r)
    BY <1>9, <1>10, <1>11, MakesOk, Zenon DEF r
  <1> QED
    BY <1>5, <1>12, Zenon

\* A URI after a step of Rewrite.
Rewritten(u, w) ==
  LET pairs == Pairs(u.query) IN
    \/ w = [u EXCEPT !.scheme = "HTTPS"]
    \/ w = [u EXCEPT !.path = Escape(u.path)]
    \/ w = [u EXCEPT !.query = Query(Append(Tail(pairs), Head(pairs)))]
    \/ pairs[1] # <<>> /\ w = [u EXCEPT !.query = Query(<<EscapeValue(Head(pairs))>> \o Tail(pairs))]
    \/ w = [u EXCEPT !.query = <<Raw("&")>> \o u.query]

LEMMA RewriteIs ==
  Rewrite => Rewritten(uri, uri')
  BY DEF Rewrite, Rewritten

\* A rewritten URI carries the same request.
LEMMA RewrittenOk ==
  ASSUME NEW o, NEW u, UriOk(u, o), NEW w, Rewritten(u, w)
  PROVE  UriOk(w, o)
  <1> DEFINE ps == Pairs(u.query)
  <1>1. ps \in Seq(Seq(Inner)) /\ ps # <<>>
    <2> DEFINE T == Token \ {Raw("#")}
    <2>1. T \subseteq Token /\ u.query \in Seq(T)
      BY Zenon DEF UriOk
    <2>2. T \ {Raw("&")} = Inner
      BY Zenon DEF Inner
    <2> HIDE DEF T
    <2> QED
      BY <2>1, <2>2, PartsTyped, Zenon
  <1>2. Head(ps) = ps[1] /\ ps[1] \in Seq(Inner) /\ 1 \in 1 .. Len(ps)
    BY <1>1, SeqFacts
  <1>3. \/ w = [u EXCEPT !.scheme = "HTTPS"]
        \/ w = [u EXCEPT !.path = Escape(u.path)]
        \/ w = [u EXCEPT !.query = Query(Append(Tail(ps), Head(ps)))]
        \/ ps[1] # <<>> /\ w = [u EXCEPT !.query = Query(<<EscapeValue(Head(ps))>> \o Tail(ps))]
        \/ w = [u EXCEPT !.query = <<Raw("&")>> \o u.query]
    BY Zenon DEF Rewritten
  <1>4. CASE w = [u EXCEPT !.scheme = "HTTPS"]
    BY <1>4, SchemeOrPathReplaced, Zenon
  <1>5. CASE w = [u EXCEPT !.path = Escape(u.path)]
    BY <1>5, SchemeOrPathReplaced, Zenon
  <1>6. CASE w = [u EXCEPT !.query = Query(Append(Tail(ps), Head(ps)))]
    <2>1. PICK r \in Seq(Seq(Inner)) : r = Append(Tail(ps), Head(ps)) /\ r # <<>> /\ \E f : Relabels(f, ps, r)
      BY <1>1, Rotated, Zenon
    <2>2. UriOk([u EXCEPT !.query = Query(r)], o)
      BY <2>1, QueryRewritten, Zenon
    <2> QED
      BY <1>6, <2>1, <2>2, Zenon
  <1>7. CASE ps[1] # <<>> /\ w = [u EXCEPT !.query = Query(<<EscapeValue(Head(ps))>> \o Tail(ps))]
    <2>1. PICK k \in Keys : Sets(ps[1], k)
      BY <1>2, <1>7, Zenon DEF UriOk, Carries
    <2>2. PICK x \in Seq(Inner) : x = EscapeValue(Head(ps)) /\ x # <<>> /\ Same(ps[1], x)
      BY <1>2, <2>1, EscapedParameter, Zenon
    <2>3. PICK r \in Seq(Seq(Inner)) : r = <<x>> \o Tail(ps) /\ r # <<>> /\ \E f : Relabels(f, ps, r)
      BY <1>1, <1>7, <2>2, HeadReplaced, Zenon
    <2>4. UriOk([u EXCEPT !.query = Query(r)], o)
      BY <2>3, QueryRewritten, Zenon
    <2> QED
      BY <1>7, <2>2, <2>3, <2>4, Zenon
  <1>8. CASE w = [u EXCEPT !.query = <<Raw("&")>> \o u.query]
    BY <1>8, EmptyAdded, Zenon
  <1> QED
    BY <1>3, <1>4, <1>5, <1>6, <1>7, <1>8, Zenon
-----------------------------------------------------------------------------
(* The request survives.                                                     *)

\* The request is the first sender's and is valid, and the URI on the way carries it.
RequestInv ==
  /\ stage = "built" \/ stage = "sent" \/ stage = "received" => request = original /\ RequestOk(original)
  /\ stage = "sent" => UriOk(uri, original)

\* RequestInv is inductive: a request is built, sent, rewritten, received and sent on.
LEMMA RequestInvHolds == Spec => []RequestInv
  <1>1. Init => RequestInv
    <2> SUFFICES ASSUME Init PROVE stage # "built" /\ stage # "sent" /\ stage # "received"
      BY Zenon DEF RequestInv
    <2>1. stage = "start"
      BY Zenon DEF Init
    <2> QED
      BY <2>1
  <1>2. ForeignInv /\ RequestInv /\ [Next]_vars => RequestInv'
    <2> SUFFICES ASSUME ForeignInv, RequestInv, [Next]_vars PROVE RequestInv'
      OBVIOUS
    <2>0. /\ stage = "built" \/ stage = "sent" \/ stage = "received" => request = original /\ RequestOk(original)
          /\ stage = "sent" => UriOk(uri, original)
      BY Zenon DEF RequestInv
    <2>1. ASSUME UNCHANGED <<stage, request, original, uri>> PROVE RequestInv'
      BY <2>0, <2>1, Zenon DEF RequestInv
    <2>2. ASSUME stage' # "built", stage' # "sent", stage' # "received" PROVE RequestInv'
      BY <2>2, Zenon DEF RequestInv
    <2>3. ASSUME stage' # "sent", request' = original', RequestOk(original') PROVE RequestInv'
      BY <2>3, Zenon DEF RequestInv
    <2>4. ASSUME stage' = "refused" PROVE RequestInv'
      <3>1. stage' # "built" /\ stage' # "sent" /\ stage' # "received"
        BY <2>4
      <3> QED
        BY <3>1, <2>2, Zenon
    <2>5. ASSUME NEW host \in Hosts, NEW port \in Ports, NEW config \in Configs, Build(host, port, config)
          PROVE  RequestInv'
      <3> DEFINE built == new(host, port, config)
      <3>1. \/ built.result = "Ok" /\ stage' = "built" /\ request' = built.request /\ original' = built.request
            \/ stage' = "refused"
        BY <2>5, Zenon DEF Build
      <3>2. CASE built.result = "Ok" /\ stage' = "built" /\ request' = built.request /\ original' = built.request
        <4>1. host \in Text /\ \A text, other \in config : text \in Text /\ text = other
          BY HeadAssumption, Zenon
        <4>2. RequestOk(built.request)
          BY <3>2, <4>1, BuiltOk, Zenon
        <4>3. stage' # "sent"
          BY <3>2
        <4> QED
          BY <3>2, <4>2, <4>3, <2>3, Zenon
      <3> QED
        BY <3>1, <3>2, <2>4, Zenon
    <2>6. ASSUME NEW authority \in Authorities, NEW value \in BOOLEAN, Send(authority, value)
          PROVE  RequestInv'
      <3> DEFINE sent == to_uri(request, authority)
      <3>1. stage = "built" /\ UNCHANGED <<request, original>>
        BY <2>6, Zenon DEF Send
      <3>2. \/ sent.result = "Ok" /\ uri' = sent.uri
            \/ stage' = "refused"
        BY <2>6, Zenon DEF Send
      <3>3. request = original /\ RequestOk(original)
        BY <2>0, <3>1, Zenon
      <3>4. CASE sent.result = "Ok" /\ uri' = sent.uri
        <4>1. UriOk(sent.uri, original)
          BY <3>3, <3>4, Sent, Zenon
        <4> QED
          BY <3>1, <3>3, <3>4, <4>1, Zenon DEF RequestInv
      <3> QED
        BY <3>2, <3>4, <2>4, Zenon
    <2>7. ASSUME NEW base \in Bases, WriteBase(base) PROVE RequestInv'
      <3>1. stage' = "foreign"
        BY <2>7, Zenon DEF WriteBase
      <3>2. stage' # "built" /\ stage' # "sent" /\ stage' # "received"
        BY <3>1
      <3> QED
        BY <3>2, <2>2, Zenon
    <2>8. ASSUME NEW p \in Parameters, WriteParameter(p) PROVE RequestInv'
      <3>1. stage = "foreign" /\ stage' = stage
        BY <2>8, Zenon DEF WriteParameter
      <3>2. stage' # "built" /\ stage' # "sent" /\ stage' # "received"
        BY <3>1
      <3> QED
        BY <3>2, <2>2, Zenon
    <2>9. CASE WriteField
      <3>1. UNCHANGED <<stage, request, original, uri>>
        BY <2>9, Zenon DEF WriteField
      <3> QED
        BY <3>1, <2>1, Zenon
    <2>10. CASE Receive
      <3> DEFINE received == from_uri(uri)
      <3>1. /\ part = "uri" /\ (stage = "sent" \/ stage = "foreign")
            /\ \/ /\ received.result = "Ok" /\ stage' = "received" /\ request' = received.request
                  /\ original' = IF stage = "foreign" THEN received.request ELSE original
               \/ stage' = "refused"
        BY <2>10, Zenon DEF Receive
      <3>2. CASE /\ received.result = "Ok" /\ stage' = "received" /\ request' = received.request
                 /\ original' = IF stage = "foreign" THEN received.request ELSE original
        <4>1. stage' # "sent"
          BY <3>2
        <4>2. CASE stage = "foreign"
          <5>1. RequestOk(received.request)
            BY <3>1, <3>2, <4>2, UnderstoodOk, Zenon DEF ForeignInv
          <5> QED
            BY <3>2, <4>1, <4>2, <5>1, <2>3, Zenon
        <4>3. CASE stage = "sent"
          <5>1. RequestOk(original) /\ UriOk(uri, original)
            BY <2>0, <4>3, Zenon
          <5>2. received = Refused("uri") \/ received = [result |-> "Ok", request |-> original]
            BY <5>1, CarriedAccepted, Zenon
          <5>3. received # Refused("uri")
            <6>1. "uri" # "Ok"
              OBVIOUS
            <6> QED
              BY <3>2, <6>1, RefusedIs, Zenon
          <5>4. received.request = original
            BY <5>2, <5>3, RefusedIs, Zenon
          <5>5. stage # "foreign"
            BY <4>3
          <5>6. request' = original' /\ original' = original
            BY <3>2, <5>4, <5>5, Zenon
          <5> QED
            BY <4>1, <5>1, <5>6, <2>3, Zenon
        <4> QED
          BY <3>1, <4>2, <4>3, Zenon
      <3> QED
        BY <3>1, <3>2, <2>4, Zenon
    <2>11. CASE Forward
      <3>1. stage = "received" /\ stage' = "built" /\ UNCHANGED <<request, original>>
        BY <2>11, Zenon DEF Forward
      <3>2. stage' # "sent"
        BY <3>1
      <3> QED
        BY <2>0, <3>1, <3>2, <2>3, Zenon
    <2>12. CASE Rewrite
      <3>1. stage = "sent" /\ UNCHANGED <<stage, request, original>>
        BY <2>12, Zenon DEF Rewrite
      <3>2. UriOk(uri, original)
        BY <2>0, <3>1, Zenon
      <3>3. UriOk(uri', original)
        BY <2>12, <3>2, RewriteIs, RewrittenOk, Zenon
      <3> QED
        BY <2>0, <3>1, <3>3, Zenon DEF RequestInv
    <2>13. ASSUME NEW parameter \in Extensions, Extend(parameter) PROVE RequestInv'
      <3>1. UNCHANGED <<stage, request, original, uri>>
        BY <2>13, Zenon DEF Extend
      <3> QED
        BY <3>1, <2>1, Zenon
    <2>14. CASE UNCHANGED vars
      <3>1. UNCHANGED <<stage, request, original, uri>>
        BY <2>14, Zenon DEF vars
      <3> QED
        BY <3>1, <2>1, Zenon
    <2> QED
      BY <2>5, <2>6, <2>7, <2>8, <2>9, <2>10, <2>11, <2>12, <2>13, <2>14, Zenon DEF Next
  <1> QED
    BY <1>1, <1>2, ForeignInvHolds, PTL DEF Spec

\* However its URI is rewritten and however often it is sent on, a request is
\* understood as it was meant, or its URI refused for its length, for any hosts,
\* ports and configurations (to_uri and from_uri).
THEOREM RequestIsPreserved == Spec => []RequestPreserved
  <1>1. RequestInv => RequestPreserved
    <2> SUFFICES ASSUME RequestInv, stage = "sent"
                 PROVE  LET read == from_uri(uri) IN
                          read.result = "uri" \/ (read.result = "Ok" /\ read.request = original)
      BY Zenon DEF RequestPreserved
    <2>1. RequestOk(original) /\ UriOk(uri, original)
      BY Zenon DEF RequestInv
    <2>2. from_uri(uri) = Refused("uri") \/ from_uri(uri) = [result |-> "Ok", request |-> original]
      BY <2>1, CarriedAccepted, Zenon
    <2> QED
      BY <2>2, RefusedIs, Zenon
  <1> QED
    BY <1>1, RequestInvHolds, PTL
==============================================================================
