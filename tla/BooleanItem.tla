----------------------------- MODULE BooleanItem -----------------------------
(***************************************************************************)
(* The grammar of a Boolean Item with parameters, which the docs of          *)
(* src/crates/masque/src/capsule_protocol.rs say the Capsule-Protocol field  *)
(* to be: what a text is, with no parser in it, for comparison with the one  *)
(* of CapsuleProtocolField.                                                  *)
(*                                                                          *)
(* The last character of a byte sequence may hold bits of no octet.  Section *)
(* 4.2.7 of RFC 8941 says that a parser should not fail when some are set:   *)
(* IsField(t, FALSE) is that grammar.  The code fails, and IsField(t, TRUE)  *)
(* is the grammar in which they have to be zero.                             *)
(***************************************************************************)
EXTENDS CapsuleProtocolField

IsKey(t) == t # <<>> /\ t[1] \in KeyStart /\ ToSet(t) \subseteq KeyChars

IsDigits(t, most) == Len(t) \in 1 .. most /\ ToSet(t) \subseteq Digit
IsNumber(t) ==
  LET d == IF t[1] = "-" THEN Tail(t) ELSE t IN
    \/ IsDigits(d, MaxInteger)
    \/ \E i \in DOMAIN d : /\ d[i] = "."
                           /\ IsDigits(SubSeq(d, 1, i - 1), MaxWhole)
                           /\ IsDigits(SubSeq(d, i + 1, Len(d)), MaxFraction)

\* Quotes around characters, some of which are escapes of the next one.
IsString(t) ==
  /\ Len(t) >= 2 /\ t[1] = Quote /\ t[Len(t)] = Quote
  /\ \E escapes \in SUBSET (2 .. Len(t) - 2) :
       /\ \A i \in escapes : t[i] = Backslash /\ t[i + 1] \in {Quote, Backslash} /\ i + 1 \notin escapes
       /\ \A i \in 2 .. Len(t) - 1 :
            /\ t[i] # "ctl"
            /\ t[i] \in {Quote, Backslash} => i \in escapes \/ i - 1 \in escapes

\* The base64 text of whole octets, padded or not; zeroed says whether the bits
\* left over have to be zero.
IsBinary(t, zeroed) ==
  /\ Len(t) >= 2 /\ t[1] = ":" /\ t[Len(t)] = ":"
  /\ \E n \in 0 .. Len(t) - 2 :
       LET unused == (6 * n) % 8 IN
       /\ ToSet(SubSeq(t, 2, n + 1)) \subseteq DOMAIN Base64Value
       /\ ToSet(SubSeq(t, n + 2, Len(t) - 1)) \subseteq {"="}
       /\ Len(t) - 2 - n \in {0, (4 - (n % 4)) % 4}
       /\ unused < 6
       /\ zeroed /\ unused > 0 => Base64Value[t[n + 1]] % 2 ^ unused = 0

IsItem(t, zeroed) ==
  \/ IsNumber(t) \/ IsString(t) \/ IsBinary(t, zeroed)
  \/ t \in {<<"?", "0">>, <<"?", "1">>}
  \/ t[1] \in TokenStart /\ ToSet(t) \subseteq TokenChars

IsField(t, zeroed) ==
  LET parameters[i \in 1 .. Len(t) + 1] ==
        \/ i = Len(t) + 1
        \/ \E from \in i + 1 .. Len(t), to \in i + 1 .. Len(t) :
             /\ t[i] = ";" /\ ToSet(SubSeq(t, i + 1, from - 1)) \subseteq {" "}
             /\ IsKey(SubSeq(t, from, to))
             /\ \/ parameters[to + 1]
                \/ \E end \in to + 2 .. Len(t) :
                     /\ t[to + 1] = "=" /\ IsItem(SubSeq(t, to + 2, end), zeroed)
                     /\ parameters[end + 1]
  IN  Len(t) >= 2 /\ SubSeq(t, 1, 2) \in {<<"?", "0">>, <<"?", "1">>} /\ parameters[3]
=============================================================================
