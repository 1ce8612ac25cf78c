------------------------ MODULE CapsuleProtocolField ------------------------
(***************************************************************************)
(* The Capsule-Protocol header field: parse_capsule_protocol and             *)
(* serialize_capsule_protocol of src/crates/masque/src/capsule_protocol.rs.  *)
(*                                                                          *)
(* A field value is a sequence of characters, one for every class that the   *)
(* code treats differently; the base64 characters stand for their own        *)
(* values.  A parser of the code takes a slice and returns the rest of it;   *)
(* here it takes a position and returns the one after what it has parsed, or *)
(* Failed.                                                                   *)
(***************************************************************************)
EXTENDS Integers, Sequences, SequencesExt

CONSTANTS
  MaxInteger,   (* digits of an integer, 15 in the code                   *)
  MaxWhole,     (* digits of a decimal before its point, 12 in the code   *)
  MaxFraction   (* digits of a decimal after its point, 3 in the code     *)

ASSUME DigitsAssumption ==
  /\ MaxInteger \in Nat \ {0} /\ MaxWhole \in 1 .. MaxInteger /\ MaxFraction \in Nat \ {0}

Failed == 0

Quote == "\""
Backslash == "\\"
Digit == {"0", "1"}
Alpha == {"k", "A"}              \* a lowercase and an uppercase letter
KeyStart == {"k", "*"}
KeyChars == {"k", "*", "-", "."} \cup Digit
TokenStart == Alpha \cup {"*"}
TokenChars == Alpha \cup Digit \cup {"*", "-", ".", ":"}
FieldCharacter == TokenChars \cup {"?", ";", "=", " ", Quote, Backslash, "other", "ctl"}
Base64Value == [c \in {"A", "k", "0", "1"} |->
  CASE c = "A" -> 0 [] c = "k" -> 36 [] c = "0" -> 52 [] c = "1" -> 53]

\* The first position from i on that holds none of the characters.
RunEnd(s, i, characters) ==
  Min({j \in i .. Len(s) : s[j] \notin characters} \cup {Len(s) + 1})

At(s, i, characters) == i <= Len(s) /\ s[i] \in characters
-----------------------------------------------------------------------------
parse_key(s, i) == IF At(s, i, KeyStart) THEN RunEnd(s, i + 1, KeyChars) ELSE Failed

parse_number(s, i) ==
  LET from == IF At(s, i, {"-"}) THEN i + 1 ELSE i
      point == RunEnd(s, from, Digit)
      end == RunEnd(s, point + 1, Digit)
  IN  IF point - from \notin 1 .. MaxInteger THEN Failed
      ELSE IF ~At(s, point, {"."}) THEN point
      ELSE IF point - from > MaxWhole THEN Failed
      ELSE IF end - (point + 1) \notin 1 .. MaxFraction THEN Failed
      ELSE end

\* Mutant of parse_string: a backslash is a character like any other.
parse_string_unescaped(s, i) ==
  LET end[j \in i + 1 .. Len(s) + 1] ==
        IF j > Len(s) THEN Failed
        ELSE IF s[j] = Quote THEN j + 1
        ELSE IF s[j] = "ctl" THEN Failed
        ELSE end[j + 1]
  IN  end[i + 1]

parse_string(s, i) ==
  LET end[j \in i + 1 .. Len(s) + 2] ==
        IF j > Len(s) THEN Failed
        ELSE IF s[j] = Backslash THEN IF At(s, j + 1, {Quote, Backslash}) THEN end[j + 2] ELSE Failed
        ELSE IF s[j] = Quote THEN j + 1
        ELSE IF s[j] = "ctl" THEN Failed
        ELSE end[j + 1]
  IN  end[i + 1]

\* Mutant of is_valid_base64: the bits left over may be anything.
is_base64_any_bits(text) ==
  LET padding == Len(text) - Max({i \in DOMAIN text : text[i] # "="} \cup {0})
      content == SubSeq(text, 1, Len(text) - padding)
      restored == IF padding = 0 THEN (4 - (Len(content) % 4)) % 4 ELSE padding
  IN  text = <<>> \/
      /\ padding <= 2
      /\ content # <<>>
      /\ ToSet(content) \subseteq DOMAIN Base64Value
      /\ restored # 3 /\ (Len(content) + restored) % 4 = 0

\* Padding is optional; the bits it leaves over are zero.
is_valid_base64(text) ==
  LET padding == Len(text) - Max({i \in DOMAIN text : text[i] # "="} \cup {0})
      content == SubSeq(text, 1, Len(text) - padding)
      restored == IF padding = 0 THEN (4 - (Len(content) % 4)) % 4 ELSE padding
      bits == Base64Value[Last(content)]
  IN  text = <<>> \/
      /\ padding <= 2
      /\ content # <<>>
      /\ ToSet(content) \subseteq DOMAIN Base64Value
      /\ restored # 3 /\ (Len(content) + restored) % 4 = 0
      /\ restored = 1 => bits % 4 = 0
      /\ restored = 2 => bits % 16 = 0

parse_binary(s, i) ==
  LET end == Min({j \in i + 1 .. Len(s) : s[j] = ":"} \cup {Len(s) + 1})
  IN  IF end <= Len(s) /\ is_valid_base64(SubSeq(s, i + 1, end - 1)) THEN end + 1 ELSE Failed

parse_boolean_value(s, i) == IF At(s, i + 1, {"0", "1"}) THEN i + 2 ELSE Failed

parse_token(s, i) == RunEnd(s, i + 1, TokenChars)

\* What the first character says the item is; each parser may rely on it.
parse_bare_item(s, i) ==
  CASE At(s, i, {"-"} \cup Digit) -> parse_number(s, i)
    [] At(s, i, {Quote}) -> parse_string(s, i)
    [] At(s, i, {":"}) -> parse_binary(s, i)
    [] At(s, i, {"?"}) -> parse_boolean_value(s, i)
    [] At(s, i, TokenStart) -> parse_token(s, i)
    [] OTHER -> Failed

\* ";", spaces, a key and perhaps "=" and an item, as often as the text goes on.
parse_parameters(s, from) ==
  LET parses[i \in from .. Len(s) + 1] ==
        IF i > Len(s) THEN TRUE
        ELSE LET key == parse_key(s, RunEnd(s, i + 1, {" "}))
                 item == parse_bare_item(s, key + 1)
             IN  /\ s[i] = ";"
                 /\ key # Failed
                 /\ IF At(s, key, {"="}) THEN item # Failed /\ parses[item] ELSE parses[key]
  IN  parses[from]

trim_sp(s) ==
  LET kept == {i \in DOMAIN s : s[i] # " "}
  IN  IF kept = {} THEN <<>> ELSE SubSeq(s, Min(kept), Max(kept))

parse_capsule_protocol(value) ==
  LET s == trim_sp(value) IN
  IF s = <<>> THEN [result |-> "Empty"]
  ELSE IF ~(At(s, 1, {"?"}) /\ At(s, 2, {"0", "1"})) THEN [result |-> "NotBoolean"]
  ELSE IF Len(s) > 2 /\ s[3] # ";" THEN [result |-> "Malformed"]
  ELSE IF ~parse_parameters(s, 3) THEN [result |-> "InvalidParameter"]
  ELSE [result |-> "Ok", flag |-> (s[2] = "1")]

serialize_capsule_protocol(flag) == IF flag THEN <<"?", "1">> ELSE <<"?", "0">>
=============================================================================
