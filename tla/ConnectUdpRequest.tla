-------------------------- MODULE ConnectUdpRequest --------------------------
(***************************************************************************)
(* CONNECT-UDP requests and their URIs: new, to_uri and from_uri of          *)
(* src/crates/masque/src/connect_udp.rs.                                     *)
(*                                                                          *)
(* A text is a sequence of characters, one or more for every class that the  *)
(* code treats differently; a run of characters that only ever occurs as a   *)
(* whole counts as one.  A URI is made of tokens, each a character that      *)
(* stands for itself or is percent-encoded.  Lengths are in bytes.  A value  *)
(* that may be missing is a set of at most one element.                      *)
(***************************************************************************)
EXTENDS Integers, Sequences, SequencesExt

CONSTANTS
  MaxHost,    (* MAX_TARGET_HOST_LEN *)
  MaxConfig,  (* MAX_UDP_PROXY_CONFIG_LEN *)
  MaxUri      (* MAX_URI_LEN *)

ASSUME LimitsAssumption == MaxHost \in Nat /\ MaxConfig \in Nat /\ MaxUri \in Nat

Numerals == <<"0", "1", "2", "3", "4", "5", "6", "7", "8", "9">>
Digits == {Numerals[i] : i \in 1 .. 10}
Keys == {"target_host", "target_port", "udp_proxy_config"}
Unreserved == {"x", "m", "asque"} \cup Digits \cup Keys
SubDelims == {"&", "=", "+"}
Whitespace == {" ", "tab"}
Control == {"tab", "nul"}
IPv6 == "[::]"                \* a bracketed IPv6 literal
UriCharacter ==
  Unreserved \cup SubDelims \cup Whitespace \cup Control \cup {IPv6, "%", "#", "other", "ff"}

Token == [char : UriCharacter, escaped : BOOLEAN]

\* The authorities that are valid.  What makes one valid, its host, its port and
\* its length, is not modelled: others stand for all that the code refuses.
ValidAuthorities == {"name:443", "[::]:443"}

Bytes(char) ==
  CASE char \in {"target_host", "target_port"} -> 11
    [] char = "udp_proxy_config" -> 16
    [] char \in {"asque", "other"} -> 5
    [] char = IPv6 -> 4
    [] OTHER -> 1

Raw(char) == [char |-> char, escaped |-> FALSE]
Escaped(char) == [char |-> char, escaped |-> TRUE]
Chars(tokens) == [i \in DOMAIN tokens |-> tokens[i].char]
Plain(text) == [i \in DOMAIN text |-> Raw(text[i])]

TextSize(text) == FoldLeft(LAMBDA n, c : n + Bytes(c), 0, text)
Size(tokens) ==
  FoldLeft(LAMBDA n, t : n + (IF t.escaped THEN 3 ELSE 1) * Bytes(t.char), 0, tokens)

\* "https://", an authority of eight bytes, "/", the path, "?" and the query.
UriSize(uri) ==
  17 + Size(uri.path) + (IF uri.query = <<>> THEN 0 ELSE 1 + Size(uri.query))

TooLong(uri) == UriSize(uri) > MaxUri
-----------------------------------------------------------------------------
(* Validation.                                                              *)

\* str::trim, for texts whose only white space is spaces and tabs.
Trim(text) ==
  LET kept == {i \in DOMAIN text : text[i] \notin Whitespace}
  IN  IF kept = {} THEN <<>> ELSE SubSeq(text, Min(kept), Max(kept))

\* validate_target_host, of a trimmed text.
ValidHost(text) ==
  /\ text # <<>>
  /\ TextSize(text) <= MaxHost
  /\ ToSet(text) \cap Control = {}
  /\ text = <<IPv6>> \/ ToSet(text) \subseteq Unreserved \cup SubDelims

ValidScheme(scheme) == scheme \in {"https", "HTTPS"}

MaxPort == 65535
ValidPort(port) == port \in 1 .. MaxPort

ValidConfig(text) == TextSize(text) <= MaxConfig /\ ToSet(text) \cap Control = {}

Refused(field) == [result |-> field]

new(host, port, config) ==
  IF ~ValidHost(Trim(host)) THEN Refused("target_host")
  ELSE IF ~ValidPort(port) THEN Refused("target_port")
  ELSE IF \E text \in config : ~ValidConfig(text) THEN Refused("udp_proxy_config")
  ELSE [result |-> "Ok",
        request |-> [host |-> Trim(host), port |-> port, config |-> config]]
-----------------------------------------------------------------------------
(* Generation.                                                              *)

\* A port has five digits at most, and does not begin with a zero.
Places == <<10000, 1000, 100, 10, 1>>
DigitAt(port, place) == (port \div place) % 10
PortText(port) ==
  LET first == Min({i \in 1 .. 5 : Places[i] <= port})
  IN  [i \in 1 .. 6 - first |-> Numerals[DigitAt(port, Places[first + i - 1]) + 1]]

\* Mutant of encode_query_value: what a host may contain is left as it is.
encode_host_only(text) ==
  [i \in DOMAIN text |->
     IF text[i] \in Unreserved \cup SubDelims THEN Raw(text[i]) ELSE Escaped(text[i])]

encode_query_value(text) ==
  [i \in DOMAIN text |-> IF text[i] \in Unreserved THEN Raw(text[i]) ELSE Escaped(text[i])]

Masque == <<Raw("m"), Raw("asque")>>

Only(set) == CHOOSE value \in set : TRUE

to_uri(request, authority) ==
  LET pair(key, value) == <<Raw(key), Raw("=")>> \o value
      config == <<Raw("&")>> \o pair("udp_proxy_config", encode_query_value(Only(request.config)))
      query == pair("target_host", encode_query_value(request.host)) \o <<Raw("&")>>
               \o pair("target_port", Plain(PortText(request.port)))
      uri == [scheme |-> "https", authority |-> authority, path |-> Masque,
              query |-> IF request.config = {} THEN query ELSE query \o config]
  IN  IF authority \notin ValidAuthorities THEN Refused("proxy_authority")
      ELSE IF TooLong(uri) THEN Refused("uri")
      ELSE [result |-> "Ok", uri |-> uri]
-----------------------------------------------------------------------------
(* Parsing.                                                                 *)

\* decode_query_value fails on a "%" that starts no escape, and on bytes that
\* are not UTF-8.
Decodable(tokens) == Raw("%") \notin ToSet(tokens) /\ Escaped("ff") \notin ToSet(tokens)

\* normalize_path_segment: escapes of unreserved characters only.
NormalPath(tokens) ==
  [i \in DOMAIN tokens |->
     IF tokens[i].char \in Unreserved THEN Raw(tokens[i].char) ELSE tokens[i]]

\* parse_target_port: digits, of any number; one of no digits is no port.
Numeral(char) == CHOOSE n \in 0 .. 9 : Numerals[n + 1] = char
Decimal(text) ==
  LET value[i \in 0 .. Len(text)] ==
        IF i = 0 THEN 0 ELSE 10 * value[i - 1] + Numeral(text[i])
  IN  value[Len(text)]
PortNumber(text) == IF ToSet(text) \subseteq Digits THEN Decimal(text) ELSE 0

\* The value of a parameter, if it is a valid one.
Valid(key, text) ==
  CASE key = "target_host" -> {host \in {Trim(text)} : ValidHost(host)}
    [] key = "target_port" -> {port \in {PortNumber(text)} : ValidPort(port)}
    [] key = "udp_proxy_config" -> {config \in {text} : ValidConfig(config)}

\* The parts of a query between its "&".
Pairs(query) ==
  LET parts[i \in 0 .. Len(query)] ==
        IF i = 0 THEN <<<<>>>>
        ELSE LET before == parts[i - 1]
             IN  IF query[i] = Raw("&") THEN Append(before, <<>>)
                 ELSE [before EXCEPT ![Len(before)] = Append(@, query[i])]
  IN  parts[Len(query)]

KeyOf(pair) == SubSeq(pair, 1, Min({i \in DOMAIN pair : pair[i] = Raw("=")}) - 1)
ValueOf(pair) ==
  SubSeq(pair, Min({i \in DOMAIN pair : pair[i] = Raw("=")}) + 1, Len(pair))

\* Mutant of Read: the last of repeated parameters wins.
ReadLast(state, pair) ==
  IF state.result # "Ok" \/ pair = <<>> THEN state
  ELSE IF Raw("=") \notin ToSet(pair) \/ ~Decodable(ValueOf(pair))
          \/ KeyOf(pair) \notin {<<Raw(key)>> : key \in Keys}
       THEN [state EXCEPT !.result = "query"]
  ELSE LET key == KeyOf(pair)[1].char
           value == Valid(key, Chars(ValueOf(pair)))
       IN  IF value = {} THEN [state EXCEPT !.result = key]
           ELSE [state EXCEPT !.values[key] = value]

\* One turn of the loop of from_uri.  An empty part is passed over; an error
\* ends the loop.
Read(state, pair) ==
  IF state.result # "Ok" \/ pair = <<>> THEN state
  ELSE IF Raw("=") \notin ToSet(pair) \/ ~Decodable(ValueOf(pair))
          \/ KeyOf(pair) \notin {<<Raw(key)>> : key \in Keys}
       THEN [state EXCEPT !.result = "query"]
  ELSE LET key == KeyOf(pair)[1].char
           value == Valid(key, Chars(ValueOf(pair)))
       IN  IF state.values[key] # {} \/ value = {} THEN [state EXCEPT !.result = key]
           ELSE [state EXCEPT !.values[key] = value]

\* The loop, from its beginning to its end.
ReadAll(pairs) ==
  LET state[i \in 0 .. Len(pairs)] ==
        IF i = 0 THEN [result |-> "Ok", values |-> [key \in Keys |-> {}]]
        ELSE Read(state[i - 1], pairs[i])
  IN  state[Len(pairs)]

from_uri(uri) ==
  LET read == ReadAll(Pairs(uri.query))
  IN  IF TooLong(uri) THEN Refused("uri")
      ELSE IF Raw("#") \in ToSet(uri.path) \cup ToSet(uri.query) THEN Refused("fragment")
      ELSE IF ~ValidScheme(uri.scheme) THEN Refused("scheme")
      ELSE IF uri.authority \notin ValidAuthorities THEN Refused("authority")
      ELSE IF NormalPath(uri.path) # Masque THEN Refused("path")
      ELSE IF read.result # "Ok" THEN Refused(read.result)
      ELSE IF read.values["target_host"] = {} THEN Refused("target_host")
      ELSE IF read.values["target_port"] = {} THEN Refused("target_port")
      ELSE [result |-> "Ok",
            request |-> [host |-> Only(read.values["target_host"]),
                         port |-> Only(read.values["target_port"]),
                         config |-> read.values["udp_proxy_config"]]]
=============================================================================
