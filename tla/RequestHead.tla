----------------------------- MODULE RequestHead -----------------------------
(***************************************************************************)
(* The head of a CONNECT-UDP request on its way from a client to a proxy,    *)
(* and on through a chain of proxies: its URI (ConnectUdpRequest) and its    *)
(* Capsule-Protocol field (CapsuleProtocolField).                            *)
(*                                                                          *)
(* The caller builds a request, generates its URI and sends it with the      *)
(* field; on the way the URI may be rewritten into an equivalent one and     *)
(* parameters may be added to the field; the receiver parses both and may    *)
(* send the request on.  A foreign client sends texts of its own.  A         *)
(* behaviour varies one half of the head only, "part"; parsing the field     *)
(* changes no state, so the properties do it.                                *)
(***************************************************************************)
EXTENDS ConnectUdpRequest, BooleanItem

CONSTANTS
  Hosts, Ports, Configs,  (* what a caller gives to new                      *)
  Authorities,            (* what a caller gives to to_uri                   *)
  Bases,                  (* foreign URIs without a query                    *)
  Parameters,             (* the parameters of their queries                 *)
  MaxParameters,          (* bound: parameters in a foreign query            *)
  Extensions,             (* the parameters added to fields on the way       *)
  MaxExtended,            (* bound: the length of a field they are added to  *)
  Beginnings,             (* foreign fields: how one begins, the characters  *)
                          (* it goes on with, and its greatest length        *)
  MaxHops                 (* bound: how often a request is sent on           *)

Text == Seq(UriCharacter \ {"ff"})
Uri == [scheme : {"http", "https", "HTTPS"}, authority : Authorities,
        path : Seq(Token), query : Seq(Token)]

\* A string of the code is UTF-8, of which "ff" is no part: a URI can only hold it
\* percent-encoded.  What is added to a field is parameters, with no unused bit of
\* a byte sequence set.
ASSUME HeadAssumption ==
  /\ Ports \subseteq Nat /\ MaxParameters \in Nat /\ MaxExtended \in Nat /\ MaxHops \in Nat
  /\ \A host \in Hosts : host \in Text
  /\ \A config \in Configs : \A text, other \in config : text \in Text /\ text = other
  /\ \A base \in Bases : base \in Uri /\ base.query = <<>>
  /\ \A p \in Parameters : p \in Seq(Token \ {Raw("ff")})
  /\ \A b \in Beginnings : b.text \in Seq(FieldCharacter) /\ b.characters \subseteq FieldCharacter
  /\ \A e \in Extensions : e \in Seq(FieldCharacter) /\ IsField(<<"?", "0">> \o e, TRUE)

VARIABLES
  part,      (* what this behaviour varies: "uri" or "field"           *)
  stage,     (* "start", "built", "sent", "foreign", "received", "refused" *)
  request,   (* the request that is sent or was received               *)
  original,  (* history: the one the first sender had                  *)
  uri,       (* the URI on the way                                     *)
  flag,      (* the Capsule-Protocol flag that was sent last           *)
  field,     (* the field on the way                                   *)
  outcome,   (* what new, to_uri or from_uri has returned last         *)
  hops       (* how often the request was sent on                      *)

vars == <<part, stage, request, original, uri, flag, field, outcome, hops>>

Example == [host |-> <<"x">>, port |-> 443, config |-> {}]
NoUri == [scheme |-> "https", authority |-> "name:443", path |-> Masque, query |-> <<>>]

Init ==
  /\ part \in {"uri", "field"}
  /\ stage = "start"
  /\ request = Example /\ original = Example
  /\ uri = NoUri
  /\ flag = FALSE
  /\ field = <<>>
  /\ outcome = "Ok"
  /\ hops = 0

\* A caller constructs a request.
Build(host, port, config) ==
  /\ stage = "start"
  /\ part = "field" => <<host, port, config>> = <<Example.host, Example.port, Example.config>>
  /\ LET built == new(host, port, config) IN
       /\ outcome' = built.result
       /\ IF built.result = "Ok"
          THEN stage' = "built" /\ request' = built.request /\ original' = built.request
          ELSE stage' = "refused" /\ UNCHANGED <<request, original>>
  /\ UNCHANGED <<part, uri, flag, field, hops>>

\* It sends the head, or finds that the request has no URI.
Send(authority, value) ==
  /\ stage = "built"
  /\ part = "uri" => ~value
  /\ LET sent == to_uri(request, authority) IN
       /\ outcome' = sent.result
       /\ IF sent.result = "Ok"
          THEN /\ stage' = "sent" /\ uri' = sent.uri
               /\ flag' = value /\ field' = serialize_capsule_protocol(value)
          ELSE stage' = "refused" /\ UNCHANGED <<uri, flag, field>>
  /\ UNCHANGED <<part, request, original, hops>>

\* A foreign client writes texts of its own, piece by piece.
WriteBase(base) ==
  /\ stage = "start"
  /\ stage' = "foreign"
  /\ IF part = "uri"
     THEN uri' = base /\ field' = serialize_capsule_protocol(flag)
     ELSE field' \in {b.text : b \in Beginnings} /\ UNCHANGED uri
  /\ UNCHANGED <<part, request, original, flag, outcome, hops>>

WriteParameter(p) ==
  /\ part = "uri" /\ stage = "foreign"
  /\ uri.query = <<>> \/ Len(Pairs(uri.query)) < MaxParameters
  /\ uri' = [uri EXCEPT !.query = IF @ = <<>> THEN p ELSE @ \o <<Raw("&")>> \o p]
  /\ UNCHANGED <<part, stage, request, original, flag, field, outcome, hops>>

WriteField ==
  /\ part = "field" /\ stage = "foreign"
  /\ \E b \in Beginnings :
       /\ IsPrefix(b.text, field) /\ Len(field) < b.length
       /\ \E c \in b.characters : field' = Append(field, c)
  /\ UNCHANGED <<part, stage, request, original, uri, flag, outcome, hops>>

\* The proxy parses the URI.
Receive ==
  /\ part = "uri" /\ stage \in {"sent", "foreign"}
  /\ LET received == from_uri(uri) IN
       /\ outcome' = received.result
       /\ IF received.result = "Ok"
          THEN /\ stage' = "received"
               /\ request' = received.request
               /\ original' = IF stage = "foreign" THEN received.request ELSE original
          ELSE stage' = "refused" /\ UNCHANGED <<request, original>>
  /\ UNCHANGED <<part, uri, flag, field, hops>>

\* It goes on to the next proxy with the request it has understood.
Forward ==
  /\ stage = "received"
  /\ hops < MaxHops
  /\ stage' = "built"
  /\ hops' = hops + 1
  /\ UNCHANGED <<part, request, original, uri, flag, field, outcome>>
-----------------------------------------------------------------------------
(* Between the two: an equivalent URI, or a field with more parameters.     *)

Escape(tokens) ==
  [i \in DOMAIN tokens |->
     IF tokens[i].char \in Unreserved THEN Escaped(tokens[i].char) ELSE tokens[i]]

EscapeValue(p) == KeyOf(p) \o <<Raw("=")>> \o Escape(ValueOf(p))

\* The pairs with "&" between them.
Query(pairs) ==
  LET joined[i \in 0 .. Len(pairs)] ==
        IF i = 0 THEN <<>> ELSE joined[i - 1] \o <<Raw("&")>> \o pairs[i]
  IN  Tail(joined[Len(pairs)])

\* The scheme in capitals, unreserved characters escaped, the parameters in
\* another order, or an empty one among them.
Rewrite ==
  /\ part = "uri" /\ stage = "sent"
  /\ LET pairs == Pairs(uri.query) IN
       \/ uri' = [uri EXCEPT !.scheme = "HTTPS"]
       \/ uri' = [uri EXCEPT !.path = Escape(@)]
       \/ uri' = [uri EXCEPT !.query = Query(Append(Tail(pairs), Head(pairs)))]
       \/ pairs[1] # <<>> /\ uri' = [uri EXCEPT !.query = Query(<<EscapeValue(Head(pairs))>> \o Tail(pairs))]
       \/ <<>> \notin ToSet(pairs) /\ uri' = [uri EXCEPT !.query = <<Raw("&")>> \o @]
  /\ UNCHANGED <<part, stage, request, original, flag, field, outcome, hops>>

Extend(parameter) ==
  /\ part = "field" /\ stage = "sent"
  /\ Len(field) + Len(parameter) <= MaxExtended
  /\ field' = field \o parameter
  /\ UNCHANGED <<part, stage, request, original, uri, flag, outcome, hops>>

Next ==
  \/ \E host \in Hosts, port \in Ports, config \in Configs : Build(host, port, config)
  \/ \E authority \in Authorities, value \in BOOLEAN : Send(authority, value)
  \/ \E base \in Bases : WriteBase(base)
  \/ \E p \in Parameters : WriteParameter(p)
  \/ WriteField
  \/ Receive
  \/ Forward
  \/ Rewrite
  \/ \E parameter \in Extensions : Extend(parameter)

Spec == Init /\ [][Next]_vars
-----------------------------------------------------------------------------
(* Properties *)

\* A proxy understands what the first client meant, or refuses the URI for its
\* length, however it was rewritten and however often the request was sent on:
\* no value leaks into another parameter (to_uri and from_uri).
RequestPreserved ==
  stage = "sent" =>
    LET read == from_uri(uri) IN
      read.result = "uri" \/ (read.result = "Ok" /\ read.request = original)

\* A part of a query that sets a parameter to a valid value.
Sets(pair, key) ==
  /\ Len(pair) >= 2 /\ SubSeq(pair, 1, 2) = <<Raw(key), Raw("=")>>
  /\ Decodable(SubSeq(pair, 3, Len(pair)))
  /\ Valid(key, Chars(SubSeq(pair, 3, Len(pair)))) # {}

\* The template of the docs of from_uri: every part of the query that is not
\* empty is the one target_host, the one target_port, or the one configuration.
MatchesTemplate(u) ==
  /\ ~TooLong(u)
  /\ u.scheme # "http" /\ u.authority \in ValidAuthorities
  /\ NormalPath(u.path) = Masque
  /\ LET pairs == Pairs(u.query)
         parts == {i \in DOMAIN pairs : pairs[i] # <<>>}
     IN  \E h, p \in parts, config \in {{}} \cup {{i} : i \in parts} :
           /\ parts = {h, p} \cup config /\ h # p /\ {h, p} \cap config = {}
           /\ Sets(pairs[h], "target_host") /\ Sets(pairs[p], "target_port")
           /\ \A i \in config : Sets(pairs[i], "udp_proxy_config")
  /\ Raw("#") \notin ToSet(u.query)

\* from_uri accepts the URIs of the template and no others, in whatever order
\* their parameters come and fail.
AcceptsTemplate ==
  stage = "foreign" /\ part = "uri" => (from_uri(uri).result = "Ok" <=> MatchesTemplate(uri))

\* The receiver reads the flag that was sent, whatever parameters it was given
\* on the way (serialize_capsule_protocol and parse_capsule_protocol).
FlagPreserved ==
  stage = "sent" => parse_capsule_protocol(field) = [result |-> "Ok", flag |-> flag]

\* parse_capsule_protocol takes Boolean Items of RFC 8941 only, and of these all in
\* whose byte sequences the unused bits are zero.  It refuses the others, where
\* the RFC would have a parser not fail: the code's rule, not the RFC's.
AcceptsGrammar ==
  stage = "foreign" /\ part = "field" =>
    LET ok == parse_capsule_protocol(field).result = "Ok" IN
      /\ ok <=> IsField(trim_sp(field), TRUE)
      /\ ok => IsField(trim_sp(field), FALSE)
=============================================================================
