--------------------------- MODULE MCRequestHead ---------------------------
(* RequestHead for TLC. *)
EXTENDS RequestHead

\* Good and bad hosts: one to trim, one that is too long, delimiters of a query.
MCHosts == {<<"x">>, <<" ", "x", "tab">>, <<"&">>, <<"=", "x">>, <<IPv6>>, <<IPv6, "x">>,
            <<"x", " ", "x">>, <<"x", "tab", "x">>, <<"%">>, <<" ">>, <<>>,
            <<"x", "asque">>, <<"asque", "asque">>}
MCPorts == {0, 443}

ConfigChars == {"x", "&", "=", "%", "#", "+", " "}
MCConfigs == {{}, {<<>>}, {<<"tab">>}, {<<"asque", "x">>}}
             \cup {{<<c>>} : c \in ConfigChars} \cup {{<<c, d>>} : c, d \in {"&", "=", "%"}}

MCAuthorities == ValidAuthorities \cup {"user@name:443", "name"}

Base == [scheme |-> "https", authority |-> "name:443", path |-> Masque, query |-> <<>>]
MCBases == {Base, [Base EXCEPT !.scheme = "http"], [Base EXCEPT !.authority = "name"],
            [Base EXCEPT !.path = <<Raw("m"), Escaped("asque")>>],
            [Base EXCEPT !.path = <<Raw("m"), Raw("%"), Raw("asque")>>],
            [Base EXCEPT !.path = Masque \o <<Escaped("x")>>]}

Set(key, tokens) == <<Raw(key), Raw("=")>> \o tokens
MCParameters ==
  {Set("target_host", tokens) : tokens \in
     {<<Raw("x"), Raw("="), Raw("x")>>, <<>>, <<Escaped(" "), Raw("x")>>, <<Raw("x"), Raw("%")>>}}
  \cup {Set("target_port", tokens) : tokens \in
     {<<Raw("0"), Escaped("4"), Raw("5")>>, <<Raw("0")>>, Plain(PortText(65536)),
      <<Raw("+"), Raw("4")>>}}
  \cup {Set("udp_proxy_config", tokens) : tokens \in
     {<<>>, <<Raw("#")>>, <<Escaped("nul")>>, <<Escaped("ff")>>}}
  \cup {<<>>, <<Raw("target_host")>>, <<Raw("=")>>, Set("other", <<Raw("x")>>)}

MCExtensions ==
  {<<";", "k">>, <<";", " ", "*", "=", "-", "1">>, <<";", "k", "=", "1", ".", "0">>,
   <<";", "k", "=", Quote, ";", Backslash, Quote, Quote>>, <<";", "k", "=", ":", "1", "A", ":">>,
   <<";", "k", "=", "?", "0">>, <<";", "k", "=", "A", ":">>}

Item == <<"?", "1", ";", "k", "=">>

\* One octet in two characters, the second with a bit set that belongs to none,
\* as ":Zh==:" is: a Boolean Item of RFC 8941 whose unused bits are not zero.  The
\* run's fields include it, so AcceptsGrammar says that the code refuses it.
UnusedBits == Item \o <<":", "A", "1", "=", "=", ":">>
ASSUME GrammarsDiffer == IsField(UnusedBits, FALSE) /\ ~IsField(UnusedBits, TRUE)

MCBeginnings ==
  {[text |-> <<>>, characters |-> FieldCharacter, length |-> 3],
   [text |-> Item, characters |-> FieldCharacter, length |-> 8],
   [text |-> Item, characters |-> {"-", "1", ".", "k", ";"}, length |-> 9],
   [text |-> Append(Item, Quote), characters |-> {Quote, Backslash, "k", "ctl", ";"}, length |-> 10],
   [text |-> Append(Item, ":"), characters |-> {"A", "k", "1", "=", ":"}, length |-> 11]}
=============================================================================
