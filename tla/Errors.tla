------------------------------- MODULE Errors -------------------------------
(***************************************************************************)
(* Error of src/crates/masque/src/error.rs.  An error is the sequence of     *)
(* what it says and what source() leads to from it: <<error>>, or <<error,   *)
(* its source, the source of that, ...>>.  A layer is a record of the fields *)
(* of its variant.  Only three variants have a source; the source of         *)
(* H3DatagramError is an Error of this crate, owned by it, the others may    *)
(* have any error of the transport stack, shared by their clones.            *)
(*                                                                          *)
(* A message is a tuple: its wording, then the numbers it was given.         *)
(***************************************************************************)
EXTENDS Integers, Sequences

H3_DATAGRAM_ERROR_CODE == 51

TransportKinds ==
  {"EndpointCreation", "Connect", "QuicHandshake", "H3Handshake", "RequestAccept",
   "DriverClosed", "Close", "Other", "UdpBind", "UdpConnect", "UdpSend", "UdpRecv",
   "UdpLocalAddr"}

VarIntErrorKinds == {"EmptyBuffer", "BufferTooShort", "OffsetOutOfBounds", "ValueTooLarge"}

\* Kinds that say nothing of the peer: they are handled here, not signalled.
LocalKinds == {"NotNegotiated", "MismatchedStreamId"}

H3DatagramErrorKinds == LocalKinds \cup
  {"Generic", "InvalidVarint", "VarintOutOfRange", "LengthTooLarge", "LengthOverflow",
   "Truncated", "UnexpectedCapsuleType", "InvalidContextId", "PayloadTooLarge"}

\* The variants, and the fields of each but its source.
Fields ==
  [InvalidConfig            |-> {"field", "message"},
   InvalidVarInt            |-> {"kind", "message"},
   NotImplemented           |-> {"message"},
   InvalidConnectUdpRequest |-> {"field", "message"},
   InvalidAssociationId     |-> {"value", "max"},
   Transport                |-> {"kind", "message"},
   InvalidCertificate       |-> {"message"},
   H3DatagramSetting        |-> {"setting", "value"},
   H3SettingsConflict       |-> {"setting", "previous", "received"},
   CapsuleProtocolConflict  |-> {"previous", "received"},
   H3DatagramError          |-> {"kind", "message"}]

HasSource == {"Transport", "InvalidCertificate", "H3DatagramError"}

KindsOf(variant) ==
  CASE variant = "InvalidVarInt"   -> VarIntErrorKinds
    [] variant = "Transport"       -> TransportKinds
    [] variant = "H3DatagramError" -> H3DatagramErrorKinds

IsLayer(l) ==
  /\ l.variant \in DOMAIN Fields
  /\ DOMAIN l = Fields[l.variant] \cup {"variant"}
  /\ "kind" \in DOMAIN l => l.kind \in KindsOf(l.variant)

\* An error of the crate: H3DatagramErrors, each the cause of the one before,
\* then one more layer; what is below a layer with a foreign source is foreign.
IsError(e) ==
  /\ e \in Seq({e[i] : i \in DOMAIN e}) /\ e # <<>> /\ IsLayer(e[1])
  /\ \A i \in 1 .. Len(e) - 1 :
       e[i].variant = "H3DatagramError" => IsLayer(e[i + 1])
  /\ \A i \in 1 .. Len(e) - 1 : e[i].variant \in HasSource \cup {"foreign"}
-----------------------------------------------------------------------------
(* Constructors.  A source is an error or, for None, <<>>.                  *)

Foreign(reason) == <<[variant |-> "foreign", reason |-> reason]>>

InvalidVarInt(kind, message) ==
  <<[variant |-> "InvalidVarInt", kind |-> kind, message |-> message]>>

InvalidConfig(field, message) ==
  <<[variant |-> "InvalidConfig", field |-> field, message |-> message]>>

transport_error(kind, message, cause) ==
  <<[variant |-> "Transport", kind |-> kind, message |-> message]>> \o cause

invalid_certificate_error(message, cause) ==
  <<[variant |-> "InvalidCertificate", message |-> message]>> \o cause

h3_datagram_error(kind, message) ==
  <<[variant |-> "H3DatagramError", kind |-> kind, message |-> message]>>

h3_datagram_error_with_source(kind, message, cause) ==
  h3_datagram_error(kind, message) \o cause

\* What an operation returns.
Ok(value) == [ok |-> TRUE, value |-> value]
Err(error) == [ok |-> FALSE, error |-> error]
-----------------------------------------------------------------------------
(* The traits of Error.                                                     *)

source(e) == IF e[1].variant \in HasSource THEN Tail(e) ELSE <<>>

\* A clone has the fields of the original and shares or clones its source.
Clone(e) == <<[f \in DOMAIN e[1] |-> e[1][f]]>> \o source(e)

\* Mutant of Compared: no source is compared.
ComparedTop(e) == <<e[1]>>

\* The layers that eq compares: a foreign source is passed over, the source of
\* an H3DatagramError is compared in its turn.
Compared(e) ==
  SubSeq(e, 1, CHOOSE n \in DOMAIN e :
                 /\ n = Len(e) \/ e[n].variant # "H3DatagramError"
                 /\ \A i \in 1 .. n - 1 : e[i].variant = "H3DatagramError")

Equal(a, b) == Compared(a) = Compared(b)

Shown(l, names) == [f \in names |-> l[f]]

\* What fmt prints: a prefix, and the fields of the error itself, never those of
\* its source.  The kind of an H3DatagramError only shows in the prefix.
Display(e) ==
  LET l == e[1] IN
  CASE l.variant = "H3DatagramError" ->
         [prefix |-> IF l.kind \in LocalKinds THEN <<"local">>
                     ELSE <<"protocol", H3_DATAGRAM_ERROR_CODE>>,
          shown  |-> Shown(l, {"message"})]
    [] l.variant = "CapsuleProtocolConflict" /\ l.previous = l.received ->
         [prefix |-> <<"already set">>, shown |-> Shown(l, {"previous"})]
    [] OTHER -> [prefix |-> <<l.variant>>, shown |-> Shown(l, Fields[l.variant])]

\* The Debug form has the name of the variant and all fields but the source.
Debug(e) == [name |-> e[1].variant, shown |-> Shown(e[1], Fields[e[1].variant])]
=============================================================================
