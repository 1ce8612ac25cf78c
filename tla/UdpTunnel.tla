----------------------------- MODULE UdpTunnel -----------------------------
(***************************************************************************)
(* CONNECT-UDP tunnels: the UdpAssociations of association.rs at the two     *)
(* ends of one HTTP/3 connection, one per request stream and end, and the    *)
(* two carriers between them.  An HTTP/3 Datagram (datagram.rs) names its    *)
(* stream and may be lost or overtaken.  A DATAGRAM capsule                  *)
(* (datagram_capsule.rs) names no stream; its reader supplies the stream it  *)
(* read the capsule from, where capsules are in order (CapsuleStream).       *)
(*                                                                          *)
(* The library has no relay loop: its caller moves payloads from a socket to *)
(* an encode operation, and from a decode operation to a socket.  The caller *)
(* here makes the calls in any order, and may hand what it received to the   *)
(* association of another request.                                           *)
(***************************************************************************)
EXTENDS Integers, Sequences, FiniteSets, Session

CONSTANTS
  StreamIds,      (* the stream identifiers passed to bind                     *)
  MaxVarint,      (* MAX_VARINT, 2^62 - 1 in the code                          *)
  Families,       (* the address families of targets                           *)
  Settings,       (* what an end may have advertised in SETTINGS               *)
  Fields,         (* what an end may have advertised as Capsule-Protocol       *)
  Unrecorded,     (* the sets of capabilities a session may lack when it binds *)
  Sources,        (* the ends whose callers have payloads to send              *)
  Sizes,          (* the lengths of offered payloads                           *)
  MaxPayloads     (* bound: payloads offered in all                            *)

ASSUME TunnelAssumption ==
  /\ StreamIds \subseteq Nat
  /\ MaxVarint \in Nat /\ MaxVarint % 4 = 3
  /\ Families \subseteq {"v4", "v6"}
  /\ Settings \subseteq H3DatagramValues
  /\ Fields \subseteq CapsuleProtocolValues
  /\ Unrecorded \subseteq SUBSET {"local_h3_datagram", "peer_h3_datagram",
                                  "local_capsule_protocol", "peer_capsule_protocol"}
  /\ Sources \subseteq {"client", "proxy"}
  /\ Sizes \subseteq Nat
  /\ MaxPayloads \in Nat

Ends == {"client", "proxy"}
Peer(e) == IF e = "client" THEN "proxy" ELSE "client"

MAX_UDP_PAYLOAD_IPV4 == 65507
MAX_UDP_PAYLOAD_IPV6 == 65527
MAX_UDP_PAYLOAD == MAX_UDP_PAYLOAD_IPV6
MAX_QUARTER_STREAM_ID == MaxVarint \div 4
DEFAULT_MAX_CAPSULE_LENGTH == 65536

VARIABLES
  advertised,  (* per end: the setting and the field it sent               *)
  assoc,       (* per end and stream: the UdpAssociation, or Unbound       *)
  offered,     (* per end and stream: payloads the caller had to send      *)
  hand,        (* per end and stream: those not encoded yet                *)
  frames,      (* per receiving end: HTTP/3 Datagrams in flight            *)
  capsules,    (* per receiving end and stream: DATAGRAM capsules in order *)
  delivered,   (* per end and stream: payloads decoded                     *)
  forwarded,   (* per end and stream: how many of those went to send       *)
  refused      (* per end: payloads an operation returned an error for     *)

tunnel == <<offered, hand, frames, capsules, delivered, forwarded, refused>>
vars == <<advertised, assoc, tunnel>>

Unbound == [socket |-> "unbound"]
Bound(e, s) == assoc[e][s] # Unbound

max_payload_for_addr(family) ==
  IF family = "v4" THEN MAX_UDP_PAYLOAD_IPV4 ELSE MAX_UDP_PAYLOAD_IPV6

Limit(e, s) == max_payload_for_addr(assoc[e][s].family)

ValidStreamId(id) == id <= MaxVarint /\ id % 4 = 0

\* The session an end may bind with: it has recorded what both ends advertised,
\* or not yet some of it.
SessionOf(e, missing) ==
  [protocol |-> "connect-udp",
   local_h3_datagram      |-> IF "local_h3_datagram" \in missing THEN None
                              ELSE advertised[e].setting,
   peer_h3_datagram       |-> IF "peer_h3_datagram" \in missing THEN None
                              ELSE advertised[Peer(e)].setting,
   local_capsule_protocol |-> IF "local_capsule_protocol" \in missing THEN None
                              ELSE advertised[e].field,
   peer_capsule_protocol  |-> IF "peer_capsule_protocol" \in missing THEN None
                              ELSE advertised[Peer(e)].field]

Enabled(e, s, carrier) ==
  IF carrier = "H3Datagram" THEN is_h3_datagram_enabled(assoc[e][s].session)
  ELSE is_datagram_capsule_enabled(assoc[e][s].session)

\* HttpDatagram::encode_h3 and decode_h3: the wire carries a quarter of the
\* stream identifier.  The context is the prefix of the UDP payload.
encode_h3(stream_id, payload) ==
  [quarter |-> stream_id \div 4, context |-> "zero", payload |-> payload]

Nothing == [id |-> 0, size |-> 0]

\* What a peer other than this library may send: the context of an extension,
\* a longer encoding of 0, no context at all, a stream that cannot exist.
Strays ==
  [quarter : {s \div 4 : s \in StreamIds} \cup {MAX_QUARTER_STREAM_ID + 1},
   context : {"nonzero", "nonminimal", "missing"},
   payload : {Nothing}]

\* Mutants of Decoded: the stream is not compared; a payload of exactly the
\* limit is too large.
DecodedAnyStream(e, s, carrier, stream_id, context, payload) ==
  IF ~Enabled(e, s, carrier) THEN "NotNegotiated"
  ELSE IF context # "zero" THEN "InvalidContextId"
  ELSE IF payload.size > Limit(e, s) THEN "PayloadTooLarge"
  ELSE "Ok"
DecodedStrictly(e, s, carrier, stream_id, context, payload) ==
  IF ~Enabled(e, s, carrier) THEN "NotNegotiated"
  ELSE IF stream_id # s THEN "MismatchedStreamId"
  ELSE IF context # "zero" THEN "InvalidContextId"
  ELSE IF payload.size >= Limit(e, s) THEN "PayloadTooLarge"
  ELSE "Ok"

\* The outcome of decode_h3_datagram and of decode_datagram_capsule, which make
\* the same checks in the same order, for an HttpDatagram of stream_id.
Decoded(e, s, carrier, stream_id, context, payload) ==
  IF ~Enabled(e, s, carrier) THEN "NotNegotiated"
  ELSE IF stream_id # s THEN "MismatchedStreamId"
  ELSE IF context # "zero" THEN "InvalidContextId"
  ELSE IF payload.size > Limit(e, s) THEN "PayloadTooLarge"
  ELSE "Ok"

\* The outcome of encode_h3_datagram and of encode_datagram_capsule, which do not
\* call a payload that is too large by the same name.
Encoded(e, s, carrier, payload) ==
  IF ~Enabled(e, s, carrier) THEN "NotNegotiated"
  ELSE IF payload.size <= Limit(e, s) THEN "Ok"
  ELSE IF carrier = "H3Datagram" THEN "InvalidConfig" ELSE "PayloadTooLarge"

\* What became of a payload that was offered; what a stray held is forgotten.
Refuse(e, s, why, payload) ==
  IF payload = Nothing THEN UNCHANGED refused
  ELSE refused' = [refused EXCEPT
         ![e] = @ \cup {[stream |-> s, why |-> why, payload |-> payload]}]
-----------------------------------------------------------------------------
Init ==
  /\ advertised \in [Ends -> [setting : Settings, field : Fields]]
  /\ assoc = [e \in Ends |-> [s \in StreamIds |-> Unbound]]
  /\ offered = [e \in Ends |-> [s \in StreamIds |-> <<>>]]
  /\ hand = [e \in Ends |-> [s \in StreamIds |-> <<>>]]
  /\ frames = [e \in Ends |-> {}]
  /\ capsules = [e \in Ends |-> [s \in StreamIds |-> <<>>]]
  /\ delivered = [e \in Ends |-> [s \in StreamIds |-> <<>>]]
  /\ forwarded = [e \in Ends |-> [s \in StreamIds |-> 0]]
  /\ refused = [e \in Ends |-> {}]

\* UdpAssociation::bind.  Errors leave no association.
Bind(e, s, family, missing) ==
  /\ ~Bound(e, s)
  /\ ValidStreamId(s)
  /\ assoc' = [assoc EXCEPT ![e][s] =
       [socket |-> "open", family |-> family, session |-> SessionOf(e, missing)]]
  /\ UNCHANGED <<advertised, tunnel>>

\* A caller may bind for a stream that can carry no request.  Every session here
\* is connect-udp, so the refusal of another protocol does not occur.
BindRefused(e, s) ==
  /\ ~Bound(e, s)
  /\ ~ValidStreamId(s)
  /\ UNCHANGED vars

Elements(seq) == {seq[i] : i \in DOMAIN seq}
AllOffered == UNION {Elements(offered[e][s]) : e \in Ends, s \in StreamIds}

\* A caller gets a payload to send; of its bytes, kept is what it holds.
Take(e, s, size, kept) ==
  LET id == Cardinality(AllOffered) + 1 IN
  /\ e \in Sources /\ id <= MaxPayloads
  /\ Bound(e, s)
  /\ offered' = [offered EXCEPT ![e][s] = Append(@, [id |-> id, size |-> size])]
  /\ hand' = [hand EXCEPT ![e][s] = Append(@, [id |-> id, size |-> kept])]
  /\ UNCHANGED <<advertised, assoc, frames, capsules, delivered, forwarded, refused>>

\* A payload of the caller's own: encode takes bytes from anywhere.
Offer(e, s) == \E size \in Sizes : Take(e, s, size, size)

\* UdpAssociation::recv_into: what the buffer has no room for is discarded.
\* The network delivers no datagram longer than its family can carry.
recv_into(e, s, buffer) == \E size \in Sizes :
  /\ Bound(e, s) /\ assoc[e][s].socket = "open"
  /\ size <= Limit(e, s)
  /\ Take(e, s, size, IF size <= buffer THEN size ELSE buffer)

Recv(e, s) == recv_into(e, s, MAX_UDP_PAYLOAD)

\* An error of encode other than NotNegotiated depends on the payload, which
\* the caller gives up; with NotNegotiated it tries the other carrier.
EncodeFails(e, s, carrier) ==
  /\ hand[e][s] # <<>>
  /\ LET why == Encoded(e, s, carrier, Head(hand[e][s])) IN
       /\ why \in {"InvalidConfig", "PayloadTooLarge"}
       /\ Refuse(e, s, why, Head(hand[e][s]))
  /\ hand' = [hand EXCEPT ![e][s] = Tail(@)]
  /\ UNCHANGED <<advertised, assoc, offered, frames, capsules, delivered, forwarded>>

EncodeH3(e, s) ==
  /\ hand[e][s] # <<>>
  /\ Encoded(e, s, "H3Datagram", Head(hand[e][s])) = "Ok"
  /\ hand' = [hand EXCEPT ![e][s] = Tail(@)]
  /\ frames' = [frames EXCEPT ![Peer(e)] = @ \cup {encode_h3(s, Head(hand[e][s]))}]
  /\ UNCHANGED <<advertised, assoc, offered, capsules, delivered, forwarded, refused>>

\* Mutant of EncodeCapsule: an empty payload makes no capsule.
EncodeCapsuleOfBytes(e, s) ==
  /\ hand[e][s] # <<>>
  /\ Encoded(e, s, "DatagramCapsule", Head(hand[e][s])) = "Ok"
  /\ hand' = [hand EXCEPT ![e][s] = Tail(@)]
  /\ IF Head(hand[e][s]).size = 0 THEN UNCHANGED capsules
     ELSE capsules' = [capsules EXCEPT ![Peer(e)][s] =
            Append(@, [context |-> "zero", payload |-> Head(hand[e][s])])]
  /\ UNCHANGED <<advertised, assoc, offered, frames, delivered, forwarded, refused>>

EncodeCapsule(e, s) ==
  /\ hand[e][s] # <<>>
  /\ Encoded(e, s, "DatagramCapsule", Head(hand[e][s])) = "Ok"
  /\ hand' = [hand EXCEPT ![e][s] = Tail(@)]
  /\ capsules' = [capsules EXCEPT ![Peer(e)][s] =
       Append(@, [context |-> "zero", payload |-> Head(hand[e][s])])]
  /\ UNCHANGED <<advertised, assoc, offered, frames, delivered, forwarded, refused>>

\* QUIC DATAGRAM frames are not retransmitted.
LoseFrame(e, f) ==
  /\ frames' = [frames EXCEPT ![e] = @ \ {f}]
  /\ UNCHANGED <<advertised, assoc, offered, hand, capsules, delivered, forwarded, refused>>

\* What a decode operation does with the payload it was given.
Outcome(e, s, why, payload) ==
  IF why = "Ok"
  THEN delivered' = [delivered EXCEPT ![e][s] = Append(@, payload)] /\ UNCHANGED refused
  ELSE Refuse(e, s, why, payload) /\ UNCHANGED delivered

\* HttpDatagram::decode_h3, then decode_h3_datagram of an association that the
\* caller chose.  A frame whose quarter is out of range is not a datagram.
DecodeH3(e, s, f) ==
  /\ Bound(e, s)
  /\ f.quarter <= MAX_QUARTER_STREAM_ID
  /\ frames' = [frames EXCEPT ![e] = @ \ {f}]
  /\ Outcome(e, s, Decoded(e, s, "H3Datagram", f.quarter * 4, f.context, f.payload),
             f.payload)
  /\ UNCHANGED <<advertised, assoc, offered, hand, capsules, forwarded>>

\* Mutant of DecodeCapsule: the capsule that came last is decoded first.
DecodeCapsuleFromEnd(e, s, from) ==
  /\ Bound(e, s)
  /\ capsules[e][from] # <<>>
  /\ LET n == Len(capsules[e][from])
         c == capsules[e][from][n]
     IN  /\ Outcome(e, s, Decoded(e, s, "DatagramCapsule", from, c.context, c.payload),
                    c.payload)
         /\ capsules' = [capsules EXCEPT ![e][from] = SubSeq(@, 1, n - 1)]
  /\ UNCHANGED <<advertised, assoc, offered, hand, frames, forwarded>>

\* DatagramCapsule::decode with the stream it was read from, then
\* decode_datagram_capsule of an association that the caller chose.
DecodeCapsule(e, s, from) ==
  /\ Bound(e, s)
  /\ capsules[e][from] # <<>>
  /\ LET c == Head(capsules[e][from]) IN
       Outcome(e, s, Decoded(e, s, "DatagramCapsule", from, c.context, c.payload),
               c.payload)
  /\ capsules' = [capsules EXCEPT ![e][from] = Tail(@)]
  /\ UNCHANGED <<advertised, assoc, offered, hand, frames, forwarded>>

NextToSend(e, s) == delivered[e][s][forwarded[e][s] + 1]

SendOutcome(e, s, payload) ==
  IF assoc[e][s].socket # "open" THEN "UdpSend"
  ELSE IF payload.size > Limit(e, s) THEN "InvalidConfig"
  ELSE "Ok"

\* UdpAssociation::send of the next payload decoded; the caller drops what it
\* returns an error for, and the socket may fail too.
Send(e, s) ==
  /\ forwarded[e][s] < Len(delivered[e][s])
  /\ forwarded' = [forwarded EXCEPT ![e][s] = @ + 1]
  /\ LET why == SendOutcome(e, s, NextToSend(e, s)) IN
       \/ why = "Ok" /\ UNCHANGED refused
       \/ Refuse(e, s, IF why = "Ok" THEN "UdpSend" ELSE why, NextToSend(e, s))
  /\ UNCHANGED <<advertised, assoc, offered, hand, frames, capsules, delivered>>

\* UdpAssociation::close, again and again if the caller likes.
Close(e, s) ==
  /\ Bound(e, s)
  /\ assoc' = [assoc EXCEPT ![e][s].socket = "closed"]
  /\ UNCHANGED <<advertised, tunnel>>

Next == \E e \in Ends, s \in StreamIds :
  \/ \E family \in Families, missing \in Unrecorded : Bind(e, s, family, missing)
  \/ BindRefused(e, s)
  \/ Offer(e, s)
  \/ Recv(e, s)
  \/ \E carrier \in Carriers : EncodeFails(e, s, carrier)
  \/ EncodeH3(e, s)
  \/ EncodeCapsule(e, s)
  \/ \E f \in frames[e] : LoseFrame(e, f)
  \/ \E f \in frames[e] \cup Strays : DecodeH3(e, s, f)
  \/ \E from \in StreamIds : DecodeCapsule(e, s, from)
  \/ Send(e, s)
  \/ Close(e, s)

Spec == Init /\ [][Next]_vars
-----------------------------------------------------------------------------
(* Properties *)

\* Whatever association its caller hands a datagram or a capsule to, and
\* whatever a peer sends beside the library's own datagrams, a payload comes out
\* of the association of its own request only, whole, and once.
Relay == INSTANCE UdpRelay WITH Requests <- StreamIds, Ids <- 1..MaxPayloads
RelaySpec == Relay!Spec

UsesCapsules(e, s) == Bound(e, s) /\ Enabled(e, s, "DatagramCapsule")

\* Payloads sent as DATAGRAM capsules come out in the order they were offered,
\* whichever of them are refused on the way.
CapsulesKeepOrder == \A e \in Ends, s \in StreamIds :
  UsesCapsules(Peer(e), s) =>
    \A i, j \in DOMAIN delivered[e][s] :
      i < j => delivered[e][s][i].id < delivered[e][s][j].id

\* Whether a CapsuleParser with its default limit takes a capsule in, whose value
\* is the payload and its Context ID.
FitsParser(c) == c.payload.size + 1 <= DEFAULT_MAX_CAPSULE_LENGTH

\* A request that uses capsules loses nothing without an error: each payload is
\* still to be encoded, or on the stream in a capsule that the peer's parser takes
\* in, or out, or refused at one of the ends.
EveryCapsuleAccounted == \A e \in Ends, s \in StreamIds :
  UsesCapsules(e, s) =>
    \A p \in Elements(offered[e][s]) :
      \/ p \in Elements(hand[e][s])
      \/ p \in {c.payload : c \in {d \in Elements(capsules[Peer(e)][s]) : FitsParser(d)}}
      \/ p \in Elements(delivered[Peer(e)][s])
      \/ \E f \in Ends : p \in {r.payload : r \in refused[f]}

Cause(e, r) ==
  CASE r.why = "NotNegotiated" ->
         None \in {assoc[e][r.stream].session[c] : c \in DOMAIN assoc[e][r.stream].session}
    [] r.why = "MismatchedStreamId" ->
         r.payload \notin Elements(offered[Peer(e)][r.stream])
    [] r.why = "PayloadTooLarge" -> r.payload.size > Limit(e, r.stream)
    [] r.why = "InvalidConfig" ->
         /\ r.payload.size > Limit(e, r.stream)
         /\ r.payload \in Elements(offered[e][r.stream])
    [] r.why = "UdpSend" -> r.payload \in Elements(delivered[e][r.stream])
    [] OTHER -> FALSE

\* Between two ends that bound with all four capabilities recorded, a payload is
\* refused only because it went to the association of another request, or does
\* not fit the receiver's address family, or its socket failed.  What decode lets
\* through is never too large for send.
RefusedForCause == \A e \in Ends : \A r \in refused[e] : Cause(e, r)
=============================================================================
