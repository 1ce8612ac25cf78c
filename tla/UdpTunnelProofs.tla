--------------------------- MODULE UdpTunnelProofs ---------------------------
(***************************************************************************)
(* Proofs about UdpTunnel, for any set of request streams, any settings and  *)
(* fields that the ends advertise and any payloads: payloads stay on their   *)
(* request, capsules keep their order and none disappears, and every refusal *)
(* has its cause.                                                            *)
(***************************************************************************)
EXTENDS UdpTunnel, FiniteSetTheorems, SequenceTheorems, TLAPS

Payload == [id : Nat, size : Nat]
Capsule == [context : {"zero"}, payload : Payload]
Frame == [quarter : Nat, context : {"zero"}, payload : Payload]
Reasons == {"NotNegotiated", "MismatchedStreamId", "InvalidContextId", "PayloadTooLarge",
            "InvalidConfig", "UdpSend"}
Refusal == [stream : StreamIds, why : Reasons, payload : Payload]

Association ==
  [socket  : {"open", "closed"},
   family  : Families,
   session : [protocol               : {"connect-udp"},
              local_h3_datagram      : Settings \cup {None},
              peer_h3_datagram       : Settings \cup {None},
              local_capsule_protocol : Fields \cup {None},
              peer_capsule_protocol  : Fields \cup {None}]]

PerRequest(S) == [Ends -> [StreamIds -> S]]

TypeOK ==
  /\ advertised \in [Ends -> [setting : Settings, field : Fields]]
  /\ assoc \in PerRequest({Unbound} \cup Association)
  /\ offered \in PerRequest(Seq(Payload))
  /\ hand \in PerRequest(Seq(Payload))
  /\ frames \in [Ends -> SUBSET Frame]
  /\ capsules \in PerRequest(Seq(Capsule))
  /\ delivered \in PerRequest(Seq(Payload))
  /\ forwarded \in PerRequest(Nat)
  /\ refused \in [Ends -> SUBSET Refusal]

\* The identities given out so far.
IdsOK ==
  /\ IsFiniteSet(AllOffered)
  /\ \A p \in AllOffered : p.id \in 1 .. Cardinality(AllOffered)

\* An identity tells a payload and its request.
OwnIds == \A e, f \in Ends, s, t \in StreamIds :
  \A p \in Elements(offered[e][s]), q \in Elements(offered[f][t]) :
    p.id = q.id => e = f /\ s = t /\ p = q

\* Nothing happens on a request before its association, whose session holds what
\* the two ends have advertised, or less.
Learned(e, session) ==
  /\ session.local_h3_datagram \in {None, advertised[e].setting}
  /\ session.peer_h3_datagram \in {None, advertised[Peer(e)].setting}
  /\ session.local_capsule_protocol \in {None, advertised[e].field}
  /\ session.peer_capsule_protocol \in {None, advertised[Peer(e)].field}

BoundOK == \A e \in Ends, s \in StreamIds :
  /\ ~Bound(e, s) => offered[e][s] = <<>> /\ delivered[e][s] = <<>>
  /\ Bound(e, s) => ValidStreamId(s) /\ Learned(e, assoc[e][s].session)

FrameStream(f) == f.quarter * 4

\* What is held, in flight or delivered was offered on that request, and nothing
\* is on a carrier that its association has not enabled.
Placed == \A e \in Ends, s \in StreamIds :
  /\ Elements(hand[e][s]) \subseteq Elements(offered[e][s])
  /\ Elements(delivered[Peer(e)][s]) \subseteq Elements(offered[e][s])
  /\ \A c \in Elements(capsules[Peer(e)][s]) : c.payload \in Elements(offered[e][s])
  /\ capsules[Peer(e)][s] # <<>> => Bound(e, s) /\ Enabled(e, s, "DatagramCapsule")

FramesPlaced == \A e \in Ends : \A f \in frames[Peer(e)] :
  /\ FrameStream(f) \in StreamIds
  /\ f.payload \in Elements(offered[e][FrameStream(f)])
  /\ Bound(e, FrameStream(f)) /\ Enabled(e, FrameStream(f), "H3Datagram")

Ascending(q) == \A i, j \in DOMAIN q : i < j => q[i].id < q[j].id
AscendingCapsules(q) == \A i, j \in DOMAIN q : i < j => q[i].payload.id < q[j].payload.id

\* What a caller still holds is younger than what it has encoded, and a capsule
\* on the stream is younger than what has come out of it.
InOrder == \A e \in Ends, s \in StreamIds :
  /\ Ascending(hand[e][s]) /\ AscendingCapsules(capsules[Peer(e)][s])
  /\ \A p \in Elements(hand[e][s]) :
       /\ \A c \in Elements(capsules[Peer(e)][s]) : c.payload.id < p.id
       /\ \A q \in Elements(delivered[Peer(e)][s]) : q.id < p.id
       /\ \A f \in frames[Peer(e)] : FrameStream(f) = s => f.payload.id < p.id
  /\ \A c \in Elements(capsules[Peer(e)][s]) :
       \A q \in Elements(delivered[Peer(e)][s]) : q.id < c.payload.id
  /\ UsesCapsules(e, s) => Ascending(delivered[Peer(e)][s])

\* A frame in flight has not been delivered.
FramesNew == \A e \in Ends : \A f \in frames[Peer(e)] :
  \A q \in Elements(delivered[Peer(e)][FrameStream(f)]) : q.id # f.payload.id

\* decode lets nothing through that send refuses.
DeliveredFits == \A e \in Ends, s \in StreamIds :
  \A p \in Elements(delivered[e][s]) : p.size <= Limit(e, s)

RefusedKnown == \A e \in Ends : \A r \in refused[e] :
  /\ Bound(e, r.stream)
  /\ r.payload \in AllOffered

Inv ==
  /\ TypeOK /\ IdsOK /\ OwnIds
  /\ BoundOK /\ Placed /\ FramesPlaced
  /\ InOrder /\ FramesNew /\ DeliveredFits
  /\ RefusedKnown /\ RefusedForCause
  /\ EveryCapsuleAccounted
-----------------------------------------------------------------------------
(* Facts about the operators.                                               *)

LEMMA PeerFacts ==
  \A e \in Ends : Peer(e) \in Ends /\ Peer(Peer(e)) = e /\ Peer(e) # e
  BY DEF Ends, Peer

LEMMA HeadTail ==
  ASSUME NEW S, NEW q \in Seq(S), q # <<>>
  PROVE  /\ Head(q) \in S /\ Tail(q) \in Seq(S)
         /\ Elements(q) = {Head(q)} \cup Elements(Tail(q))
  <1>1. /\ Len(q) \in Nat \ {0} /\ DOMAIN q = 1 .. Len(q)
        /\ Head(q) = q[1] /\ Head(q) \in S /\ Tail(q) \in Seq(S)
        /\ DOMAIN Tail(q) = 1 .. Len(q) - 1
        /\ \A i \in 1 .. Len(q) - 1 : Tail(q)[i] = q[i + 1]
    OBVIOUS
  <1>2. ASSUME NEW x \in Elements(q) PROVE x \in {Head(q)} \cup Elements(Tail(q))
    <2>1. PICK i \in 1 .. Len(q) : x = q[i]
      BY <1>1, <1>2 DEF Elements
    <2>2. CASE i = 1
      BY <1>1, <2>1, <2>2
    <2>3. CASE i # 1
      <3>1. i - 1 \in 1 .. Len(q) - 1 /\ Tail(q)[i - 1] = x
        BY <1>1, <2>1, <2>3
      <3> QED
        BY <1>1, <3>1 DEF Elements
    <2> QED
      BY <2>2, <2>3
  <1>3. ASSUME NEW x \in {Head(q)} \cup Elements(Tail(q)) PROVE x \in Elements(q)
    <2>1. CASE x = Head(q)
      BY <1>1, <2>1 DEF Elements
    <2>2. CASE x \in Elements(Tail(q))
      <3>1. PICK i \in 1 .. Len(q) - 1 : x = q[i + 1]
        BY <1>1, <2>2 DEF Elements
      <3>2. i + 1 \in DOMAIN q
        BY <1>1
      <3> QED
        BY <3>1, <3>2 DEF Elements
    <2> QED
      BY <1>3, <2>1, <2>2
  <1> QED
    BY <1>1, <1>2, <1>3

LEMMA AppendTo ==
  ASSUME NEW S, NEW q \in Seq(S), NEW x \in S
  PROVE  /\ Append(q, x) \in Seq(S)
         /\ Elements(Append(q, x)) = Elements(q) \cup {x}
         /\ Append(q, x) # <<>>
  <1> DEFINE r == Append(q, x)
  <1>1. /\ Len(q) \in Nat /\ DOMAIN q = 1 .. Len(q) /\ r \in Seq(S)
        /\ DOMAIN r = 1 .. Len(q) + 1 /\ r[Len(q) + 1] = x
        /\ \A i \in 1 .. Len(q) : r[i] = q[i]
    OBVIOUS
  <1>2. r # <<>>
    BY AppendProperties
  <1> HIDE DEF r
  <1>3. \A y \in Elements(r) : y \in Elements(q) \cup {x}
    BY <1>1 DEF Elements
  <1>4. \A y \in Elements(q) \cup {x} : y \in Elements(r)
    BY <1>1 DEF Elements
  <1> QED
    BY <1>1, <1>2, <1>3, <1>4 DEF r

LEMMA InSequence ==
  ASSUME NEW S, NEW q \in Seq(S)
  PROVE  /\ Elements(q) \subseteq S
         /\ \A i \in DOMAIN q : q[i] \in Elements(q)
         /\ (q = <<>> <=> Elements(q) = {})
  <1>1. /\ Len(q) \in Nat /\ DOMAIN q = 1 .. Len(q)
        /\ \A i \in 1 .. Len(q) : q[i] \in S
        /\ (q = <<>> <=> Len(q) = 0)
    BY EmptySeq
  <1>2. CASE q = <<>>
    BY <1>1, <1>2 DEF Elements
  <1>3. CASE q # <<>>
    <2>1. 1 \in DOMAIN q
      BY <1>1, <1>3
    <2>2. q[1] \in Elements(q)
      BY <2>1 DEF Elements
    <2> QED
      BY <1>1, <1>3, <2>2 DEF Elements
  <1> QED
    BY <1>2, <1>3

LEMMA AscendingTail ==
  ASSUME NEW q \in Seq(Payload), q # <<>>, Ascending(q)
  PROVE  /\ Ascending(Tail(q))
         /\ \A p \in Elements(Tail(q)) : Head(q).id < p.id
  <1>1. /\ Len(q) \in Nat \ {0} /\ DOMAIN q = 1 .. Len(q) /\ Head(q) = q[1]
        /\ DOMAIN Tail(q) = 1 .. Len(q) - 1
        /\ \A i \in 1 .. Len(q) - 1 : Tail(q)[i] = q[i + 1]
    OBVIOUS
  <1>2. \A i, j \in 1 .. Len(q) - 1 :
          /\ i + 1 \in DOMAIN q /\ j + 1 \in DOMAIN q /\ 1 \in DOMAIN q /\ 1 < j + 1
          /\ i < j => i + 1 < j + 1
    BY <1>1
  <1>3. \A j \in 1 .. Len(q) - 1 : q[1].id < q[j + 1].id
    BY <1>2 DEF Ascending
  <1>4. \A i, j \in 1 .. Len(q) - 1 : i < j => q[i + 1].id < q[j + 1].id
    BY <1>2 DEF Ascending
  <1> QED
    BY <1>1, <1>3, <1>4 DEF Ascending, Elements

LEMMA AscendingAppend ==
  ASSUME NEW q \in Seq(Payload), NEW p \in Payload, Ascending(q),
         \A r \in Elements(q) : r.id < p.id
  PROVE  Ascending(Append(q, p))
  <1> DEFINE r == Append(q, p)
  <1>1. /\ Len(q) \in Nat /\ DOMAIN q = 1 .. Len(q)
        /\ DOMAIN r = 1 .. Len(q) + 1 /\ r[Len(q) + 1] = p
        /\ \A i \in 1 .. Len(q) : r[i] = q[i]
    OBVIOUS
  <1> HIDE DEF r
  <1>2. \A i \in 1 .. Len(q) : q[i].id < p.id
    BY <1>1 DEF Elements
  <1>3. Ascending(r)
    BY <1>1, <1>2 DEF Ascending
  <1> QED
    BY <1>3 DEF r

LEMMA AscendingCapsulesTail ==
  ASSUME NEW q \in Seq(Capsule), q # <<>>, AscendingCapsules(q)
  PROVE  /\ AscendingCapsules(Tail(q))
         /\ \A c \in Elements(Tail(q)) : Head(q).payload.id < c.payload.id
  <1>1. /\ Len(q) \in Nat \ {0} /\ DOMAIN q = 1 .. Len(q) /\ Head(q) = q[1]
        /\ DOMAIN Tail(q) = 1 .. Len(q) - 1
        /\ \A i \in 1 .. Len(q) - 1 : Tail(q)[i] = q[i + 1]
    OBVIOUS
  <1>2. \A i, j \in 1 .. Len(q) - 1 :
          /\ i + 1 \in DOMAIN q /\ j + 1 \in DOMAIN q /\ 1 \in DOMAIN q /\ 1 < j + 1
          /\ i < j => i + 1 < j + 1
    BY <1>1
  <1>3. \A j \in 1 .. Len(q) - 1 : q[1].payload.id < q[j + 1].payload.id
    BY <1>2 DEF AscendingCapsules
  <1>4. \A i, j \in 1 .. Len(q) - 1 : i < j => q[i + 1].payload.id < q[j + 1].payload.id
    BY <1>2 DEF AscendingCapsules
  <1> QED
    BY SMTT(60), <1>1, <1>3, <1>4 DEF AscendingCapsules, Elements

LEMMA AscendingCapsulesAppend ==
  ASSUME NEW q \in Seq(Capsule), NEW c \in Capsule, AscendingCapsules(q),
         \A d \in Elements(q) : d.payload.id < c.payload.id
  PROVE  AscendingCapsules(Append(q, c))
  <1> DEFINE r == Append(q, c)
  <1>1. /\ Len(q) \in Nat /\ DOMAIN q = 1 .. Len(q)
        /\ DOMAIN r = 1 .. Len(q) + 1 /\ r[Len(q) + 1] = c
        /\ \A i \in 1 .. Len(q) : r[i] = q[i]
    OBVIOUS
  <1> HIDE DEF r
  <1>2. \A i \in 1 .. Len(q) : q[i].payload.id < c.payload.id
    BY <1>1 DEF Elements
  <1>3. AscendingCapsules(r)
    BY <1>1, <1>2 DEF AscendingCapsules
  <1> QED
    BY <1>3 DEF r

LEMMA Types ==
  ASSUME TypeOK, NEW e \in Ends, NEW s \in StreamIds
  PROVE  /\ assoc[e][s] \in {Unbound} \cup Association
         /\ offered[e][s] \in Seq(Payload)
         /\ hand[e][s] \in Seq(Payload)
         /\ capsules[e][s] \in Seq(Capsule)
         /\ delivered[e][s] \in Seq(Payload)
         /\ forwarded[e][s] \in Nat
  BY DEF TypeOK, PerRequest

LEMMA EndTypes ==
  ASSUME TypeOK, NEW e \in Ends
  PROVE  /\ frames[e] \subseteq Frame
         /\ refused[e] \subseteq Refusal
  BY DEF TypeOK

LEMMA BoundTypes ==
  ASSUME TypeOK, NEW e \in Ends, NEW s \in StreamIds, Bound(e, s)
  PROVE  /\ assoc[e][s] \in Association
         /\ Limit(e, s) \in {65507, 65527}
  <1>1. assoc[e][s] \in Association
    BY Types DEF Bound
  <1> QED
    BY <1>1 DEF Limit, max_payload_for_addr, MAX_UDP_PAYLOAD_IPV4, MAX_UDP_PAYLOAD_IPV6

\* An association's sessions stay what was learned, and payloads are put only
\* where one is bound.
LEMMA BoundKept ==
  ASSUME BoundOK, UNCHANGED advertised,
         \A x \in Ends, t \in StreamIds :
           /\ Bound(x, t)' <=> Bound(x, t)
           /\ assoc'[x][t].session = assoc[x][t].session
           /\ ~Bound(x, t) => offered'[x][t] = offered[x][t] /\ delivered'[x][t] = delivered[x][t]
  PROVE  BoundOK'
  <1> SUFFICES ASSUME NEW x \in Ends, NEW t \in StreamIds
               PROVE  /\ ~Bound(x, t)' => offered'[x][t] = <<>> /\ delivered'[x][t] = <<>>
                      /\ Bound(x, t)' => ValidStreamId(t)
                      /\ Bound(x, t)' => Learned(x, assoc[x][t].session)'
    BY DEF BoundOK
  <1>1. ~Bound(x, t) => offered[x][t] = <<>> /\ delivered[x][t] = <<>>
    BY DEF BoundOK
  <1>2. Bound(x, t) => ValidStreamId(t) /\ Learned(x, assoc[x][t].session)
    BY DEF BoundOK
  <1>3. Learned(x, assoc[x][t].session)' <=> Learned(x, assoc[x][t].session)
    BY DEF Learned
  <1> QED
    BY <1>1, <1>2, <1>3

\* What a request's association decides stays as long as its family and session.
LEMMA AssociationKept ==
  ASSUME NEW e, NEW s,
         assoc'[e][s].family = assoc[e][s].family, assoc'[e][s].session = assoc[e][s].session
  PROVE  /\ Limit(e, s)' = Limit(e, s)
         /\ \A carrier : Enabled(e, s, carrier)' <=> Enabled(e, s, carrier)
  BY DEF Limit, Enabled

LEMMA AssociationsKept ==
  ASSUME UNCHANGED assoc
  PROVE  \A e, s : /\ Bound(e, s)' <=> Bound(e, s)
                   /\ Limit(e, s)' = Limit(e, s)
                   /\ \A carrier : Enabled(e, s, carrier)' <=> Enabled(e, s, carrier)
                   /\ UsesCapsules(e, s)' <=> UsesCapsules(e, s)
  BY DEF Bound, Limit, Enabled, UsesCapsules

\* A cause stays one while payloads are offered and delivered.
LEMMA CauseKept ==
  ASSUME NEW e, NEW r, Cause(e, r),
         assoc'[e][r.stream].family = assoc[e][r.stream].family,
         assoc'[e][r.stream].session = assoc[e][r.stream].session,
         Elements(offered[e][r.stream]) \subseteq Elements(offered'[e][r.stream]),
         Elements(delivered[e][r.stream]) \subseteq Elements(delivered'[e][r.stream]),
         r.payload \in Elements(offered'[Peer(e)][r.stream])
           => r.payload \in Elements(offered[Peer(e)][r.stream])
  PROVE  Cause(e, r)'
  <1>1. Limit(e, r.stream)' = Limit(e, r.stream)
    BY DEF Limit
  <1> QED
    BY <1>1 DEF Cause

LEMMA OfferedIsAll ==
  /\ \A e \in Ends, s \in StreamIds : Elements(offered[e][s]) \subseteq AllOffered
  /\ \A p \in AllOffered : \E e \in Ends, s \in StreamIds : p \in Elements(offered[e][s])
  BY DEF AllOffered
-----------------------------------------------------------------------------
(* The invariant. *)

LEMMA InitInv == Init => Inv
  <1> SUFFICES ASSUME Init PROVE Inv
    OBVIOUS
  <1>1. TypeOK
    BY DEF Init, TypeOK, PerRequest
  <1>2. /\ \A e \in Ends, s \in StreamIds :
             /\ ~Bound(e, s) /\ offered[e][s] = <<>> /\ hand[e][s] = <<>>
             /\ capsules[e][s] = <<>> /\ delivered[e][s] = <<>>
        /\ \A e \in Ends : frames[e] = {} /\ refused[e] = {}
    BY DEF Init, Bound
  <1>3. Elements(<<>>) = {}
    BY DEF Elements
  <1>4. AllOffered = {}
    BY <1>2, <1>3 DEF AllOffered
  <1>5. IdsOK
    BY <1>4, FS_EmptySet DEF IdsOK
  <1>6. OwnIds /\ BoundOK /\ DeliveredFits
    BY <1>2, <1>3 DEF OwnIds, BoundOK, DeliveredFits
  <1>7. Placed /\ FramesPlaced /\ FramesNew
    BY <1>2, <1>3, PeerFacts DEF Placed, FramesPlaced, FramesNew
  <1>8. InOrder
    <2>1. Ascending(<<>>) /\ AscendingCapsules(<<>>)
      BY DEF Ascending, AscendingCapsules
    <2> QED
      BY <1>2, <1>3, <2>1, PeerFacts DEF InOrder
  <1>9. RefusedKnown /\ RefusedForCause /\ EveryCapsuleAccounted
    BY <1>2, <1>3 DEF RefusedKnown, RefusedForCause, EveryCapsuleAccounted, UsesCapsules
  <1> QED
    BY <1>1, <1>5, <1>6, <1>7, <1>8, <1>9 DEF Inv

\* Associations are made and closed, and keep their session and family.
LEMMA AssociationsChange ==
  ASSUME Inv, UNCHANGED <<advertised, offered, hand, frames, capsules, delivered, forwarded, refused>>,
         assoc' \in PerRequest({Unbound} \cup Association),
         \A e \in Ends, s \in StreamIds : Bound(e, s) =>
           /\ Bound(e, s)'
           /\ assoc'[e][s].family = assoc[e][s].family
           /\ assoc'[e][s].session = assoc[e][s].session,
         BoundOK'
  PROVE  Inv'
  <1>1. TypeOK' /\ IdsOK' /\ OwnIds'
    <2>1. TypeOK'
      BY DEF Inv, TypeOK
    <2>2. AllOffered' = AllOffered
      BY DEF AllOffered
    <2> QED
      BY <2>1, <2>2 DEF Inv, IdsOK, OwnIds
  <1>2. \A e \in Ends, s \in StreamIds : Bound(e, s) =>
          /\ Limit(e, s)' = Limit(e, s)
          /\ \A carrier : Enabled(e, s, carrier)' <=> Enabled(e, s, carrier)
    BY AssociationKept
  <1>3. \A e \in Ends, s \in StreamIds : ~Bound(e, s) =>
          Elements(offered[e][s]) = {} /\ Elements(delivered[e][s]) = {}
    BY DEF Inv, BoundOK, Elements
  <1>4. Placed'
    BY <1>2 DEF Inv, Placed
  <1>5. FramesPlaced' /\ FramesNew'
    BY <1>2 DEF Inv, FramesPlaced, FramesNew
  <1>6. InOrder'
    <2> SUFFICES ASSUME NEW e \in Ends, NEW s \in StreamIds, UsesCapsules(e, s)'
                 PROVE  Ascending(delivered[Peer(e)][s])
      BY DEF Inv, InOrder
    <2>1. CASE Bound(e, s)
      BY <1>2, <2>1 DEF UsesCapsules, Inv, InOrder
    <2>2. CASE ~Bound(e, s)
      <3>1. Elements(delivered[Peer(e)][s]) = {}
        BY <1>3, <2>2 DEF Inv, Placed
      <3> QED
        BY <3>1 DEF Ascending, Elements
    <2> QED
      BY <2>1, <2>2
  <1>7. DeliveredFits'
    BY <1>2, <1>3 DEF Inv, DeliveredFits
  <1>8. RefusedKnown' /\ RefusedForCause'
    <2> SUFFICES ASSUME NEW e \in Ends, NEW r \in refused[e]
                 PROVE  Bound(e, r.stream)' /\ (r.payload \in AllOffered)' /\ Cause(e, r)'
      BY DEF RefusedKnown, RefusedForCause
    <2>1. r.stream \in StreamIds
      BY EndTypes DEF Inv, Refusal
    <2>2. Bound(e, r.stream) /\ r.payload \in AllOffered /\ Cause(e, r)
      BY DEF Inv, RefusedKnown, RefusedForCause
    <2>3. Cause(e, r)'
      BY <2>1, <2>2, CauseKept
    <2> QED
      BY <2>1, <2>2, <2>3 DEF AllOffered
  <1>9. EveryCapsuleAccounted'
    <2> SUFFICES ASSUME NEW e \in Ends, NEW s \in StreamIds, UsesCapsules(e, s)',
                        Elements(offered[e][s]) # {}
                 PROVE  UsesCapsules(e, s)
      BY DEF EveryCapsuleAccounted, Inv
    <2> QED
      BY <1>2, <1>3 DEF UsesCapsules
  <1> QED
    BY <1>1, <1>4, <1>5, <1>6, <1>7, <1>8, <1>9 DEF Inv

LEMMA BindKeepsInv ==
  ASSUME Inv, NEW e \in Ends, NEW s \in StreamIds, NEW family \in Families, NEW missing,
         Bind(e, s, family, missing)
  PROVE  Inv'
  <1> DEFINE a == [socket |-> "open", family |-> family, session |-> SessionOf(e, missing)]
  <1>1. /\ ~Bound(e, s) /\ ValidStreamId(s) /\ assoc' = [assoc EXCEPT ![e][s] = a]
        /\ UNCHANGED <<advertised, offered, hand, frames, capsules, delivered, forwarded, refused>>
    BY DEF Bind, tunnel
  <1>2. /\ advertised[e] \in [setting : Settings, field : Fields]
        /\ advertised[Peer(e)] \in [setting : Settings, field : Fields]
    BY PeerFacts DEF Inv, TypeOK
  <1>3. a \in Association
    BY <1>2 DEF SessionOf, Association
  <1>4. a.session = SessionOf(e, missing) /\ a # Unbound
    BY DEF Unbound
  <1> HIDE DEF a
  <1>5. /\ assoc' \in PerRequest({Unbound} \cup Association) /\ assoc'[e][s] = a
        /\ \A x \in Ends, t \in StreamIds : x # e \/ t # s => assoc'[x][t] = assoc[x][t]
    BY <1>1, <1>3 DEF Inv, TypeOK, PerRequest
  <1>6. BoundOK'
    <2> SUFFICES ASSUME NEW x \in Ends, NEW t \in StreamIds
                 PROVE  /\ ~Bound(x, t)' => offered'[x][t] = <<>> /\ delivered'[x][t] = <<>>
                        /\ Bound(x, t)' => ValidStreamId(t)
                        /\ Bound(x, t)' => Learned(x, assoc[x][t].session)'
      BY DEF BoundOK
    <2>1. CASE x = e /\ t = s
      <3>1. Bound(x, t)'
        BY <1>4, <1>5, <2>1 DEF Bound
      <3>2. Learned(x, a.session)
        BY <1>4, <2>1 DEF Learned, SessionOf
      <3>3. Learned(x, assoc[x][t].session)'
        BY <1>1, <1>5, <2>1, <3>2 DEF Learned
      <3> QED
        BY <1>1, <2>1, <3>1, <3>3
    <2>2. CASE x # e \/ t # s
      <3>1. assoc'[x][t] = assoc[x][t]
        BY <1>5, <2>2
      <3>2. /\ ~Bound(x, t) => offered[x][t] = <<>> /\ delivered[x][t] = <<>>
            /\ Bound(x, t) => ValidStreamId(t) /\ Learned(x, assoc[x][t].session)
        BY DEF Inv, BoundOK
      <3> QED
        BY <1>1, <3>1, <3>2 DEF Bound, Learned
    <2> QED
      BY <2>1, <2>2
  <1> QED
    BY <1>1, <1>5, <1>6, AssociationsChange DEF Bound

LEMMA CloseKeepsInv ==
  ASSUME Inv, NEW e \in Ends, NEW s \in StreamIds, Close(e, s)
  PROVE  Inv'
  <1> DEFINE a == [assoc[e][s] EXCEPT !.socket = "closed"]
  <1>1. /\ Bound(e, s) /\ assoc' = [assoc EXCEPT ![e][s].socket = "closed"]
        /\ UNCHANGED <<advertised, offered, hand, frames, capsules, delivered, forwarded, refused>>
    BY DEF Close, tunnel
  <1>2. assoc' = [assoc EXCEPT ![e][s] = a]
    BY <1>1
  <1>3. /\ a \in Association /\ a.family = assoc[e][s].family /\ a.session = assoc[e][s].session
        /\ a # Unbound
    BY <1>1, BoundTypes DEF Inv, Association, Unbound
  <1> HIDE DEF a
  <1>4. /\ assoc' \in PerRequest({Unbound} \cup Association) /\ assoc'[e][s] = a
        /\ \A x \in Ends, t \in StreamIds : x # e \/ t # s => assoc'[x][t] = assoc[x][t]
    BY <1>2, <1>3 DEF Inv, TypeOK, PerRequest
  <1>5. \A x \in Ends, t \in StreamIds :
          /\ Bound(x, t)' <=> Bound(x, t)
          /\ assoc'[x][t].family = assoc[x][t].family
          /\ assoc'[x][t].session = assoc[x][t].session
    BY <1>1, <1>3, <1>4 DEF Bound
  <1>6. BoundOK'
    BY <1>1, <1>5, BoundKept DEF Inv
  <1> QED
    BY <1>1, <1>4, <1>5, <1>6, AssociationsChange

\* A payload that the caller gets to send has an identity of its own, later than
\* all others, and is held whole.
LEMMA TakeKeepsInv ==
  ASSUME Inv, NEW e \in Ends, NEW s \in StreamIds, NEW size \in Nat, Take(e, s, size, size)
  PROVE  Inv'
  <1> DEFINE p == [id |-> Cardinality(AllOffered) + 1, size |-> size]
  <1>1. /\ Bound(e, s)
        /\ offered' = [offered EXCEPT ![e][s] = Append(@, p)]
        /\ hand' = [hand EXCEPT ![e][s] = Append(@, p)]
        /\ UNCHANGED <<advertised, assoc, frames, capsules, delivered, forwarded, refused>>
    BY DEF Take
  <1>2. /\ Cardinality(AllOffered) \in Nat
        /\ p \in Payload /\ p.id = Cardinality(AllOffered) + 1
    BY FS_CardinalityType DEF Inv, IdsOK, Payload
  <1> HIDE DEF p
  <1>3. \A q \in AllOffered : q.id < p.id
    BY <1>2 DEF Inv, IdsOK
  <1>4. p \notin AllOffered
    BY <1>2, <1>3
  <1>5. /\ offered[e][s] \in Seq(Payload) /\ hand[e][s] \in Seq(Payload)
        /\ Append(offered[e][s], p) \in Seq(Payload) /\ Append(hand[e][s], p) \in Seq(Payload)
        /\ Elements(Append(offered[e][s], p)) = Elements(offered[e][s]) \cup {p}
        /\ Elements(Append(hand[e][s], p)) = Elements(hand[e][s]) \cup {p}
    BY <1>2, Types, AppendTo DEF Inv
  <1>6. /\ offered' \in PerRequest(Seq(Payload)) /\ offered'[e][s] = Append(offered[e][s], p)
        /\ \A x \in Ends, t \in StreamIds : x # e \/ t # s => offered'[x][t] = offered[x][t]
    BY <1>1, <1>5 DEF Inv, TypeOK, PerRequest
  <1>7. /\ hand' \in PerRequest(Seq(Payload)) /\ hand'[e][s] = Append(hand[e][s], p)
        /\ \A x \in Ends, t \in StreamIds : x # e \/ t # s => hand'[x][t] = hand[x][t]
    BY <1>1, <1>5 DEF Inv, TypeOK, PerRequest
  <1>8. \A x \in Ends, t \in StreamIds :
          /\ Elements(offered'[x][t]) = Elements(offered[x][t]) \cup (IF x = e /\ t = s THEN {p} ELSE {})
          /\ Elements(hand'[x][t]) = Elements(hand[x][t]) \cup (IF x = e /\ t = s THEN {p} ELSE {})
    BY <1>5, <1>6, <1>7
  <1>9. AllOffered' = AllOffered \cup {p}
    <2>1. \A q : q \in AllOffered' <=>
            \E x \in Ends, t \in StreamIds : q \in Elements(offered'[x][t])
      BY DEF AllOffered
    <2>2. \A q \in AllOffered' : q \in AllOffered \cup {p}
      BY <1>8, <2>1, OfferedIsAll
    <2>3. p \in AllOffered'
      BY <1>8, <2>1
    <2>4. \A q \in AllOffered : q \in AllOffered'
      BY <1>8, <2>1, OfferedIsAll
    <2> QED
      BY <2>2, <2>3, <2>4
  <1>10. TypeOK'
    BY <1>1, <1>6, <1>7 DEF Inv, TypeOK
  <1>11. IdsOK'
    <2>1. IsFiniteSet(AllOffered') /\ Cardinality(AllOffered') = Cardinality(AllOffered) + 1
      BY <1>4, <1>9, FS_AddElement DEF Inv, IdsOK
    <2> QED
      BY <1>2, <1>9, <2>1 DEF Inv, IdsOK
  <1>12. \A x \in Ends, t \in StreamIds : \A q \in Elements(offered[x][t]) : q.id < p.id
    BY <1>3, OfferedIsAll
  <1>13. OwnIds'
    <2> SUFFICES ASSUME NEW x \in Ends, NEW y \in Ends, NEW t \in StreamIds, NEW u \in StreamIds,
                        NEW q \in Elements(offered'[x][t]), NEW r \in Elements(offered'[y][u]),
                        q.id = r.id
                 PROVE  x = y /\ t = u /\ q = r
      BY DEF OwnIds
    <2>1. CASE q \in Elements(offered[x][t]) /\ r \in Elements(offered[y][u])
      BY <2>1 DEF Inv, OwnIds
    <2>2. q \notin Elements(offered[x][t]) => q = p /\ x = e /\ t = s
      BY <1>8
    <2>3. r \notin Elements(offered[y][u]) => r = p /\ y = e /\ u = s
      BY <1>8
    <2>4. p.id \in Nat
      BY <1>2
    <2> QED
      BY <1>12, <2>1, <2>2, <2>3, <2>4
  <1>14. BoundOK' /\ DeliveredFits'
    <2>1. BoundOK'
      BY <1>1, <1>6, BoundKept DEF Inv, Bound
    <2>2. DeliveredFits'
      BY <1>1 DEF Inv, DeliveredFits, Limit
    <2> QED
      BY <2>1, <2>2
  <1>15. Placed'
    <2>1. \A x \in Ends, t \in StreamIds :
            /\ Elements(offered[x][t]) \subseteq Elements(offered'[x][t])
            /\ Elements(hand[x][t]) \subseteq Elements(offered[x][t])
                 => Elements(hand'[x][t]) \subseteq Elements(offered'[x][t])
      BY <1>8
    <2> QED
      BY <1>1, <2>1, AssociationsKept DEF Inv, Placed
  <1>16. FramesPlaced' /\ FramesNew'
    <2>1. \A x \in Ends, t \in StreamIds : Elements(offered[x][t]) \subseteq Elements(offered'[x][t])
      BY <1>8
    <2> QED
      BY <1>1, <2>1, AssociationsKept DEF Inv, FramesPlaced, FramesNew
  <1>17. InOrder'
    <2>1. Ascending(Append(hand[e][s], p))
      BY <1>2, <1>5, <1>12, AscendingAppend DEF Inv, InOrder, Placed
    <2>2. \A x \in Ends, t \in StreamIds : Ascending(hand'[x][t])
      BY <1>7, <2>1 DEF Inv, InOrder
    <2>3. /\ \A c \in Elements(capsules[Peer(e)][s]) : c.payload.id < p.id
          /\ \A q \in Elements(delivered[Peer(e)][s]) : q.id < p.id
          /\ \A f \in frames[Peer(e)] : FrameStream(f) = s => f.payload.id < p.id
      BY <1>12 DEF Inv, Placed, FramesPlaced
    <2> SUFFICES ASSUME NEW x \in Ends, NEW t \in StreamIds
                 PROVE  \A q \in Elements(hand'[x][t]) :
                          /\ \A c \in Elements(capsules[Peer(x)][t]) : c.payload.id < q.id
                          /\ \A r \in Elements(delivered[Peer(x)][t]) : r.id < q.id
                          /\ \A f \in frames[Peer(x)] : FrameStream(f) = t => f.payload.id < q.id
      BY <1>1, <2>2, AssociationsKept DEF Inv, InOrder
    <2>4. CASE x = e /\ t = s
      BY <1>8, <2>3, <2>4 DEF Inv, InOrder
    <2>5. CASE x # e \/ t # s
      BY SMTT(60), <1>8, <2>5 DEF Inv, InOrder
    <2> QED
      BY <2>4, <2>5
  <1>18. RefusedKnown' /\ RefusedForCause'
    <2> SUFFICES ASSUME NEW x \in Ends, NEW r \in refused[x]
                 PROVE  Bound(x, r.stream)' /\ r.payload \in AllOffered' /\ Cause(x, r)'
      BY <1>1 DEF RefusedKnown, RefusedForCause
    <2>1. Bound(x, r.stream) /\ r.payload \in AllOffered /\ Cause(x, r) /\ r.stream \in StreamIds
      BY EndTypes DEF Inv, RefusedKnown, RefusedForCause, Refusal
    <2>2. /\ Elements(offered[x][r.stream]) \subseteq Elements(offered'[x][r.stream])
          /\ r.payload \in Elements(offered'[Peer(x)][r.stream])
               => r.payload \in Elements(offered[Peer(x)][r.stream])
      BY <1>4, <1>8, <2>1, PeerFacts
    <2>3. Cause(x, r)'
      BY <1>1, <2>1, <2>2, CauseKept
    <2> QED
      BY <1>1, <1>9, <2>1, <2>3 DEF Bound
  <1>19. EveryCapsuleAccounted'
    <2>1. \A x \in Ends, t \in StreamIds : \A q \in Elements(offered'[x][t]) :
            /\ q \in Elements(offered[x][t]) \/ q \in Elements(hand'[x][t])
            /\ q \in Elements(hand[x][t]) => q \in Elements(hand'[x][t])
      BY <1>8
    <2> QED
      BY <1>1, <2>1, AssociationsKept DEF Inv, EveryCapsuleAccounted
  <1> QED
    BY <1>10, <1>11, <1>13, <1>14, <1>15, <1>16, <1>17, <1>18, <1>19 DEF Inv

LEMMA OfferKeepsInv ==
  ASSUME Inv, NEW e \in Ends, NEW s \in StreamIds, Offer(e, s) \/ Recv(e, s)
  PROVE  Inv' /\ \E size \in Sizes : Take(e, s, size, size)
  <1>1. PICK size \in Sizes : Take(e, s, size, size)
    <2>1. CASE Offer(e, s)
      BY <2>1 DEF Offer
    <2>2. CASE Recv(e, s)
      <3>1. PICK size \in Sizes :
              /\ Bound(e, s) /\ size <= Limit(e, s)
              /\ Take(e, s, size, IF size <= MAX_UDP_PAYLOAD THEN size ELSE MAX_UDP_PAYLOAD)
        BY <2>2 DEF Recv, recv_into
      <3>2. size <= MAX_UDP_PAYLOAD
        BY <3>1, BoundTypes, TunnelAssumption DEF Inv, MAX_UDP_PAYLOAD, MAX_UDP_PAYLOAD_IPV6
      <3> QED
        BY <3>1, <3>2
    <2> QED
      BY <2>1, <2>2
  <1>2. size \in Nat
    BY TunnelAssumption
  <1> QED
    BY <1>1, <1>2, TakeKeepsInv

(* Steps that offer nothing and leave the associations alone.               *)

LEMMA OfferedKept ==
  ASSUME Inv, UNCHANGED offered
  PROVE  IdsOK' /\ OwnIds' /\ AllOffered' = AllOffered
  <1>1. AllOffered' = AllOffered
    BY DEF AllOffered
  <1> QED
    BY <1>1 DEF Inv, IdsOK, OwnIds

LEMMA OfferedIds ==
  ASSUME Inv, NEW e \in Ends, NEW s \in StreamIds, NEW p \in Elements(offered[e][s])
  PROVE  /\ p \in AllOffered /\ p \in Payload /\ p # Nothing
         /\ Bound(e, s)
  <1>1. p \in AllOffered /\ p \in Payload
    BY OfferedIsAll, InSequence, Types DEF Inv
  <1>2. p.id \in 1 .. Cardinality(AllOffered) /\ Cardinality(AllOffered) \in Nat
    BY <1>1, FS_CardinalityType DEF Inv, IdsOK
  <1>3. p # Nothing
    BY <1>2 DEF Nothing
  <1>4. Bound(e, s)
    BY DEF Inv, BoundOK, Elements
  <1> QED
    BY <1>1, <1>3, <1>4

LEMMA RefusalsKept ==
  ASSUME Inv, UNCHANGED <<assoc, offered>>,
         \A x \in Ends, t \in StreamIds : Elements(delivered[x][t]) \subseteq Elements(delivered'[x][t]),
         \A x \in Ends : \A r \in refused'[x] : r \in refused[x] \/
           (Bound(x, r.stream) /\ r.payload \in AllOffered /\ Cause(x, r)')
  PROVE  RefusedKnown' /\ RefusedForCause'
  <1> SUFFICES ASSUME NEW x \in Ends, NEW r \in refused'[x]
               PROVE  Bound(x, r.stream)' /\ r.payload \in AllOffered' /\ Cause(x, r)'
    BY DEF RefusedKnown, RefusedForCause
  <1>1. AllOffered' = AllOffered /\ (Bound(x, r.stream)' <=> Bound(x, r.stream))
    BY OfferedKept, AssociationsKept
  <1>2. CASE r \in refused[x]
    <2>1. Bound(x, r.stream) /\ r.payload \in AllOffered /\ Cause(x, r) /\ r.stream \in StreamIds
      BY <1>2, EndTypes DEF Inv, RefusedKnown, RefusedForCause, Refusal
    <2>2. Cause(x, r)'
      BY <2>1, CauseKept
    <2> QED
      BY <1>1, <2>1, <2>2
  <1>3. CASE r \notin refused[x]
    BY <1>1, <1>3
  <1> QED
    BY <1>2, <1>3

\* What Refuse records.
LEMMA Refuses ==
  ASSUME TypeOK, NEW e \in Ends, NEW s \in StreamIds, NEW why \in Reasons, NEW p \in Payload,
         Refuse(e, s, why, p)
  PROVE  LET r == [stream |-> s, why |-> why, payload |-> p] IN
         /\ refused' \in [Ends -> SUBSET Refusal]
         /\ \A x \in Ends : refused[x] \subseteq refused'[x]
         /\ \A x \in Ends : \A q \in refused'[x] : q \in refused[x] \/ (x = e /\ p # Nothing /\ q = r)
         /\ p # Nothing => r \in refused'[e]
  <1> DEFINE r == [stream |-> s, why |-> why, payload |-> p]
  <1>1. r \in Refusal
    BY DEF Refusal
  <1>2. refused \in [Ends -> SUBSET Refusal]
    BY DEF TypeOK
  <1>3. IF p = Nothing THEN refused' = refused
        ELSE refused' = [refused EXCEPT ![e] = @ \cup {r}]
    BY DEF Refuse
  <1> HIDE DEF r
  <1>4. CASE p = Nothing
    BY <1>2, <1>3, <1>4 DEF r
  <1>5. CASE p # Nothing
    <2>1. /\ refused' \in [Ends -> SUBSET Refusal]
          /\ refused'[e] = refused[e] \cup {r}
          /\ \A x \in Ends \ {e} : refused'[x] = refused[x]
      BY <1>1, <1>2, <1>3, <1>5
    <2> QED
      BY <1>5, <2>1 DEF r
  <1> QED
    BY <1>4, <1>5

\* The caller parts with the oldest payload it holds.
LEMMA HandPops ==
  ASSUME Inv, NEW e \in Ends, NEW s \in StreamIds, hand[e][s] # <<>>,
         hand' = [hand EXCEPT ![e][s] = Tail(@)]
  PROVE  LET p == Head(hand[e][s]) IN
         /\ hand' \in PerRequest(Seq(Payload))
         /\ p \in Payload /\ p # Nothing /\ p \in Elements(offered[e][s]) /\ p \in Elements(hand[e][s])
         /\ Bound(e, s)
         /\ \A x \in Ends, t \in StreamIds :
              /\ Ascending(hand'[x][t]) /\ Elements(hand'[x][t]) \subseteq Elements(hand[x][t])
              /\ x # e \/ t # s => hand'[x][t] = hand[x][t]
         /\ \A q \in Elements(hand[e][s]) : q = p \/ q \in Elements(hand'[e][s])
         /\ \A q \in Elements(hand'[e][s]) : p.id < q.id
  <1> DEFINE p == Head(hand[e][s])
  <1>1. /\ hand[e][s] \in Seq(Payload) /\ Tail(hand[e][s]) \in Seq(Payload) /\ p \in Payload
        /\ Elements(hand[e][s]) = {p} \cup Elements(Tail(hand[e][s]))
    BY Types, HeadTail DEF Inv
  <1>2. /\ hand' \in PerRequest(Seq(Payload)) /\ hand'[e][s] = Tail(hand[e][s])
        /\ \A x \in Ends, t \in StreamIds : x # e \/ t # s => hand'[x][t] = hand[x][t]
    BY <1>1 DEF Inv, TypeOK, PerRequest
  <1>3. Ascending(Tail(hand[e][s])) /\ \A q \in Elements(Tail(hand[e][s])) : p.id < q.id
    BY <1>1, AscendingTail DEF Inv, InOrder
  <1>4. p \in Elements(offered[e][s])
    BY <1>1 DEF Inv, Placed
  <1>5. p # Nothing /\ Bound(e, s)
    BY <1>4, OfferedIds
  <1> HIDE DEF p
  <1>6. \A x \in Ends, t \in StreamIds :
          Ascending(hand'[x][t]) /\ Elements(hand'[x][t]) \subseteq Elements(hand[x][t])
    BY <1>1, <1>2, <1>3 DEF Inv, InOrder
  <1> QED
    BY <1>1, <1>2, <1>3, <1>4, <1>5, <1>6 DEF p

LEMMA EncodeFailsKeepsInv ==
  ASSUME Inv, NEW e \in Ends, NEW s \in StreamIds, NEW carrier \in Carriers,
         EncodeFails(e, s, carrier)
  PROVE  Inv'
  <1>p. PICK p : p = Head(hand[e][s])
    OBVIOUS
  <1>w. PICK why : why = Encoded(e, s, carrier, p)
    OBVIOUS
  <1> DEFINE r == [stream |-> s, why |-> why, payload |-> p]
  <1>1. /\ hand[e][s] # <<>> /\ why \in {"InvalidConfig", "PayloadTooLarge"}
        /\ Refuse(e, s, why, p) /\ hand' = [hand EXCEPT ![e][s] = Tail(@)]
        /\ UNCHANGED <<advertised, assoc, offered, frames, capsules, delivered, forwarded>>
    BY <1>p, <1>w DEF EncodeFails
  <1>2. /\ hand' \in PerRequest(Seq(Payload))
        /\ p \in Payload /\ p # Nothing /\ p \in Elements(offered[e][s]) /\ Bound(e, s)
        /\ \A x \in Ends, t \in StreamIds :
             /\ Ascending(hand'[x][t]) /\ Elements(hand'[x][t]) \subseteq Elements(hand[x][t])
             /\ x # e \/ t # s => hand'[x][t] = hand[x][t]
        /\ \A q \in Elements(hand[e][s]) : q = p \/ q \in Elements(hand'[e][s])
    BY <1>p, <1>1, HandPops
  <1>3. why = "InvalidConfig" \/ why = "PayloadTooLarge" => p.size > Limit(e, s)
    BY <1>w, <1>2, BoundTypes DEF Encoded, Inv, Payload
  <1>4. /\ refused' \in [Ends -> SUBSET Refusal]
        /\ \A x \in Ends : refused[x] \subseteq refused'[x]
        /\ \A x \in Ends : \A q \in refused'[x] : q \in refused[x] \/ (x = e /\ q = r)
        /\ r \in refused'[e]
    <2>1. why \in Reasons /\ TypeOK
      BY <1>1 DEF Inv, Reasons
    <2> QED
      BY <1>1, <1>2, <2>1, Refuses
  <1>5. r.stream = s /\ r.why = why /\ r.payload = p
    OBVIOUS
  <1> HIDE DEF r
  <1>6. Cause(e, r)'
    <2>1. Limit(e, s)' = Limit(e, s)
      BY <1>1, AssociationsKept
    <2> QED
      BY <1>1, <1>2, <1>3, <1>5, <2>1 DEF Cause, Elements
  <1>7. p \in AllOffered
    BY <1>2, OfferedIsAll
  <1>8. RefusedKnown' /\ RefusedForCause'
    <2>1. ASSUME NEW x \in Ends, NEW q \in refused'[x], q \notin refused[x]
          PROVE  Bound(x, q.stream) /\ q.payload \in AllOffered /\ Cause(x, q)'
      <3>1. x = e /\ q = r
        BY <1>4, <2>1
      <3> QED
        BY <1>2, <1>5, <1>6, <1>7, <3>1
    <2> QED
      BY <1>1, <2>1, RefusalsKept
  <1>9. TypeOK' /\ IdsOK' /\ OwnIds'
    BY <1>1, <1>2, <1>4, OfferedKept DEF Inv, TypeOK
  <1>10. BoundOK' /\ DeliveredFits'
    BY <1>1, BoundKept DEF Inv, DeliveredFits, Bound, Limit
  <1>11. Placed' /\ FramesPlaced' /\ FramesNew'
    <2>1. Placed'
      BY <1>1, <1>2, AssociationsKept DEF Inv, Placed
    <2>2. FramesPlaced'
      BY <1>1, <1>2, AssociationsKept DEF Inv, FramesPlaced
    <2>3. FramesNew'
      BY <1>1, <1>2, AssociationsKept DEF Inv, FramesNew
    <2> QED
      BY <2>1, <2>2, <2>3
  <1>12. InOrder'
    <2>1. InOrder
      BY DEF Inv
    <2>2. UNCHANGED <<frames, capsules, delivered>>
      BY <1>1
    <2>3. \A x \in Ends, t \in StreamIds : UsesCapsules(x, t)' <=> UsesCapsules(x, t)
      BY <1>1, AssociationsKept
    <2>4. \A x \in Ends, t \in StreamIds :
            Ascending(hand'[x][t]) /\ Elements(hand'[x][t]) \subseteq Elements(hand[x][t])
      BY <1>2
    <2> QED
      BY <2>1, <2>2, <2>3, <2>4 DEF InOrder
  <1>13. EveryCapsuleAccounted'
    <2> SUFFICES ASSUME NEW x \in Ends, NEW t \in StreamIds, UsesCapsules(x, t),
                        NEW q \in Elements(offered[x][t])
                 PROVE  \/ q \in Elements(hand'[x][t])
                        \/ q \in {c.payload : c \in {d \in Elements(capsules[Peer(x)][t]) : FitsParser(d)}}
                        \/ q \in Elements(delivered[Peer(x)][t])
                        \/ \E f \in Ends : q \in {y.payload : y \in refused'[f]}
      BY <1>1, AssociationsKept DEF EveryCapsuleAccounted
    <2>1. CASE q \in Elements(hand[x][t])
      <3>1. q \in Elements(hand'[x][t]) \/ q = p
        BY <1>2, <2>1
      <3> QED
        BY <1>4, <1>5, <3>1
    <2>2. CASE q \notin Elements(hand[x][t])
      BY <1>4, <2>2 DEF Inv, EveryCapsuleAccounted
    <2> QED
      BY <2>1, <2>2
  <1> QED
    BY <1>8, <1>9, <1>10, <1>11, <1>12, <1>13 DEF Inv

LEMMA EncodeH3KeepsInv ==
  ASSUME Inv, NEW e \in Ends, NEW s \in StreamIds, EncodeH3(e, s)
  PROVE  Inv'
  <1> DEFINE p == Head(hand[e][s])
             f == encode_h3(s, p)
  <1>1. /\ hand[e][s] # <<>> /\ Encoded(e, s, "H3Datagram", p) = "Ok"
        /\ hand' = [hand EXCEPT ![e][s] = Tail(@)]
        /\ frames' = [frames EXCEPT ![Peer(e)] = @ \cup {f}]
        /\ UNCHANGED <<advertised, assoc, offered, capsules, delivered, forwarded, refused>>
    BY DEF EncodeH3
  <1>2. /\ hand' \in PerRequest(Seq(Payload))
        /\ p \in Payload /\ p \in Elements(offered[e][s]) /\ p \in Elements(hand[e][s])
        /\ Bound(e, s)
        /\ \A x \in Ends, t \in StreamIds :
             /\ Ascending(hand'[x][t]) /\ Elements(hand'[x][t]) \subseteq Elements(hand[x][t])
             /\ x # e \/ t # s => hand'[x][t] = hand[x][t]
        /\ \A q \in Elements(hand'[e][s]) : p.id < q.id
    BY <1>1, HandPops
  <1>3. Enabled(e, s, "H3Datagram")
    BY <1>1 DEF Encoded
  <1> HIDE DEF p
  <1>4. f \in Frame /\ f.payload = p /\ FrameStream(f) = s
    <2>1. s \in Nat /\ s % 4 = 0
      BY <1>2, TunnelAssumption DEF Inv, BoundOK, ValidStreamId
    <2>2. s \div 4 \in Nat /\ (s \div 4) * 4 = s
      BY <2>1
    <2> QED
      BY <1>2, <2>2 DEF encode_h3, Frame, FrameStream
  <1> HIDE DEF f
  <1>5. /\ frames' \in [Ends -> SUBSET Frame]
        /\ frames'[Peer(e)] = frames[Peer(e)] \cup {f}
        /\ \A x \in Ends : x # Peer(e) => frames'[x] = frames[x]
    BY <1>1, <1>4, PeerFacts DEF Inv, TypeOK
  <1>6. TypeOK' /\ IdsOK' /\ OwnIds'
    BY <1>1, <1>2, <1>5, OfferedKept DEF Inv, TypeOK
  <1>7. BoundOK' /\ DeliveredFits'
    BY <1>1, BoundKept DEF Inv, DeliveredFits, Bound, Limit
  <1>8. Placed' /\ FramesPlaced'
    <2>1. Placed'
      BY <1>1, <1>2, AssociationsKept DEF Inv, Placed
    <2> SUFFICES ASSUME NEW x \in Ends, NEW g \in frames'[Peer(x)]
                 PROVE  /\ FrameStream(g) \in StreamIds
                        /\ g.payload \in Elements(offered[x][FrameStream(g)])
                        /\ Bound(x, FrameStream(g)) /\ Enabled(x, FrameStream(g), "H3Datagram")
      BY <1>1, <2>1, AssociationsKept DEF FramesPlaced
    <2>2. CASE g \in frames[Peer(x)]
      BY <2>2 DEF Inv, FramesPlaced
    <2>3. CASE g \notin frames[Peer(x)]
      <3>1. g = f /\ x = e
        BY <1>5, <2>3, PeerFacts
      <3> QED
        BY <1>2, <1>3, <1>4, <3>1
    <2> QED
      BY <2>2, <2>3
  <1>9. FramesNew'
    <2>1. \A q \in Elements(delivered[Peer(e)][s]) : q.id < p.id /\ q.id \in Nat
      <3>1. delivered[Peer(e)][s] \in Seq(Payload)
        BY Types, PeerFacts DEF Inv
      <3>2. Elements(delivered[Peer(e)][s]) \subseteq Payload
        BY <3>1, InSequence
      <3> QED
        BY <1>2, <3>2 DEF Inv, InOrder, Payload
    <2> QED
      BY <1>1, <1>4, <1>5, <2>1, PeerFacts DEF Inv, FramesNew
  <1>10. InOrder'
    <2> SUFFICES ASSUME NEW x \in Ends, NEW t \in StreamIds, NEW q \in Elements(hand'[x][t]),
                        NEW g \in frames'[Peer(x)], FrameStream(g) = t
                 PROVE  g.payload.id < q.id
      <3>1. InOrder
        BY DEF Inv
      <3>2. UNCHANGED <<capsules, delivered>>
        BY <1>1
      <3>3. \A x \in Ends, t \in StreamIds : UsesCapsules(x, t)' <=> UsesCapsules(x, t)
        BY <1>1, AssociationsKept
      <3>4. \A x \in Ends, t \in StreamIds :
              Ascending(hand'[x][t]) /\ Elements(hand'[x][t]) \subseteq Elements(hand[x][t])
        BY <1>2
      <3> QED
        BY <3>1, <3>2, <3>3, <3>4 DEF InOrder
    <2>1. CASE g \in frames[Peer(x)]
      BY <1>2, <2>1 DEF Inv, InOrder
    <2>2. CASE g \notin frames[Peer(x)]
      <3>1. g = f /\ Peer(x) = Peer(e)
        BY <1>5, <2>2, PeerFacts
      <3>2. x = e /\ t = s
        BY <1>4, <3>1, PeerFacts
      <3> QED
        BY <1>2, <1>4, <3>1, <3>2
    <2> QED
      BY <2>1, <2>2
  <1>11. RefusedKnown' /\ RefusedForCause'
    BY <1>1, RefusalsKept, CauseKept, EndTypes, AssociationsKept
       DEF Inv, RefusedKnown, RefusedForCause
  <1>12. EveryCapsuleAccounted'
    <2>1. ~UsesCapsules(e, s)
      BY <1>3 DEF UsesCapsules, Enabled, is_datagram_capsule_enabled
    <2> QED
      BY SMTT(60), <1>1, <1>2, <2>1, AssociationsKept DEF Inv, EveryCapsuleAccounted
  <1> QED
    BY <1>6, <1>7, <1>8, <1>9, <1>10, <1>11, <1>12 DEF Inv

LEMMA EncodeCapsuleKeepsInv ==
  ASSUME Inv, NEW e \in Ends, NEW s \in StreamIds, EncodeCapsule(e, s)
  PROVE  Inv'
  <1>p. PICK p : p = Head(hand[e][s])
    OBVIOUS
  <1> DEFINE c == [context |-> "zero", payload |-> p]
             d == Peer(e)
  <1>1. /\ hand[e][s] # <<>> /\ Encoded(e, s, "DatagramCapsule", p) = "Ok"
        /\ hand' = [hand EXCEPT ![e][s] = Tail(@)]
        /\ capsules' = [capsules EXCEPT ![d][s] = Append(@, c)]
        /\ UNCHANGED <<advertised, assoc, offered, frames, delivered, forwarded, refused>>
    BY <1>p DEF EncodeCapsule
  <1>2. /\ hand' \in PerRequest(Seq(Payload))
        /\ p \in Payload /\ p \in Elements(offered[e][s]) /\ p \in Elements(hand[e][s])
        /\ Bound(e, s)
        /\ \A x \in Ends, t \in StreamIds :
             /\ Ascending(hand'[x][t]) /\ Elements(hand'[x][t]) \subseteq Elements(hand[x][t])
             /\ x # e \/ t # s => hand'[x][t] = hand[x][t]
        /\ \A q \in Elements(hand[e][s]) : q = p \/ q \in Elements(hand'[e][s])
        /\ \A q \in Elements(hand'[e][s]) : p.id < q.id
    BY <1>p, <1>1, HandPops
  <1>3. Enabled(e, s, "DatagramCapsule") /\ p.size <= Limit(e, s)
    BY <1>1 DEF Encoded
  <1>4. FitsParser(c)
    BY <1>2, <1>3, BoundTypes DEF FitsParser, DEFAULT_MAX_CAPSULE_LENGTH, Inv, Payload
  <1>5. c \in Capsule /\ c.payload = p
    BY <1>2 DEF Capsule
  <1>6. d \in Ends /\ \A x \in Ends : Peer(x) = d <=> x = e
    BY PeerFacts
  <1> HIDE DEF c, d
  <1>7. /\ capsules[d][s] \in Seq(Capsule) /\ Append(capsules[d][s], c) \in Seq(Capsule)
        /\ Elements(Append(capsules[d][s], c)) = Elements(capsules[d][s]) \cup {c}
    BY <1>5, <1>6, Types, AppendTo DEF Inv
  <1>8. /\ capsules' \in PerRequest(Seq(Capsule)) /\ capsules'[d][s] = Append(capsules[d][s], c)
        /\ \A x \in Ends, t \in StreamIds : x # d \/ t # s => capsules'[x][t] = capsules[x][t]
    BY <1>1, <1>6, <1>7 DEF Inv, TypeOK, PerRequest
  <1>9. /\ \A x \in Ends, t \in StreamIds : Elements(capsules[x][t]) \subseteq Elements(capsules'[x][t])
        /\ \A x \in Ends, t \in StreamIds : \A b \in Elements(capsules'[Peer(x)][t]) :
             b \in Elements(capsules[Peer(x)][t]) \/ (x = e /\ t = s /\ b = c)
        /\ c \in Elements(capsules'[d][s])
    BY <1>6, <1>7, <1>8, PeerFacts
  <1>10. TypeOK' /\ IdsOK' /\ OwnIds'
    BY <1>1, <1>2, <1>8, OfferedKept DEF Inv, TypeOK
  <1>11. BoundOK' /\ DeliveredFits'
    BY <1>1, BoundKept DEF Inv, DeliveredFits, Bound, Limit
  <1>12. Placed'
    <2> SUFFICES ASSUME NEW x \in Ends, NEW t \in StreamIds
                 PROVE  /\ \A b \in Elements(capsules'[Peer(x)][t]) : b.payload \in Elements(offered[x][t])
                        /\ capsules'[Peer(x)][t] # <<>> => Bound(x, t) /\ Enabled(x, t, "DatagramCapsule")
      BY <1>1, <1>2, AssociationsKept DEF Inv, Placed
    <2>1. CASE x = e /\ t = s
      BY <1>2, <1>3, <1>5, <1>9, <2>1 DEF Inv, Placed
    <2>2. CASE x # e \/ t # s
      BY <1>6, <1>8, <2>2, PeerFacts DEF Inv, Placed
    <2> QED
      BY <2>1, <2>2
  <1>13. FramesPlaced' /\ FramesNew'
    BY <1>1, AssociationsKept DEF Inv, FramesPlaced, FramesNew
  <1>14. AscendingCapsules(capsules'[d][s])
    <2>1. \A b \in Elements(capsules[d][s]) : b.payload.id < p.id
      BY <1>2 DEF Inv, InOrder, d
    <2>2. AscendingCapsules(capsules[d][s])
      BY DEF Inv, InOrder, d
    <2> QED
      BY <1>5, <1>7, <1>8, <2>1, <2>2, AscendingCapsulesAppend
  <1>15. InOrder'
    <2>1. ASSUME NEW x \in Ends, NEW t \in StreamIds
          PROVE  /\ AscendingCapsules(capsules'[Peer(x)][t])
                 /\ \A q \in Elements(hand'[x][t]) :
                      \A b \in Elements(capsules'[Peer(x)][t]) : b.payload.id < q.id
                 /\ \A b \in Elements(capsules'[Peer(x)][t]) :
                      \A q \in Elements(delivered[Peer(x)][t]) : q.id < b.payload.id
      <3>1. CASE x = e /\ t = s
        <4>1. /\ \A b \in Elements(capsules[d][s]) :
                    /\ \A q \in Elements(hand'[e][s]) : b.payload.id < q.id
                    /\ \A q \in Elements(delivered[d][s]) : q.id < b.payload.id
              /\ \A q \in Elements(delivered[d][s]) : q.id < p.id
          BY <1>2 DEF Inv, InOrder, d
        <4>2. \A b \in Elements(capsules'[d][s]) : b \in Elements(capsules[d][s]) \/ b = c
          BY <1>7, <1>8
        <4> QED
          BY <1>2, <1>5, <1>14, <3>1, <4>1, <4>2 DEF d
      <3>2. CASE x # e \/ t # s
        <4>1. capsules'[Peer(x)][t] = capsules[Peer(x)][t]
          BY <1>6, <1>8, <3>2, PeerFacts
        <4> QED
          BY <1>2, <4>1 DEF Inv, InOrder
      <3> QED
        BY <3>1, <3>2
    <2>2. \A x \in Ends, t \in StreamIds : \A q \in Elements(hand'[x][t]) :
            /\ \A r \in Elements(delivered[Peer(x)][t]) : r.id < q.id
            /\ \A f \in frames[Peer(x)] : FrameStream(f) = t => f.payload.id < q.id
      BY <1>2 DEF Inv, InOrder
    <2>3. \A x \in Ends, t \in StreamIds :
            /\ Ascending(hand'[x][t])
            /\ UsesCapsules(x, t) => Ascending(delivered[Peer(x)][t])
      BY <1>2 DEF Inv, InOrder
    <2>4. /\ delivered' = delivered /\ frames' = frames
          /\ \A x \in Ends, t \in StreamIds : UsesCapsules(x, t)' <=> UsesCapsules(x, t)
      BY <1>1, AssociationsKept
    <2> QED
      BY <2>1, <2>2, <2>3, <2>4 DEF InOrder
  <1>16. RefusedKnown' /\ RefusedForCause'
    BY <1>1, RefusalsKept
  <1>17. EveryCapsuleAccounted'
    <2> SUFFICES ASSUME NEW x \in Ends, NEW t \in StreamIds, UsesCapsules(x, t),
                        NEW q \in Elements(offered[x][t])
                 PROVE  \/ q \in Elements(hand'[x][t])
                        \/ q \in {b.payload : b \in {a \in Elements(capsules'[Peer(x)][t]) : FitsParser(a)}}
                        \/ q \in Elements(delivered[Peer(x)][t])
                        \/ \E f \in Ends : q \in {y.payload : y \in refused[f]}
      BY <1>1, AssociationsKept DEF EveryCapsuleAccounted
    <2>1. CASE q \in Elements(hand[x][t])
      <3>1. q \in Elements(hand'[x][t]) \/ (q = p /\ x = e /\ t = s)
        BY <1>2, <2>1
      <3> QED
        BY <1>4, <1>5, <1>9, <3>1 DEF d
    <2>2. CASE q \notin Elements(hand[x][t])
      BY SMTT(60), <1>9, <2>2, PeerFacts DEF Inv, EveryCapsuleAccounted
    <2> QED
      BY <2>1, <2>2
  <1> QED
    BY <1>10, <1>11, <1>12, <1>13, <1>15, <1>16, <1>17 DEF Inv

LEMMA LoseFrameKeepsInv ==
  ASSUME Inv, NEW e \in Ends, NEW f, LoseFrame(e, f)
  PROVE  Inv'
  <1>1. /\ frames' = [frames EXCEPT ![e] = @ \ {f}]
        /\ UNCHANGED <<advertised, assoc, offered, hand, capsules, delivered, forwarded, refused>>
    BY DEF LoseFrame
  <1>2. /\ frames' \in [Ends -> SUBSET Frame]
        /\ \A x \in Ends : frames'[x] \subseteq frames[x]
    BY <1>1 DEF Inv, TypeOK
  <1>3. TypeOK' /\ IdsOK' /\ OwnIds'
    BY <1>1, <1>2, OfferedKept DEF Inv, TypeOK
  <1>4. BoundOK' /\ DeliveredFits'
    BY <1>1, BoundKept DEF Inv, DeliveredFits, Bound, Limit
  <1>5. Placed' /\ FramesPlaced' /\ FramesNew'
    <2>1. Placed'
      BY <1>1, <1>2, PeerFacts, AssociationsKept DEF Inv, Placed
    <2>2. FramesPlaced'
      BY <1>1, <1>2, PeerFacts, AssociationsKept DEF Inv, FramesPlaced
    <2>3. FramesNew'
      BY <1>1, <1>2, PeerFacts, AssociationsKept DEF Inv, FramesNew
    <2> QED
      BY <2>1, <2>2, <2>3
  <1>6. InOrder'
    <2>1. \A x \in Ends : \A g \in frames'[Peer(x)] : g \in frames[Peer(x)]
      BY <1>2, PeerFacts
    <2> QED
      BY <1>1, <2>1, AssociationsKept DEF Inv, InOrder
  <1>7. RefusedKnown' /\ RefusedForCause'
    BY <1>1, RefusalsKept
  <1>8. EveryCapsuleAccounted'
    BY <1>1, AssociationsKept DEF Inv, EveryCapsuleAccounted
  <1> QED
    BY <1>3, <1>4, <1>5, <1>6, <1>7, <1>8 DEF Inv

(* Decoding.                                                                *)

\* An end that has recorded everything enables the carrier that its peer uses.
LEMMA CarriersAgree ==
  ASSUME Inv, NEW e \in Ends, NEW s \in StreamIds, NEW t \in StreamIds, NEW carrier \in Carriers,
         Bound(e, s), Bound(Peer(e), t), Enabled(Peer(e), t, carrier), ~Enabled(e, s, carrier)
  PROVE  None \in {assoc[e][s].session[c] : c \in DOMAIN assoc[e][s].session}
  <1> DEFINE mine == assoc[e][s].session
             its == assoc[Peer(e)][t].session
             a == advertised[e]
             b == advertised[Peer(e)]
  <1>1. /\ mine.local_h3_datagram \in {None, a.setting}
        /\ mine.peer_h3_datagram \in {None, b.setting}
        /\ mine.local_capsule_protocol \in {None, a.field}
        /\ mine.peer_capsule_protocol \in {None, b.field}
    BY DEF Inv, BoundOK, Learned
  <1>2. /\ its.local_h3_datagram \in {None, b.setting}
        /\ its.peer_h3_datagram \in {None, a.setting}
        /\ its.local_capsule_protocol \in {None, b.field}
        /\ its.peer_capsule_protocol \in {None, a.field}
    BY PeerFacts DEF Inv, BoundOK, Learned
  <1>3. DOMAIN mine = {"protocol", "local_h3_datagram", "peer_h3_datagram",
                       "local_capsule_protocol", "peer_capsule_protocol"}
    BY BoundTypes DEF Inv, Association
  <1>4. None \notin Settings /\ a.setting # None /\ b.setting # None
    BY PeerFacts, TunnelAssumption DEF Inv, TypeOK, H3DatagramValues, None
  <1>5. CASE carrier = "H3Datagram"
    <2>1. is_h3_datagram_enabled(its) /\ ~is_h3_datagram_enabled(mine)
      BY <1>5 DEF Enabled
    <2>2. a.setting = "enabled" /\ b.setting = "enabled"
      BY <1>2, <2>1 DEF is_h3_datagram_enabled, None
    <2>3. mine.local_h3_datagram = None \/ mine.peer_h3_datagram = None
      BY <1>1, <2>1, <2>2 DEF is_h3_datagram_enabled
    <2> QED
      BY <1>3, <2>3
  <1>6. CASE carrier # "H3Datagram"
    <2>1. is_datagram_capsule_enabled(its) /\ ~is_datagram_capsule_enabled(mine)
      BY <1>6 DEF Enabled
    <2>2. /\ a.field = "on" /\ b.field = "on"
          /\ ~(a.setting = "enabled" /\ b.setting = "enabled")
      BY <1>2, <2>1 DEF is_datagram_capsule_enabled, is_h3_datagram_enabled, h3_finalized, None
    <2>3. \/ mine.local_h3_datagram = None \/ mine.peer_h3_datagram = None
          \/ mine.local_capsule_protocol = None \/ mine.peer_capsule_protocol = None
      BY <1>1, <1>4, <2>1, <2>2
         DEF is_datagram_capsule_enabled, is_h3_datagram_enabled, h3_finalized
    <2> QED
      BY <1>3, <2>3
  <1> QED
    BY <1>5, <1>6

\* A payload that decode refuses went to the wrong association, or does not fit
\* its family, or came before everything was recorded.
LEMMA DecodeRefuses ==
  ASSUME Inv, NEW e \in Ends, NEW s \in StreamIds, NEW t \in StreamIds, NEW carrier \in Carriers,
         NEW p \in Elements(offered[Peer(e)][t]), NEW why,
         Bound(e, s), Enabled(Peer(e), t, carrier),
         why = Decoded(e, s, carrier, t, "zero", p), why # "Ok", Refuse(e, s, why, p),
         UNCHANGED <<assoc, offered, delivered>>
  PROVE  /\ refused' \in [Ends -> SUBSET Refusal]
         /\ \A x \in Ends : refused[x] \subseteq refused'[x]
         /\ p \in {r.payload : r \in refused'[e]}
         /\ RefusedKnown' /\ RefusedForCause'
  <1> DEFINE r == [stream |-> s, why |-> why, payload |-> p]
  <1>1. /\ p \in AllOffered /\ p \in Payload /\ p # Nothing /\ Bound(Peer(e), t)
    BY PeerFacts, OfferedIds
  <1>2. \/ why = "NotNegotiated" /\ ~Enabled(e, s, carrier)
        \/ why = "MismatchedStreamId" /\ t # s
        \/ why = "PayloadTooLarge" /\ p.size > Limit(e, s)
    BY DEF Decoded
  <1>3. why \in Reasons
    BY <1>2 DEF Reasons
  <1>4. /\ refused' \in [Ends -> SUBSET Refusal]
        /\ \A x \in Ends : refused[x] \subseteq refused'[x]
        /\ \A x \in Ends : \A q \in refused'[x] : q \in refused[x] \/ (x = e /\ q = r)
        /\ r \in refused'[e]
    BY <1>1, <1>3, Refuses DEF Inv
  <1>5. r.stream = s /\ r.why = why /\ r.payload = p
    OBVIOUS
  <1> HIDE DEF r
  <1>6. Cause(e, r)'
    <2>1. CASE why = "NotNegotiated" /\ ~Enabled(e, s, carrier)
      <3>1. None \in {assoc[e][s].session[c] : c \in DOMAIN assoc[e][s].session}
        BY <1>1, <2>1, CarriersAgree
      <3> QED
        BY <1>5, <2>1, <3>1 DEF Cause
    <2>2. CASE why = "MismatchedStreamId" /\ t # s
      <3>1. p \notin Elements(offered[Peer(e)][s])
        BY <2>2, PeerFacts DEF Inv, OwnIds
      <3> QED
        BY <1>5, <2>2, <3>1 DEF Cause
    <2>3. CASE why = "PayloadTooLarge" /\ p.size > Limit(e, s)
      <3>1. Limit(e, s)' = Limit(e, s)
        BY AssociationsKept
      <3> QED
        BY <1>5, <2>3, <3>1 DEF Cause
    <2> QED
      BY <1>2, <2>1, <2>2, <2>3
  <1>7. RefusedKnown' /\ RefusedForCause'
    <2>1. ASSUME NEW x \in Ends, NEW q \in refused'[x], q \notin refused[x]
          PROVE  Bound(x, q.stream) /\ q.payload \in AllOffered /\ Cause(x, q)'
      <3>1. x = e /\ q = r
        BY <1>4, <2>1
      <3> QED
        BY <1>1, <1>5, <1>6, <3>1
    <2> QED
      BY <2>1, RefusalsKept
  <1> QED
    BY <1>4, <1>5, <1>7

\* What the next payload out of an association does to the table of all.
Puts(e, s, p) == delivered' = [delivered EXCEPT ![e][s] = Append(@, p)]

LEMMA Delivers ==
  ASSUME Inv, NEW e \in Ends, NEW s \in StreamIds, NEW p \in Elements(offered[Peer(e)][s]),
         Puts(e, s, p)
  PROVE  /\ delivered' \in PerRequest(Seq(Payload))
         /\ delivered'[e][s] = Append(delivered[e][s], p)
         /\ \A x \in Ends, t \in StreamIds :
              /\ x # e \/ t # s => delivered'[x][t] = delivered[x][t]
              /\ Elements(delivered[x][t]) \subseteq Elements(delivered'[x][t])
         /\ Elements(delivered'[e][s]) = Elements(delivered[e][s]) \cup {p}
  <1>1. p \in Payload
    BY PeerFacts, OfferedIds
  <1>2. /\ delivered[e][s] \in Seq(Payload) /\ Append(delivered[e][s], p) \in Seq(Payload)
        /\ Elements(Append(delivered[e][s], p)) = Elements(delivered[e][s]) \cup {p}
    BY <1>1, Types, AppendTo DEF Inv
  <1>3. /\ delivered' \in PerRequest(Seq(Payload)) /\ delivered'[e][s] = Append(delivered[e][s], p)
        /\ \A x \in Ends, t \in StreamIds : x # e \/ t # s => delivered'[x][t] = delivered[x][t]
    BY <1>2 DEF Inv, TypeOK, PerRequest, Puts
  <1> QED
    BY <1>2, <1>3

\* A payload comes out of the association of its request for the first time.
FirstDelivery(e, s) ==
  \E p \in Elements(offered[Peer(e)][s]) \ Elements(delivered[e][s]) : Puts(e, s, p)

\* A frame leaves the network and is refused: it was of no use to anyone.
LEMMA FrameRefused ==
  ASSUME Inv, NEW e \in Ends, NEW s \in StreamIds, NEW f \in frames[e], NEW why,
         Bound(e, s), why = Decoded(e, s, "H3Datagram", FrameStream(f), f.context, f.payload),
         why # "Ok", Refuse(e, s, why, f.payload),
         frames' = [frames EXCEPT ![e] = @ \ {f}],
         UNCHANGED <<advertised, assoc, offered, hand, capsules, delivered, forwarded>>
  PROVE  Inv'
  <1> DEFINE t == FrameStream(f)
  <1>1. f \in frames[Peer(Peer(e))] /\ f \in Frame
    BY PeerFacts, EndTypes DEF Inv
  <1>2. /\ t \in StreamIds /\ f.payload \in Elements(offered[Peer(e)][t])
        /\ Enabled(Peer(e), t, "H3Datagram") /\ f.context = "zero"
    BY <1>1, PeerFacts DEF Inv, FramesPlaced, Frame
  <1>3. "H3Datagram" \in Carriers
    BY DEF Carriers
  <1> HIDE DEF t
  <1>4. why = Decoded(e, s, "H3Datagram", t, "zero", f.payload)
    BY <1>2 DEF t
  <1>5. /\ refused' \in [Ends -> SUBSET Refusal]
        /\ \A x \in Ends : refused[x] \subseteq refused'[x]
        /\ RefusedKnown' /\ RefusedForCause'
    BY <1>2, <1>3, <1>4, DecodeRefuses
  <1>6. /\ frames' \in [Ends -> SUBSET Frame]
        /\ \A x \in Ends : frames'[Peer(x)] \subseteq frames[Peer(x)]
    BY PeerFacts DEF Inv, TypeOK
  <1>7. TypeOK' /\ IdsOK' /\ OwnIds'
    BY <1>5, <1>6, OfferedKept DEF Inv, TypeOK
  <1>8. BoundOK' /\ DeliveredFits'
    BY BoundKept DEF Inv, DeliveredFits, Bound, Limit
  <1>9. Placed' /\ FramesPlaced' /\ FramesNew'
    <2>1. Placed'
      BY <1>6, AssociationsKept DEF Inv, Placed
    <2>2. FramesPlaced'
      BY <1>6, AssociationsKept DEF Inv, FramesPlaced
    <2>3. FramesNew'
      BY <1>6, AssociationsKept DEF Inv, FramesNew
    <2> QED
      BY <2>1, <2>2, <2>3
  <1>10. InOrder'
    BY <1>6, AssociationsKept DEF Inv, InOrder
  <1>11. EveryCapsuleAccounted'
    BY SMTT(60), <1>5, AssociationsKept DEF Inv, EveryCapsuleAccounted
  <1> QED
    BY <1>5, <1>7, <1>8, <1>9, <1>10, <1>11 DEF Inv

\* A frame is decoded by the association of its own request, and never again.
LEMMA FrameDelivered ==
  ASSUME Inv, NEW e \in Ends, NEW s \in StreamIds, NEW f \in frames[e],
         Bound(e, s), "Ok" = Decoded(e, s, "H3Datagram", FrameStream(f), f.context, f.payload),
         Puts(e, s, f.payload),
         frames' = [frames EXCEPT ![e] = @ \ {f}],
         UNCHANGED <<advertised, assoc, offered, hand, capsules, forwarded, refused>>
  PROVE  Inv' /\ FirstDelivery(e, s)
  <1>p. PICK p : p = f.payload
    OBVIOUS
  <1>d. PICK d \in Ends : d = Peer(e) /\ Peer(d) = e /\ \A x \in Ends : x # d => Peer(x) # e
    BY PeerFacts
  <1>1. FrameStream(f) = s /\ p.size <= Limit(e, s)
    <2>1. p.size <= Limit(e, s) \/ p.size > Limit(e, s)
      <3>1. f \in Frame /\ assoc[e][s] \in Association
        BY EndTypes, BoundTypes DEF Inv
      <3> QED
        BY <1>p, <3>1 DEF Frame, Payload, Limit, max_payload_for_addr,
           MAX_UDP_PAYLOAD_IPV4, MAX_UDP_PAYLOAD_IPV6
    <2>2. ~(f.payload.size > Limit(e, s)) /\ FrameStream(f) = s
      <3> PICK size : size = f.payload.size
        OBVIOUS
      <3> PICK t : t = FrameStream(f)
        OBVIOUS
      <3> QED
        BY DEF Decoded
    <2> QED
      BY <1>p, <2>1, <2>2
  <1>2. /\ f \in Frame /\ p \in Payload /\ p \in Elements(offered[d][s])
        /\ Bound(d, s) /\ Enabled(d, s, "H3Datagram")
    BY <1>p, <1>d, <1>1, EndTypes DEF Inv, FramesPlaced, Frame
  <1>3. /\ delivered' \in PerRequest(Seq(Payload))
        /\ \A x \in Ends, t \in StreamIds :
             /\ x # e \/ t # s => delivered'[x][t] = delivered[x][t]
             /\ Elements(delivered[x][t]) \subseteq Elements(delivered'[x][t])
        /\ Elements(delivered'[e][s]) = Elements(delivered[e][s]) \cup {p}
    <2>1. /\ p \in Elements(offered[Peer(e)][s])
          /\ Puts(e, s, p)
      BY <1>p, <1>d, <1>2
    <2>2. delivered' \in PerRequest(Seq(Payload))
      BY <2>1, Delivers
    <2>3. Elements(delivered'[e][s]) = Elements(delivered[e][s]) \cup {p}
      BY SMTT(60), <2>1, Delivers
    <2>4. ASSUME NEW x \in Ends, NEW t \in StreamIds
          PROVE  /\ x # e \/ t # s => delivered'[x][t] = delivered[x][t]
                 /\ Elements(delivered[x][t]) \subseteq Elements(delivered'[x][t])
      BY <2>1, Delivers
    <2> QED
      BY <2>2, <2>3, <2>4
  <1>4. /\ frames' \in [Ends -> SUBSET Frame]
        /\ \A x \in Ends : frames'[Peer(x)] \subseteq frames[Peer(x)]
        /\ f \notin frames'[e]
    BY PeerFacts DEF Inv, TypeOK
  <1>5. ~Enabled(d, s, "DatagramCapsule") /\ ~UsesCapsules(d, s) /\ Elements(capsules[e][s]) = {}
    <2>1. ~Enabled(d, s, "DatagramCapsule")
      BY <1>2 DEF Enabled, is_datagram_capsule_enabled
    <2>2. capsules[e][s] = <<>>
      BY <1>d, <2>1 DEF Inv, Placed
    <2> QED
      BY <2>1, <2>2 DEF UsesCapsules, Elements
  <1>6. p \notin Elements(delivered[e][s])
    BY <1>p, <1>d, <1>1 DEF Inv, FramesNew
  <1>7. FirstDelivery(e, s)
    BY <1>p, <1>d, <1>2, <1>6 DEF FirstDelivery
  <1>8. TypeOK' /\ IdsOK' /\ OwnIds'
    BY <1>3, <1>4, OfferedKept DEF Inv, TypeOK
  <1>9. BoundOK'
    BY <1>3, BoundKept DEF Inv, Bound
  <1>10. Placed'
    <2>1. ASSUME NEW x \in Ends, NEW t \in StreamIds
          PROVE  Elements(delivered'[Peer(x)][t]) \subseteq Elements(offered[x][t])
      <3>1. Elements(delivered[Peer(x)][t]) \subseteq Elements(offered[x][t])
        BY DEF Inv, Placed
      <3>2. CASE x = d /\ t = s
        BY <1>d, <1>2, <1>3, <3>1, <3>2
      <3>3. CASE x # d \/ t # s
        <4>1. delivered'[Peer(x)][t] = delivered[Peer(x)][t]
          BY <1>d, <1>3, <3>3, PeerFacts
        <4> QED
          BY <3>1, <4>1
      <3> QED
        BY <3>2, <3>3
    <2> QED
      BY <2>1, AssociationsKept DEF Inv, Placed
  <1>11. FramesPlaced'
    BY <1>4, AssociationsKept DEF Inv, FramesPlaced
  <1>12. FramesNew'
    <2> SUFFICES ASSUME NEW x \in Ends, NEW g \in frames'[Peer(x)],
                        NEW q \in Elements(delivered'[Peer(x)][FrameStream(g)])
                 PROVE  q.id # g.payload.id
      BY DEF FramesNew
    <2>1. /\ g \in frames[Peer(x)] /\ g \in Frame /\ FrameStream(g) \in StreamIds
          /\ g.payload \in Elements(offered[x][FrameStream(g)])
      BY <1>4, PeerFacts, EndTypes DEF Inv, FramesPlaced
    <2>2. CASE q \in Elements(delivered[Peer(x)][FrameStream(g)])
      BY <2>1, <2>2 DEF Inv, FramesNew
    <2>3. CASE q \notin Elements(delivered[Peer(x)][FrameStream(g)])
      <3>1. Peer(x) = e /\ FrameStream(g) = s /\ q = p
        BY <1>3, <2>1, <2>3, PeerFacts
      <3>2. x = d /\ g # f
        BY <1>d, <1>4, <3>1
      <3>3. g.quarter = f.quarter
        BY <1>1, <1>2, <2>1, <3>1 DEF FrameStream, Frame
      <3>4. g.payload # p
        BY <1>p, <1>2, <2>1, <3>2, <3>3 DEF Frame
      <3> QED
        BY <1>2, <2>1, <3>1, <3>2, <3>4 DEF Inv, OwnIds
    <2> QED
      BY <2>2, <2>3
  <1>13. InOrder'
    <2>1. \A x \in Ends, t \in StreamIds : \A q \in Elements(hand[x][t]) :
            \A r \in Elements(delivered'[Peer(x)][t]) : r.id < q.id
      <3> SUFFICES ASSUME NEW x \in Ends, NEW t \in StreamIds, NEW q \in Elements(hand[x][t]),
                          NEW r \in Elements(delivered'[Peer(x)][t])
                   PROVE  r.id < q.id
        OBVIOUS
      <3>1. CASE r \in Elements(delivered[Peer(x)][t])
        BY <3>1 DEF Inv, InOrder
      <3>2. CASE r \notin Elements(delivered[Peer(x)][t])
        <4>1. Peer(x) = e /\ t = s /\ r = p /\ x = d
          BY <1>d, <1>3, <3>2, PeerFacts
        <4> QED
          BY <1>p, <1>1, <4>1 DEF Inv, InOrder
      <3> QED
        BY <3>1, <3>2
    <2>2. \A x \in Ends, t \in StreamIds : \A c \in Elements(capsules[Peer(x)][t]) :
            \A q \in Elements(delivered'[Peer(x)][t]) : q.id < c.payload.id
      <3> SUFFICES ASSUME NEW x \in Ends, NEW t \in StreamIds,
                          NEW c \in Elements(capsules[Peer(x)][t]),
                          NEW r \in Elements(delivered'[Peer(x)][t])
                   PROVE  r.id < c.payload.id
        OBVIOUS
      <3>1. Peer(x) # e \/ t # s
        BY <1>5
      <3>2. r \in Elements(delivered[Peer(x)][t])
        BY <1>3, <3>1, PeerFacts
      <3> QED
        BY <3>2 DEF Inv, InOrder
    <2>3. \A x \in Ends, t \in StreamIds : UsesCapsules(x, t) => Ascending(delivered'[Peer(x)][t])
      BY <1>d, <1>3, <1>5, PeerFacts DEF Inv, InOrder
    <2>4. /\ hand' = hand /\ capsules' = capsules
          /\ \A x \in Ends, t \in StreamIds : UsesCapsules(x, t)' <=> UsesCapsules(x, t)
      BY AssociationsKept
    <2> QED
      BY <1>4, <2>1, <2>2, <2>3, <2>4 DEF Inv, InOrder
  <1>14. DeliveredFits'
    <2>1. \A x \in Ends, t \in StreamIds : Limit(x, t)' = Limit(x, t)
      BY AssociationsKept
    <2> QED
      BY <1>1, <1>3, <2>1 DEF Inv, DeliveredFits
  <1>15. RefusedKnown' /\ RefusedForCause'
    BY <1>3, RefusalsKept
  <1>16. EveryCapsuleAccounted'
    <2>1. \A x \in Ends, t \in StreamIds :
            Elements(delivered[Peer(x)][t]) \subseteq Elements(delivered'[Peer(x)][t])
      BY <1>3, PeerFacts
    <2> QED
      BY <2>1, AssociationsKept DEF Inv, EveryCapsuleAccounted
  <1> QED
    BY <1>7, <1>8, <1>9, <1>10, <1>11, <1>12, <1>13, <1>14, <1>15, <1>16 DEF Inv

\* What decoding may do to the payloads: nothing, or one comes out.
DeliversOrNot(e, s) ==
  UNCHANGED offered /\ (UNCHANGED delivered \/ FirstDelivery(e, s))

LEMMA DecodeH3KeepsInv ==
  ASSUME Inv, NEW e \in Ends, NEW s \in StreamIds, NEW f \in frames[e] \cup Strays,
         DecodeH3(e, s, f)
  PROVE  Inv' /\ DeliversOrNot(e, s)
  <1>w. PICK why : why = Decoded(e, s, "H3Datagram", FrameStream(f), f.context, f.payload)
    OBVIOUS
  <1>1. /\ Bound(e, s)
        /\ frames' = [frames EXCEPT ![e] = @ \ {f}]
        /\ Outcome(e, s, why, f.payload)
        /\ UNCHANGED <<advertised, assoc, offered, hand, capsules, forwarded>>
    BY <1>w DEF DecodeH3, FrameStream
  <1>2. CASE f \in frames[e] /\ why = "Ok"
    <2>1. Puts(e, s, f.payload) /\ UNCHANGED refused
      BY <1>1, <1>2 DEF Outcome, Puts
    <2> QED
      BY <1>w, <1>1, <1>2, <2>1, FrameDelivered DEF DeliversOrNot
  <1>3. CASE f \in frames[e] /\ why # "Ok"
    <2>1. Refuse(e, s, why, f.payload) /\ UNCHANGED delivered
      BY <1>1, <1>3 DEF Outcome
    <2> QED
      BY <1>w, <1>1, <1>3, <2>1, FrameRefused DEF DeliversOrNot
  <1>4. CASE f \notin frames[e]
    <2>1. f.context # "zero" /\ f.payload = Nothing
      BY <1>4 DEF Strays
    <2>2. why # "Ok"
      <3> PICK t : t = FrameStream(f)
        OBVIOUS
      <3> QED
        BY <1>w, <2>1 DEF Decoded
    <2>3. UNCHANGED <<delivered, refused>>
      BY <1>1, <2>1, <2>2 DEF Outcome, Refuse
    <2>4. LoseFrame(e, f)
      BY <1>1, <2>3 DEF LoseFrame
    <2> QED
      BY <1>1, <2>3, <2>4, LoseFrameKeepsInv DEF DeliversOrNot
  <1> QED
    BY <1>2, <1>3, <1>4

\* The reader of a stream parts with the oldest capsule on it.
LEMMA CapsulesPop ==
  ASSUME Inv, NEW e \in Ends, NEW t \in StreamIds, capsules[e][t] # <<>>,
         capsules' = [capsules EXCEPT ![e][t] = Tail(@)]
  PROVE  LET c == Head(capsules[e][t]) IN
         /\ capsules' \in PerRequest(Seq(Capsule))
         /\ c \in Elements(capsules[e][t]) /\ c.context = "zero"
         /\ c.payload \in Elements(offered[Peer(e)][t])
         /\ UsesCapsules(Peer(e), t)
         /\ \A x \in Ends, u \in StreamIds :
              /\ AscendingCapsules(capsules'[x][u])
              /\ Elements(capsules'[x][u]) \subseteq Elements(capsules[x][u])
              /\ x # e \/ u # t => capsules'[x][u] = capsules[x][u]
              /\ capsules'[x][u] # <<>> => capsules[x][u] # <<>>
         /\ \A b \in Elements(capsules[e][t]) : b = c \/ b \in Elements(capsules'[e][t])
         /\ \A b \in Elements(capsules'[e][t]) : c.payload.id < b.payload.id
  <1>c. PICK c : c = Head(capsules[e][t])
    OBVIOUS
  <1>d. PICK d \in Ends : d = Peer(e) /\ Peer(d) = e /\ \A x \in Ends : x # d => Peer(x) # e
    BY PeerFacts
  <1>1. /\ capsules[e][t] \in Seq(Capsule) /\ Tail(capsules[e][t]) \in Seq(Capsule) /\ c \in Capsule
        /\ Elements(capsules[e][t]) = {c} \cup Elements(Tail(capsules[e][t]))
    BY <1>c, Types, HeadTail DEF Inv
  <1>2. /\ capsules' \in PerRequest(Seq(Capsule)) /\ capsules'[e][t] = Tail(capsules[e][t])
        /\ \A x \in Ends, u \in StreamIds : x # e \/ u # t => capsules'[x][u] = capsules[x][u]
    BY <1>1 DEF Inv, TypeOK, PerRequest
  <1>3. \A x \in Ends, u \in StreamIds : AscendingCapsules(capsules[x][u])
    BY PeerFacts DEF Inv, InOrder
  <1>4. /\ AscendingCapsules(Tail(capsules[e][t]))
        /\ \A b \in Elements(Tail(capsules[e][t])) : c.payload.id < b.payload.id
    BY <1>c, <1>1, <1>3, AscendingCapsulesTail
  <1>5. /\ c \in Elements(capsules[e][t]) /\ c.context = "zero"
        /\ c.payload \in Elements(offered[d][t])
        /\ UsesCapsules(d, t)
    BY <1>d, <1>1 DEF Inv, Placed, UsesCapsules, Capsule
  <1>6. ASSUME NEW x \in Ends, NEW u \in StreamIds
        PROVE  /\ AscendingCapsules(capsules'[x][u])
               /\ Elements(capsules'[x][u]) \subseteq Elements(capsules[x][u])
               /\ capsules'[x][u] # <<>> => capsules[x][u] # <<>>
    BY <1>1, <1>2, <1>3, <1>4
  <1> QED
    BY <1>c, <1>d, <1>1, <1>2, <1>4, <1>5, <1>6

\* A capsule leaves the stream and is refused.
LEMMA CapsuleRefused ==
  ASSUME Inv, NEW e \in Ends, NEW s \in StreamIds, NEW t \in StreamIds, NEW why,
         Bound(e, s), capsules[e][t] # <<>>,
         why = Decoded(e, s, "DatagramCapsule", t, "zero", Head(capsules[e][t]).payload),
         why # "Ok", Refuse(e, s, why, Head(capsules[e][t]).payload),
         capsules' = [capsules EXCEPT ![e][t] = Tail(@)],
         UNCHANGED <<advertised, assoc, offered, hand, frames, delivered, forwarded>>
  PROVE  Inv'
  <1>c. PICK c : c = Head(capsules[e][t])
    OBVIOUS
  <1>p. PICK p : p = c.payload
    OBVIOUS
  <1>1. /\ capsules' \in PerRequest(Seq(Capsule))
        /\ p \in Elements(offered[Peer(e)][t])
        /\ UsesCapsules(Peer(e), t)
        /\ \A x \in Ends, u \in StreamIds :
             /\ AscendingCapsules(capsules'[x][u])
             /\ Elements(capsules'[x][u]) \subseteq Elements(capsules[x][u])
             /\ x # e \/ u # t => capsules'[x][u] = capsules[x][u]
             /\ capsules'[x][u] # <<>> => capsules[x][u] # <<>>
        /\ \A b \in Elements(capsules[e][t]) : b = c \/ b \in Elements(capsules'[e][t])
    BY <1>c, <1>p, CapsulesPop
  <1>2. /\ refused' \in [Ends -> SUBSET Refusal]
        /\ \A x \in Ends : refused[x] \subseteq refused'[x]
        /\ p \in {r.payload : r \in refused'[e]}
        /\ RefusedKnown' /\ RefusedForCause'
    <2>1. "DatagramCapsule" \in Carriers /\ Enabled(Peer(e), t, "DatagramCapsule")
      BY <1>1 DEF Carriers, UsesCapsules
    <2>2. why = Decoded(e, s, "DatagramCapsule", t, "zero", p) /\ Refuse(e, s, why, p)
      BY <1>c, <1>p
    <2> QED
      BY <1>1, <2>1, <2>2, DecodeRefuses
  <1>3. TypeOK' /\ IdsOK' /\ OwnIds'
    BY <1>1, <1>2, OfferedKept DEF Inv, TypeOK
  <1>4. BoundOK' /\ DeliveredFits'
    BY BoundKept DEF Inv, DeliveredFits, Bound, Limit
  <1>5. Placed'
    <2>1. \A x \in Ends, u \in StreamIds :
            /\ \A b \in Elements(capsules'[Peer(x)][u]) : b.payload \in Elements(offered[x][u])
            /\ capsules'[Peer(x)][u] # <<>> => Bound(x, u) /\ Enabled(x, u, "DatagramCapsule")
      BY <1>1, PeerFacts DEF Inv, Placed
    <2> QED
      BY <2>1, AssociationsKept DEF Inv, Placed
  <1>6. FramesPlaced' /\ FramesNew'
    BY AssociationsKept DEF Inv, FramesPlaced, FramesNew
  <1>7. InOrder'
    <2>1. \A x \in Ends, u \in StreamIds :
            /\ AscendingCapsules(capsules'[Peer(x)][u])
            /\ \A b \in Elements(capsules'[Peer(x)][u]) : b \in Elements(capsules[Peer(x)][u])
      BY <1>1, PeerFacts
    <2> QED
      BY <2>1, AssociationsKept DEF Inv, InOrder
  <1>8. EveryCapsuleAccounted'
    <2> SUFFICES ASSUME NEW x \in Ends, NEW u \in StreamIds, UsesCapsules(x, u),
                        NEW q \in Elements(offered[x][u])
                 PROVE  \/ q \in Elements(hand[x][u])
                        \/ q \in {b.payload : b \in {a \in Elements(capsules'[Peer(x)][u]) : FitsParser(a)}}
                        \/ q \in Elements(delivered[Peer(x)][u])
                        \/ \E f \in Ends : q \in {y.payload : y \in refused'[f]}
      BY AssociationsKept DEF EveryCapsuleAccounted
    <2>1. CASE q \in {b.payload : b \in {a \in Elements(capsules[Peer(x)][u]) : FitsParser(a)}}
      <3>1. PICK b \in Elements(capsules[Peer(x)][u]) : q = b.payload /\ FitsParser(b)
        BY <2>1
      <3>2. b \in Elements(capsules'[Peer(x)][u]) \/ b = c
        BY <1>1, <3>1, PeerFacts
      <3> QED
        BY <1>p, <1>2, <3>1, <3>2
    <2>2. CASE q \notin {b.payload : b \in {a \in Elements(capsules[Peer(x)][u]) : FitsParser(a)}}
      BY SMTT(60), <1>2, <2>2 DEF Inv, EveryCapsuleAccounted
    <2> QED
      BY <2>1, <2>2
  <1> QED
    BY <1>2, <1>3, <1>4, <1>5, <1>6, <1>7, <1>8 DEF Inv

\* A capsule is decoded by the association of its own request, after the ones
\* before it and before the ones behind it.
LEMMA CapsuleDelivered ==
  ASSUME Inv, NEW e \in Ends, NEW s \in StreamIds, NEW t \in StreamIds,
         Bound(e, s), capsules[e][t] # <<>>,
         "Ok" = Decoded(e, s, "DatagramCapsule", t, "zero", Head(capsules[e][t]).payload),
         Puts(e, s, Head(capsules[e][t]).payload),
         capsules' = [capsules EXCEPT ![e][t] = Tail(@)],
         UNCHANGED <<advertised, assoc, offered, hand, frames, forwarded, refused>>
  PROVE  Inv' /\ FirstDelivery(e, s)
  <1>c. PICK c : c = Head(capsules[e][t])
    OBVIOUS
  <1>p. PICK p : p = c.payload
    OBVIOUS
  <1>d. PICK d \in Ends : d = Peer(e) /\ Peer(d) = e /\ \A x \in Ends : x # d => Peer(x) # e
    BY PeerFacts
  <1>0. /\ t = s /\ ~(p.size > Limit(e, s))
        /\ Puts(e, s, p)
    BY <1>c, <1>p DEF Decoded
  <1>1. /\ capsules' \in PerRequest(Seq(Capsule))
        /\ c \in Elements(capsules[e][s])
        /\ p \in Elements(offered[d][s])
        /\ UsesCapsules(d, s)
        /\ \A x \in Ends, u \in StreamIds :
             /\ AscendingCapsules(capsules'[x][u])
             /\ Elements(capsules'[x][u]) \subseteq Elements(capsules[x][u])
             /\ x # e \/ u # s => capsules'[x][u] = capsules[x][u]
             /\ capsules'[x][u] # <<>> => capsules[x][u] # <<>>
        /\ \A b \in Elements(capsules[e][s]) : b = c \/ b \in Elements(capsules'[e][s])
        /\ \A b \in Elements(capsules'[e][s]) : p.id < b.payload.id
    BY ZenonT(60), <1>c, <1>p, <1>d, <1>0, CapsulesPop
  <1>2. p \in Payload /\ p.size <= Limit(e, s)
    <2>1. p \in Payload
      BY <1>1, OfferedIds
    <2>2. Limit(e, s) \in Nat /\ p.size \in Nat
      BY <2>1, BoundTypes DEF Inv, Payload
    <2> QED
      BY <1>0, <2>1, <2>2
  <1>3. /\ delivered' \in PerRequest(Seq(Payload))
        /\ delivered'[e][s] = Append(delivered[e][s], p)
        /\ Elements(delivered'[e][s]) = Elements(delivered[e][s]) \cup {p}
        /\ \A x \in Ends, u \in StreamIds :
             /\ x # e \/ u # s => delivered'[x][u] = delivered[x][u]
             /\ Elements(delivered[x][u]) \subseteq Elements(delivered'[x][u])
    <2>1. p \in Elements(offered[Peer(e)][s]) /\ Puts(e, s, p)
      BY <1>d, <1>0, <1>1
    <2>2. /\ delivered' \in PerRequest(Seq(Payload))
          /\ delivered'[e][s] = Append(delivered[e][s], p)
      BY <2>1, Delivers
    <2>3. Elements(delivered'[e][s]) = Elements(delivered[e][s]) \cup {p}
      BY <1>2, <2>2, Types, AppendTo DEF Inv
    <2>4. ASSUME NEW x \in Ends, NEW u \in StreamIds
          PROVE  /\ x # e \/ u # s => delivered'[x][u] = delivered[x][u]
                 /\ Elements(delivered[x][u]) \subseteq Elements(delivered'[x][u])
      BY <2>1, Delivers
    <2> QED
      BY <2>2, <2>3, <2>4
  <1>4. \A q \in Elements(delivered[e][s]) : q.id < p.id
    BY <1>p, <1>d, <1>1 DEF Inv, InOrder
  <1>5. FirstDelivery(e, s)
    <2>1. p \notin Elements(delivered[e][s])
      BY <1>2, <1>4 DEF Payload
    <2> QED
      BY <1>d, <1>0, <1>1, <2>1 DEF FirstDelivery
  <1>6. ~Enabled(d, s, "H3Datagram")
    BY <1>1 DEF UsesCapsules, Enabled, is_datagram_capsule_enabled
  <1>7. TypeOK' /\ IdsOK' /\ OwnIds'
    BY <1>1, <1>3, OfferedKept DEF Inv, TypeOK
  <1>8. BoundOK'
    BY <1>3, BoundKept DEF Inv, Bound
  <1>9. Placed'
    <2>1. ASSUME NEW x \in Ends, NEW u \in StreamIds
          PROVE  Elements(delivered'[Peer(x)][u]) \subseteq Elements(offered[x][u])
      <3>1. Elements(delivered[Peer(x)][u]) \subseteq Elements(offered[x][u])
        BY DEF Inv, Placed
      <3>2. CASE x = d /\ u = s
        <4>1. /\ Elements(delivered[e][s]) \subseteq Elements(offered[d][s])
              /\ Peer(x) = e
          BY <1>d, <3>1, <3>2
        <4> QED
          BY <1>1, <1>3, <3>2, <4>1
      <3>3. CASE x # d \/ u # s
        <4>1. delivered'[Peer(x)][u] = delivered[Peer(x)][u]
          BY <1>d, <1>3, <3>3, PeerFacts
        <4> QED
          BY <3>1, <4>1
      <3> QED
        BY <3>2, <3>3
    <2>2. \A x \in Ends, u \in StreamIds :
            /\ \A b \in Elements(capsules'[Peer(x)][u]) : b.payload \in Elements(offered[x][u])
            /\ capsules'[Peer(x)][u] # <<>> => Bound(x, u) /\ Enabled(x, u, "DatagramCapsule")
      BY <1>1, PeerFacts DEF Inv, Placed
    <2> QED
      BY <2>1, <2>2, AssociationsKept DEF Inv, Placed
  <1>10. FramesPlaced'
    BY AssociationsKept DEF Inv, FramesPlaced
  <1>11. FramesNew'
    <2> SUFFICES ASSUME NEW x \in Ends, NEW g \in frames[Peer(x)],
                        NEW q \in Elements(delivered'[Peer(x)][FrameStream(g)])
                 PROVE  q.id # g.payload.id
      BY DEF FramesNew
    <2>1. FrameStream(g) \in StreamIds /\ Enabled(x, FrameStream(g), "H3Datagram")
      BY DEF Inv, FramesPlaced
    <2>2. x # d \/ FrameStream(g) # s
      BY <1>6, <2>1
    <2>3. delivered'[Peer(x)][FrameStream(g)] = delivered[Peer(x)][FrameStream(g)]
      BY <1>d, <1>3, <2>1, <2>2, PeerFacts
    <2> QED
      BY <2>3 DEF Inv, FramesNew
  <1>12. InOrder'
    <2>1. ASSUME NEW x \in Ends, NEW u \in StreamIds
          PROVE  /\ AscendingCapsules(capsules'[Peer(x)][u])
                 /\ \A b \in Elements(capsules'[Peer(x)][u]) : b \in Elements(capsules[Peer(x)][u])
      BY <1>1, PeerFacts
    <2>2. ASSUME NEW x \in Ends, NEW u \in StreamIds
          PROVE  /\ \A q \in Elements(hand[x][u]) :
                      \A r \in Elements(delivered'[Peer(x)][u]) : r.id < q.id
                 /\ \A b \in Elements(capsules'[Peer(x)][u]) :
                      \A r \in Elements(delivered'[Peer(x)][u]) : r.id < b.payload.id
                 /\ UsesCapsules(x, u) => Ascending(delivered'[Peer(x)][u])
      <3>1. CASE x = d /\ u = s
        <4>1. /\ \A q \in Elements(hand[d][s]) :
                   /\ p.id < q.id
                   /\ \A r \in Elements(delivered[e][s]) : r.id < q.id
              /\ \A b \in Elements(capsules[e][s]) :
                   \A r \in Elements(delivered[e][s]) : r.id < b.payload.id
          BY <1>p, <1>d, <1>1 DEF Inv, InOrder
        <4>2. \A r \in Elements(delivered'[e][s]) : r \in Elements(delivered[e][s]) \/ r = p
          BY <1>3
        <4>3. Ascending(delivered'[e][s])
          <5>1. delivered[e][s] \in Seq(Payload) /\ Ascending(delivered[e][s])
            BY <1>d, <1>1, Types DEF Inv, InOrder
          <5> QED
            BY <1>2, <1>3, <1>4, <5>1, AscendingAppend
        <4> QED
          BY <1>d, <1>1, <3>1, <4>1, <4>2, <4>3
      <3>2. CASE x # d \/ u # s
        <4>1. delivered'[Peer(x)][u] = delivered[Peer(x)][u]
          BY <1>d, <1>3, <3>2, PeerFacts
        <4> QED
          BY <2>1, <4>1 DEF Inv, InOrder
      <3> QED
        BY <3>1, <3>2
    <2>3. \A x \in Ends, u \in StreamIds :
            /\ Ascending(hand[x][u])
            /\ \A q \in Elements(hand[x][u]) :
                 /\ \A b \in Elements(capsules'[Peer(x)][u]) : b.payload.id < q.id
                 /\ \A f \in frames[Peer(x)] : FrameStream(f) = u => f.payload.id < q.id
      BY <2>1 DEF Inv, InOrder
    <2>4. /\ hand' = hand /\ frames' = frames
          /\ \A x \in Ends, u \in StreamIds : UsesCapsules(x, u)' <=> UsesCapsules(x, u)
      BY AssociationsKept
    <2> QED
      BY <2>1, <2>2, <2>3, <2>4 DEF InOrder
  <1>13. DeliveredFits'
    <2>1. \A x \in Ends, u \in StreamIds : Limit(x, u)' = Limit(x, u)
      BY AssociationsKept
    <2> QED
      BY <1>2, <1>3, <2>1 DEF Inv, DeliveredFits
  <1>14. RefusedKnown' /\ RefusedForCause'
    BY <1>3, RefusalsKept
  <1>15. EveryCapsuleAccounted'
    <2> SUFFICES ASSUME NEW x \in Ends, NEW u \in StreamIds, UsesCapsules(x, u),
                        NEW q \in Elements(offered[x][u])
                 PROVE  \/ q \in Elements(hand[x][u])
                        \/ q \in {b.payload : b \in {a \in Elements(capsules'[Peer(x)][u]) : FitsParser(a)}}
                        \/ q \in Elements(delivered'[Peer(x)][u])
                        \/ \E f \in Ends : q \in {y.payload : y \in refused[f]}
      BY AssociationsKept DEF EveryCapsuleAccounted
    <2>1. CASE q \in {b.payload : b \in {a \in Elements(capsules[Peer(x)][u]) : FitsParser(a)}}
      <3>1. PICK b \in Elements(capsules[Peer(x)][u]) : q = b.payload /\ FitsParser(b)
        BY <2>1
      <3>2. b \in Elements(capsules'[Peer(x)][u]) \/ (b = c /\ x = d /\ u = s)
        <4>1. CASE x = d /\ u = s
          BY <1>d, <1>1, <3>1, <4>1
        <4>2. CASE x # d \/ u # s
          BY <1>d, <1>1, <3>1, <4>2, PeerFacts
        <4> QED
          BY <4>1, <4>2
      <3> QED
        BY ZenonT(60), <1>p, <1>d, <1>3, <3>1, <3>2
    <2>2. CASE q \notin {b.payload : b \in {a \in Elements(capsules[Peer(x)][u]) : FitsParser(a)}}
      <3>1. Elements(delivered[Peer(x)][u]) \subseteq Elements(delivered'[Peer(x)][u])
        BY <1>3, PeerFacts
      <3> QED
        BY <2>2, <3>1 DEF Inv, EveryCapsuleAccounted
    <2> QED
      BY <2>1, <2>2
  <1> QED
    BY <1>5, <1>7, <1>8, <1>9, <1>10, <1>11, <1>12, <1>13, <1>14, <1>15 DEF Inv

LEMMA DecodeCapsuleKeepsInv ==
  ASSUME Inv, NEW e \in Ends, NEW s \in StreamIds, NEW t \in StreamIds,
         DecodeCapsule(e, s, t)
  PROVE  Inv' /\ DeliversOrNot(e, s)
  <1>c. PICK c : c = Head(capsules[e][t])
    OBVIOUS
  <1>w. PICK why : why = Decoded(e, s, "DatagramCapsule", t, c.context, c.payload)
    OBVIOUS
  <1>1. /\ Bound(e, s) /\ capsules[e][t] # <<>>
        /\ Outcome(e, s, why, c.payload)
        /\ capsules' = [capsules EXCEPT ![e][t] = Tail(@)]
        /\ UNCHANGED <<advertised, assoc, offered, hand, frames, forwarded>>
    BY <1>c, <1>w DEF DecodeCapsule
  <1>2. c.context = "zero"
    BY <1>c, <1>1, CapsulesPop
  <1>3. CASE why = "Ok"
    <2>1. Puts(e, s, Head(capsules[e][t]).payload) /\ UNCHANGED refused
      BY <1>c, <1>1, <1>3 DEF Outcome, Puts
    <2>2. "Ok" = Decoded(e, s, "DatagramCapsule", t, "zero", Head(capsules[e][t]).payload)
      BY <1>c, <1>w, <1>2, <1>3
    <2> QED
      BY <1>1, <2>1, <2>2, CapsuleDelivered DEF DeliversOrNot
  <1>4. CASE why # "Ok"
    <2>1. Refuse(e, s, why, Head(capsules[e][t]).payload) /\ UNCHANGED delivered
      BY <1>c, <1>1, <1>4 DEF Outcome
    <2>2. why = Decoded(e, s, "DatagramCapsule", t, "zero", Head(capsules[e][t]).payload)
      BY <1>c, <1>w, <1>2
    <2> QED
      BY <1>1, <1>4, <2>1, <2>2, CapsuleRefused DEF DeliversOrNot
  <1> QED
    BY <1>3, <1>4

(* Sending, and the step.                                                   *)

LEMMA SendKeepsInv ==
  ASSUME Inv, NEW e \in Ends, NEW s \in StreamIds, Send(e, s)
  PROVE  Inv'
  <1>p. PICK p : p = NextToSend(e, s)
    OBVIOUS
  <1>1. /\ forwarded[e][s] < Len(delivered[e][s])
        /\ forwarded' = [forwarded EXCEPT ![e][s] = @ + 1]
        /\ UNCHANGED <<advertised, assoc, offered, hand, frames, capsules, delivered>>
    BY DEF Send
  <1>2. p \in Elements(delivered[e][s])
    <2>1. forwarded[e][s] \in Nat /\ delivered[e][s] \in Seq(Payload)
      BY Types DEF Inv
    <2>2. forwarded[e][s] + 1 \in DOMAIN delivered[e][s]
      BY <1>1, <2>1
    <2> QED
      BY <1>p, <2>2 DEF NextToSend, Elements
  <1>3. /\ p \in Payload /\ p \in AllOffered /\ p.size <= Limit(e, s)
        /\ Bound(e, s)
    <2>1. p \in Elements(offered[Peer(e)][s])
      BY <1>2, PeerFacts DEF Inv, Placed
    <2>2. Bound(e, s)
      BY <1>2 DEF Inv, BoundOK, Elements
    <2> QED
      BY <1>2, <2>1, <2>2, PeerFacts, OfferedIds DEF Inv, DeliveredFits
  <1>4. UNCHANGED refused \/ Refuse(e, s, "UdpSend", p)
    <2>1. ~(p.size > Limit(e, s))
      BY <1>3, BoundTypes DEF Inv, Payload
    <2>2. SendOutcome(e, s, p) \in {"Ok", "UdpSend"}
      BY <2>1 DEF SendOutcome
    <2> QED
      BY <1>p, <2>2 DEF Send
  <1>5. /\ refused' \in [Ends -> SUBSET Refusal]
        /\ \A x \in Ends : refused[x] \subseteq refused'[x]
        /\ \A x \in Ends : \A r \in refused'[x] : r \in refused[x] \/
             (Bound(x, r.stream) /\ r.payload \in AllOffered /\ Cause(x, r)')
    <2>1. CASE UNCHANGED refused
      BY <2>1 DEF Inv, TypeOK
    <2>2. CASE Refuse(e, s, "UdpSend", p)
      <3> DEFINE r == [stream |-> s, why |-> "UdpSend", payload |-> p]
      <3>1. "UdpSend" \in Reasons
        BY DEF Reasons
      <3>2. /\ refused' \in [Ends -> SUBSET Refusal]
            /\ \A x \in Ends : refused[x] \subseteq refused'[x]
            /\ \A x \in Ends : \A q \in refused'[x] : q \in refused[x] \/ (x = e /\ q = r)
        BY ZenonT(60), <1>3, <2>2, <3>1, Refuses DEF Inv
      <3>3. r.stream = s /\ r.why = "UdpSend" /\ r.payload = p
        OBVIOUS
      <3> HIDE DEF r
      <3>4. Cause(e, r)'
        BY <1>1, <1>2, <3>3 DEF Cause
      <3> QED
        BY <1>3, <3>2, <3>3, <3>4
    <2> QED
      BY <1>4, <2>1, <2>2
  <1>6. RefusedKnown' /\ RefusedForCause'
    BY <1>1, <1>5, RefusalsKept
  <1>7. forwarded' \in PerRequest(Nat)
    BY <1>1 DEF Inv, TypeOK, PerRequest
  <1>8. TypeOK' /\ IdsOK' /\ OwnIds'
    BY <1>1, <1>5, <1>7, OfferedKept DEF Inv, TypeOK
  <1>9. BoundOK' /\ DeliveredFits'
    BY <1>1, BoundKept DEF Inv, DeliveredFits, Bound, Limit
  <1>10. Placed' /\ FramesPlaced' /\ FramesNew'
    <2>1. Placed'
      BY <1>1, AssociationsKept DEF Inv, Placed
    <2>2. FramesPlaced'
      BY <1>1, AssociationsKept DEF Inv, FramesPlaced
    <2>3. FramesNew'
      BY <1>1, AssociationsKept DEF Inv, FramesNew
    <2> QED
      BY <2>1, <2>2, <2>3
  <1>11. InOrder'
    BY <1>1, AssociationsKept DEF Inv, InOrder
  <1>12. EveryCapsuleAccounted'
    BY SMTT(60), <1>1, <1>5, AssociationsKept DEF Inv, EveryCapsuleAccounted
  <1> QED
    BY <1>6, <1>8, <1>9, <1>10, <1>11, <1>12 DEF Inv

LEMMA StutterKeepsInv ==
  ASSUME Inv, UNCHANGED vars
  PROVE  Inv'
  <1>1. UNCHANGED <<advertised, assoc, offered, hand, frames, capsules, delivered, forwarded, refused>>
    BY DEF vars, tunnel
  <1>3. TypeOK' /\ IdsOK' /\ OwnIds'
    BY <1>1, OfferedKept DEF Inv, TypeOK
  <1>4. BoundOK' /\ DeliveredFits'
    BY <1>1, BoundKept DEF Inv, DeliveredFits, Bound, Limit
  <1>5. Placed' /\ FramesPlaced' /\ FramesNew'
    <2>1. Placed'
      BY <1>1, AssociationsKept DEF Inv, Placed
    <2>2. FramesPlaced'
      BY <1>1, AssociationsKept DEF Inv, FramesPlaced
    <2>3. FramesNew'
      BY <1>1, AssociationsKept DEF Inv, FramesNew
    <2> QED
      BY <2>1, <2>2, <2>3
  <1>6. InOrder'
    BY <1>1, AssociationsKept DEF Inv, InOrder
  <1>7. RefusedKnown' /\ RefusedForCause'
    BY <1>1, RefusalsKept
  <1>8. EveryCapsuleAccounted'
    BY <1>1, AssociationsKept DEF Inv, EveryCapsuleAccounted
  <1> QED
    BY <1>3, <1>4, <1>5, <1>6, <1>7, <1>8 DEF Inv

\* What a step may do to the payloads of a request.
OffersOrDelivers(e, s) ==
  \/ UNCHANGED <<offered, delivered>>
  \/ \E size \in Sizes : Take(e, s, size, size)
  \/ FirstDelivery(e, s) /\ UNCHANGED offered

LEMMA StepKeepsInv ==
  ASSUME Inv, Next
  PROVE  Inv' /\ \E e \in Ends, s \in StreamIds : OffersOrDelivers(e, s)
  <1> PICK e \in Ends, s \in StreamIds :
        \/ \E family \in Families, missing \in Unrecorded : Bind(e, s, family, missing)
        \/ BindRefused(e, s)
        \/ Offer(e, s)
        \/ Recv(e, s)
        \/ \E carrier \in Carriers : EncodeFails(e, s, carrier)
        \/ EncodeH3(e, s)
        \/ EncodeCapsule(e, s)
        \/ \E f \in frames[e] : LoseFrame(e, f)
        \/ \E f \in frames[e] \cup Strays : DecodeH3(e, s, f)
        \/ \E from \in StreamIds : DecodeCapsule(e, s, from)
        \/ Send(e, s)
        \/ Close(e, s)
    BY DEF Next
  <1> SUFFICES Inv' /\ OffersOrDelivers(e, s)
    OBVIOUS
  <1>1. ASSUME NEW family \in Families, NEW missing \in Unrecorded, Bind(e, s, family, missing)
        PROVE  Inv' /\ OffersOrDelivers(e, s)
    BY <1>1, BindKeepsInv DEF OffersOrDelivers, Bind, tunnel
  <1>2. CASE BindRefused(e, s)
    BY <1>2, StutterKeepsInv DEF OffersOrDelivers, BindRefused, vars, tunnel
  <1>3. CASE Offer(e, s) \/ Recv(e, s)
    BY <1>3, OfferKeepsInv DEF OffersOrDelivers
  <1>4. ASSUME NEW carrier \in Carriers, EncodeFails(e, s, carrier)
        PROVE  Inv' /\ OffersOrDelivers(e, s)
    BY <1>4, EncodeFailsKeepsInv DEF OffersOrDelivers, EncodeFails
  <1>5. CASE EncodeH3(e, s)
    BY <1>5, EncodeH3KeepsInv DEF OffersOrDelivers, EncodeH3
  <1>6. CASE EncodeCapsule(e, s)
    BY <1>6, EncodeCapsuleKeepsInv DEF OffersOrDelivers, EncodeCapsule
  <1>7. ASSUME NEW f \in frames[e], LoseFrame(e, f)
        PROVE  Inv' /\ OffersOrDelivers(e, s)
    BY <1>7, LoseFrameKeepsInv DEF OffersOrDelivers, LoseFrame
  <1>8. ASSUME NEW f \in frames[e] \cup Strays, DecodeH3(e, s, f)
        PROVE  Inv' /\ OffersOrDelivers(e, s)
    BY <1>8, DecodeH3KeepsInv DEF OffersOrDelivers, DeliversOrNot
  <1>9. ASSUME NEW from \in StreamIds, DecodeCapsule(e, s, from)
        PROVE  Inv' /\ OffersOrDelivers(e, s)
    BY <1>9, DecodeCapsuleKeepsInv DEF OffersOrDelivers, DeliversOrNot
  <1>10. CASE Send(e, s)
    BY <1>10, SendKeepsInv DEF OffersOrDelivers, Send
  <1>11. CASE Close(e, s)
    BY <1>11, CloseKeepsInv DEF OffersOrDelivers, Close, tunnel
  <1> QED
    BY <1>1, <1>2, <1>3, <1>4, <1>5, <1>6, <1>7, <1>8, <1>9, <1>10, <1>11

LEMMA AlwaysInv == Spec => []Inv
  <1>1. Inv /\ [Next]_vars => Inv'
    BY StepKeepsInv, StutterKeepsInv
  <1> QED
    BY InitInv, <1>1, PTL DEF Spec
-----------------------------------------------------------------------------
(* The theorems.                                                            *)

\* Whatever the streams, payloads and associations, and however decode
\* operations of different requests interleave, payloads that a request sends as
\* capsules come out in the order they were offered.
THEOREM CapsulesComeInOrder == Spec => []CapsulesKeepOrder
  <1>1. Inv => CapsulesKeepOrder
    <2> SUFFICES ASSUME Inv, NEW e \in Ends, NEW s \in StreamIds, UsesCapsules(Peer(e), s)
                 PROVE  Ascending(delivered[e][s])
      BY DEF CapsulesKeepOrder, Ascending
    <2> QED
      BY PeerFacts DEF Inv, InOrder
  <1> QED
    BY <1>1, AlwaysInv, PTL

\* A payload offered on a request that uses capsules is held, on the stream in a
\* capsule that fits the peer's parser, out, or refused: none disappears, an
\* empty one included, and none is too long for the parser.
THEOREM CapsulesAreAccounted == Spec => []EveryCapsuleAccounted
  BY AlwaysInv, PTL DEF Inv

\* Every error of an association has the cause its name says, at the time it is
\* returned and ever after, and send never finds a decoded payload too large.
THEOREM RefusalsHaveCauses == Spec => []RefusedForCause
  BY AlwaysInv, PTL DEF Inv

\* The tunnel, with both carriers, whatever association a datagram is handed to,
\* is a relay: its initial states are the relay's, taking a payload in is Offer,
\* the decode that lets one out is Deliver, and every other step leaves the relay
\* as it is.
LEMMA StepRelays == Inv /\ [Next]_vars => [Relay!Next]_<<offered, delivered>>
  <1> SUFFICES ASSUME Inv, Next, ~UNCHANGED <<offered, delivered>>
               PROVE  Relay!Next
    BY DEF vars, tunnel
  <1>1. PICK e \in Ends, s \in StreamIds : OffersOrDelivers(e, s)
    BY StepKeepsInv
  <1>2. \A x \in Ends : Relay!PeerOf(x) = Peer(x)
    BY DEF Relay!PeerOf, Peer
  <1>3. Relay!Ends = Ends /\ \A q : Relay!Elements(q) = Elements(q)
    BY DEF Relay!Ends, Ends, Relay!Elements, Elements
  <1>4. ASSUME NEW size \in Sizes, Take(e, s, size, size)
        PROVE  Relay!Next
    <2>1. PICK id : id = Cardinality(AllOffered) + 1
      OBVIOUS
    <2>2. /\ id <= MaxPayloads
          /\ offered' = [offered EXCEPT ![e][s] = Append(@, [id |-> id, size |-> size])]
          /\ UNCHANGED delivered
      BY <1>4, <2>1 DEF Take
    <2>3. id \in 1 .. MaxPayloads /\ \A p \in AllOffered : p.id # id
      BY <2>1, <2>2, FS_CardinalityType, TunnelAssumption DEF Inv, IdsOK
    <2>4. \A f \in Relay!Ends, t \in StreamIds :
            \A other \in Relay!Elements(offered[f][t]) : other.id # id
      BY <1>3, <2>3, OfferedIsAll
    <2>5. Relay!Offer(e, s, [id |-> id, size |-> size])
      BY <2>2, <2>4 DEF Relay!Offer
    <2> QED
      BY <1>3, <2>3, <2>5 DEF Relay!Next
  <1>5. ASSUME FirstDelivery(e, s), UNCHANGED offered
        PROVE  Relay!Next
    <2>1. Relay!Deliver(e, s)
      BY <1>2, <1>3, <1>5 DEF FirstDelivery, Puts, Relay!Deliver
    <2> QED
      BY <1>3, <2>1 DEF Relay!Next
  <1> QED
    BY <1>1, <1>4, <1>5 DEF OffersOrDelivers

\* A payload comes out of the association of its own request only, whole, and at
\* most once, for any number of requests and payloads.
THEOREM ImplementsUdpRelay == Spec => RelaySpec
  <1>1. Init => Relay!Init
    BY DEF Init, Relay!Init, Ends, Relay!Ends
  <1> QED
    BY <1>1, StepRelays, AlwaysInv, PTL DEF Spec, RelaySpec, Relay!Spec, Relay!vars
=============================================================================
