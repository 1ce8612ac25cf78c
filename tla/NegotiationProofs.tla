------------------------- MODULE NegotiationProofs -------------------------
(***************************************************************************)
(* Proofs about Negotiation, for any number of repeated advertisements and   *)
(* any request protocols: both ends record what was advertised first, hence  *)
(* they choose one carrier and keep it.                                      *)
(***************************************************************************)
EXTENDS Negotiation, TLAPS

TypeOK ==
  /\ session \in [Endpoints -> Sessions]
  /\ settings \in [Endpoints -> Seq(WireSettings)]
  /\ fields \in [Endpoints -> Seq(CapsuleProtocolValues)]
  /\ settingsNoted \in [Endpoints -> Nat] /\ settingsHeard \in [Endpoints -> Nat]
  /\ fieldsNoted \in [Endpoints -> Nat] /\ fieldsHeard \in [Endpoints -> Nat]
  /\ association \in [Endpoints -> Sessions]

\* What an end knows once it has recorded n of the values in seq.
FirstOf(seq, n) == IF n = 0 THEN None ELSE seq[1]

\* A session holds, of each advertisement, the first value that was sent.
HoldsFirst(e) ==
  /\ settingsNoted[e] <= Len(settings[e]) /\ settingsHeard[e] <= Len(settings[Peer(e)])
  /\ fieldsNoted[e] <= Len(fields[e]) /\ fieldsHeard[e] <= Len(fields[Peer(e)])
  /\ session[e].local_h3_datagram = Recordable(FirstOf(settings[e], settingsNoted[e]))
  /\ session[e].peer_h3_datagram = Recordable(FirstOf(settings[Peer(e)], settingsHeard[e]))
  /\ session[e].local_capsule_protocol = FirstOf(fields[e], fieldsNoted[e])
  /\ session[e].peer_capsule_protocol = FirstOf(fields[Peer(e)], fieldsHeard[e])

\* The session of an association may lack what the request's session holds, but
\* never holds anything else.
Lags(old, new) ==
  /\ old.local_h3_datagram \in {None, new.local_h3_datagram}
  /\ old.peer_h3_datagram \in {None, new.peer_h3_datagram}
  /\ old.local_capsule_protocol \in {None, new.local_capsule_protocol}
  /\ old.peer_capsule_protocol \in {None, new.peer_capsule_protocol}

AssociationLags ==
  \A e \in Endpoints :
    /\ Lags(association[e], session[e])
    /\ association[e] = Unbound \/ session[e].protocol = "connect-udp"

\* A step touches the session of end e only, and only adds to it.
Touches(e) ==
  /\ \A f \in Endpoints \ {e} : session'[f] = session[f]
  /\ Lags(session[e], session'[e])
  /\ session'[e].protocol = session[e].protocol

OneProtocol == session["client"].protocol = session["proxy"].protocol

Inv ==
  /\ TypeOK
  /\ \A e \in Endpoints : HoldsFirst(e)
  /\ AssociationLags
  /\ OneProtocol
-----------------------------------------------------------------------------
(* Facts about the operators.                                               *)

LEMMA PeerType == \A e \in Endpoints : Peer(e) \in Endpoints /\ Peer(e) # e /\ Peer(Peer(e)) = e
  BY DEF Peer, Endpoints

\* The value after n recorded ones is the first, or a conflict.
LEMMA OnceIsFirst ==
  ASSUME NEW S, None \notin S, NEW seq \in Seq(S), NEW n \in Nat, n < Len(seq)
  PROVE  /\ Once(FirstOf(seq, n), seq[n + 1]) = FirstOf(seq, n + 1)
         /\ seq[n + 1] \in S
  BY DEF Once, FirstOf

LEMMA OnceIsFirstRecordable ==
  ASSUME NEW seq \in Seq(WireSettings), NEW n \in Nat, n < Len(seq)
  PROVE  Once(Recordable(FirstOf(seq, n)), Recordable(seq[n + 1]))
           = Recordable(FirstOf(seq, n + 1))
  <1>1. seq[1] \in WireSettings /\ seq[1] # None
    BY ConstantsAssumption DEF None
  <1> QED
    BY <1>1 DEF Once, FirstOf, Recordable, None

\* What is sent later does not change what was recorded.
LEMMA AppendKeepsFirst ==
  ASSUME NEW S, NEW seq \in Seq(S), NEW v \in S, NEW n \in Nat, n <= Len(seq)
  PROVE  /\ Append(seq, v) \in Seq(S)
         /\ Len(Append(seq, v)) = Len(seq) + 1
         /\ FirstOf(Append(seq, v), n) = FirstOf(seq, n)
  BY DEF FirstOf

LEMMA NewSessionType == \A p \in Protocols : NewSession(p) \in Sessions
  BY DEF NewSession, Sessions

LEMMA UnboundType == Unbound \in Sessions
  BY NewSessionType DEF Unbound, Protocols

\* A setter leaves a session that the old one lags behind.
LEMMA SettersGrow ==
  ASSUME NEW s \in Sessions, NEW v
  PROVE  /\ v \in H3DatagramValues =>
              /\ set_local_h3_datagram(s, v) \in Sessions
              /\ Lags(s, set_local_h3_datagram(s, v))
              /\ negotiate_peer_h3_datagram(s, v) \in Sessions
              /\ Lags(s, negotiate_peer_h3_datagram(s, v))
         /\ v \in CapsuleProtocolValues =>
              /\ set_local_capsule_protocol(s, v) \in Sessions
              /\ Lags(s, set_local_capsule_protocol(s, v))
              /\ negotiate_peer_capsule_protocol(s, v) \in Sessions
              /\ Lags(s, negotiate_peer_capsule_protocol(s, v))
  BY DEF set_local_h3_datagram, negotiate_peer_h3_datagram, set_local_capsule_protocol,
         negotiate_peer_capsule_protocol, Sessions, Lags, Once

\* What an association lags behind may grow.
LEMMA RecordingKeepsLags ==
  ASSUME Inv, NEW e \in Endpoints, NEW s \in Sessions,
         session' = [session EXCEPT ![e] = s], s.protocol = session[e].protocol,
         Lags(session[e], s), UNCHANGED association
  PROVE  session' \in [Endpoints -> Sessions] /\ AssociationLags' /\ OneProtocol'
  <1>1. session' \in [Endpoints -> Sessions]
    BY DEF Inv, TypeOK
  <1>2. \A f \in Endpoints : session'[f].protocol = session[f].protocol
    BY DEF Inv, TypeOK
  <1>3. ASSUME NEW f \in Endpoints PROVE Lags(association[f], session'[f])
    <2>1. CASE f = e
      BY <2>1 DEF Inv, TypeOK, AssociationLags, Lags
    <2>2. CASE f # e
      BY <2>2 DEF Inv, TypeOK, AssociationLags
    <2> QED
      BY <2>1, <2>2
  <1>4. AssociationLags'
    BY <1>2, <1>3 DEF Inv, AssociationLags, Unbound, NewSession
  <1>5. OneProtocol'
    BY <1>2 DEF Inv, OneProtocol, Endpoints
  <1> QED
    BY <1>1, <1>4, <1>5
-----------------------------------------------------------------------------
(* The steps.                                                               *)

LEMMA InitInv == Init => Inv
  <1> SUFFICES ASSUME Init PROVE Inv
    OBVIOUS
  <1>1. PICK p \in RequestProtocols : session = [e \in Endpoints |-> NewSession(p)]
    BY DEF Init
  <1>2. p \in Protocols /\ NewSession(p) \in Sessions
    BY ConstantsAssumption, NewSessionType
  <1>3. TypeOK
    BY <1>1, <1>2, UnboundType DEF Init, TypeOK
  <1>4. ASSUME NEW e \in Endpoints PROVE HoldsFirst(e)
    BY <1>1, PeerType DEF Init, HoldsFirst, FirstOf, Recordable, None, NewSession
  <1>5. AssociationLags /\ OneProtocol
    BY <1>1 DEF Init, AssociationLags, OneProtocol, Lags, Unbound, NewSession, Endpoints
  <1> QED
    BY <1>3, <1>4, <1>5 DEF Inv

\* Advertising.
LEMMA SendSettingsKeepsInv ==
  ASSUME Inv, NEW e \in Endpoints, NEW v \in WireSettings, SendSettings(e, v)
  PROVE  Inv'
  <1>1. /\ settings' = [settings EXCEPT ![e] = Append(settings[e], v)]
        /\ UNCHANGED <<session, fields, settingsNoted, settingsHeard, fieldsNoted,
                       fieldsHeard, association>>
    BY DEF SendSettings
  <1>2. \A f \in Endpoints : settings[f] \in Seq(WireSettings)
    BY DEF Inv, TypeOK
  <1>3. settings' \in [Endpoints -> Seq(WireSettings)]
    BY <1>1, <1>2, AppendKeepsFirst DEF Inv, TypeOK
  <1>4. ASSUME NEW f \in Endpoints, NEW n \in Nat, n <= Len(settings[f])
        PROVE  n <= Len(settings'[f]) /\ FirstOf(settings'[f], n) = FirstOf(settings[f], n)
    <2>1. CASE f = e
      <3>1. settings'[f] = Append(settings[f], v)
        BY <1>1, <2>1 DEF Inv, TypeOK
      <3> QED
        BY <1>2, <1>4, <3>1, AppendKeepsFirst
    <2>2. CASE f # e
      BY <1>1, <1>4, <2>2 DEF Inv, TypeOK
    <2> QED
      BY <2>1, <2>2
  <1>5. ASSUME NEW f \in Endpoints PROVE HoldsFirst(f)'
    <2>1. HoldsFirst(f) /\ Peer(f) \in Endpoints /\ settingsNoted[f] \in Nat
          /\ settingsHeard[f] \in Nat
      BY PeerType DEF Inv, TypeOK
    <2>2. FirstOf(settings'[f], settingsNoted[f]) = FirstOf(settings[f], settingsNoted[f])
          /\ settingsNoted[f] <= Len(settings'[f])
      BY <1>4, <2>1 DEF HoldsFirst
    <2>3. FirstOf(settings'[Peer(f)], settingsHeard[f])
            = FirstOf(settings[Peer(f)], settingsHeard[f])
          /\ settingsHeard[f] <= Len(settings'[Peer(f)])
      BY <1>4, <2>1 DEF HoldsFirst
    <2> QED
      BY <1>1, <2>1, <2>2, <2>3 DEF HoldsFirst
  <1> QED
    BY <1>1, <1>3, <1>5 DEF Inv, TypeOK, AssociationLags, OneProtocol

LEMMA SendFieldKeepsInv ==
  ASSUME Inv, NEW e \in Endpoints, NEW v \in CapsuleProtocolValues, SendField(e, v)
  PROVE  Inv'
  <1>1. /\ fields' = [fields EXCEPT ![e] = Append(fields[e], v)]
        /\ UNCHANGED <<session, settings, settingsNoted, settingsHeard, fieldsNoted,
                       fieldsHeard, association>>
    BY DEF SendField
  <1>2. \A f \in Endpoints : fields[f] \in Seq(CapsuleProtocolValues)
    BY DEF Inv, TypeOK
  <1>3. fields' \in [Endpoints -> Seq(CapsuleProtocolValues)]
    BY <1>1, <1>2, AppendKeepsFirst DEF Inv, TypeOK
  <1>4. ASSUME NEW f \in Endpoints, NEW n \in Nat, n <= Len(fields[f])
        PROVE  n <= Len(fields'[f]) /\ FirstOf(fields'[f], n) = FirstOf(fields[f], n)
    <2>1. CASE f = e
      <3>1. fields'[f] = Append(fields[f], v)
        BY <1>1, <2>1 DEF Inv, TypeOK
      <3> QED
        BY <1>2, <1>4, <3>1, AppendKeepsFirst
    <2>2. CASE f # e
      BY <1>1, <1>4, <2>2 DEF Inv, TypeOK
    <2> QED
      BY <2>1, <2>2
  <1>5. ASSUME NEW f \in Endpoints PROVE HoldsFirst(f)'
    <2>1. HoldsFirst(f) /\ Peer(f) \in Endpoints /\ fieldsNoted[f] \in Nat
          /\ fieldsHeard[f] \in Nat
      BY PeerType DEF Inv, TypeOK
    <2>2. FirstOf(fields'[f], fieldsNoted[f]) = FirstOf(fields[f], fieldsNoted[f])
          /\ fieldsNoted[f] <= Len(fields'[f])
      BY <1>4, <2>1 DEF HoldsFirst
    <2>3. FirstOf(fields'[Peer(f)], fieldsHeard[f]) = FirstOf(fields[Peer(f)], fieldsHeard[f])
          /\ fieldsHeard[f] <= Len(fields'[Peer(f)])
      BY <1>4, <2>1 DEF HoldsFirst
    <2> QED
      BY <1>1, <2>1, <2>2, <2>3 DEF HoldsFirst
  <1> QED
    BY <1>1, <1>3, <1>5 DEF Inv, TypeOK, AssociationLags, OneProtocol

\* Recording.
LEMMA NoteSettingsKeepsInv ==
  ASSUME Inv, NEW e \in Endpoints, NoteSettings(e)
  PROVE  Inv' /\ Touches(e)
  <1> DEFINE n == settingsNoted[e]
             v == Recordable(settings[e][n + 1])
             s == set_local_h3_datagram(session[e], v)
  <1>1. /\ n < Len(settings[e]) /\ v \in H3DatagramValues
        /\ session' = [session EXCEPT ![e] = s]
        /\ settingsNoted' = [settingsNoted EXCEPT ![e] = n + 1]
        /\ UNCHANGED <<settings, fields, settingsHeard, fieldsNoted, fieldsHeard, association>>
    BY DEF NoteSettings, ValidSetting, sent, Advance
  <1>2. session[e] \in Sessions /\ n \in Nat /\ settings[e] \in Seq(WireSettings)
    BY DEF Inv, TypeOK
  <1>3. s \in Sessions /\ Lags(session[e], s)
    BY <1>1, <1>2, SettersGrow
  <1>4. /\ s.protocol = session[e].protocol
        /\ s.local_h3_datagram = Once(session[e].local_h3_datagram, v)
        /\ s.peer_h3_datagram = session[e].peer_h3_datagram
        /\ s.local_capsule_protocol = session[e].local_capsule_protocol
        /\ s.peer_capsule_protocol = session[e].peer_capsule_protocol
    BY <1>2 DEF set_local_h3_datagram, Sessions
  <1>5. s.local_h3_datagram = Recordable(FirstOf(settings[e], n + 1))
    BY <1>1, <1>2, <1>4, OnceIsFirstRecordable DEF Inv, HoldsFirst
  <1> HIDE DEF s, v
  <1>6. session' \in [Endpoints -> Sessions] /\ AssociationLags' /\ OneProtocol'
    BY <1>1, <1>3, <1>4, RecordingKeepsLags
  <1>7. TypeOK'
    <2>1. settingsNoted' \in [Endpoints -> Nat]
      BY <1>1, <1>2 DEF Inv, TypeOK
    <2> QED
      BY <1>1, <1>6, <2>1 DEF Inv, TypeOK
  <1>8. HoldsFirst(e)'
    BY <1>1, <1>2, <1>4, <1>5 DEF Inv, TypeOK, HoldsFirst
  <1>9. ASSUME NEW f \in Endpoints, f # e PROVE HoldsFirst(f)'
    BY <1>1, <1>9 DEF Inv, TypeOK, HoldsFirst
  <1>10. Touches(e)
    BY <1>1, <1>3, <1>4 DEF Inv, TypeOK, Touches
  <1> QED
    BY <1>6, <1>7, <1>8, <1>9, <1>10 DEF Inv

LEMMA HearSettingsKeepsInv ==
  ASSUME Inv, NEW e \in Endpoints, HearSettings(e)
  PROVE  Inv' /\ Touches(e)
  <1> DEFINE n == settingsHeard[e]
             v == Recordable(settings[Peer(e)][n + 1])
             s == negotiate_peer_h3_datagram(session[e], v)
  <1>1. /\ n < Len(settings[Peer(e)]) /\ v \in H3DatagramValues
        /\ session' = [session EXCEPT ![e] = s]
        /\ settingsHeard' = [settingsHeard EXCEPT ![e] = n + 1]
        /\ UNCHANGED <<settings, fields, settingsNoted, fieldsNoted, fieldsHeard, association>>
    BY DEF HearSettings, ValidSetting, sent, Advance
  <1>2. session[e] \in Sessions /\ n \in Nat /\ settings[Peer(e)] \in Seq(WireSettings)
    BY PeerType DEF Inv, TypeOK
  <1>3. s \in Sessions /\ Lags(session[e], s)
    BY <1>1, <1>2, SettersGrow
  <1>4. /\ s.protocol = session[e].protocol
        /\ s.peer_h3_datagram = Once(session[e].peer_h3_datagram, v)
        /\ s.local_h3_datagram = session[e].local_h3_datagram
        /\ s.local_capsule_protocol = session[e].local_capsule_protocol
        /\ s.peer_capsule_protocol = session[e].peer_capsule_protocol
    BY <1>2 DEF negotiate_peer_h3_datagram, Sessions
  <1>5. s.peer_h3_datagram = Recordable(FirstOf(settings[Peer(e)], n + 1))
    BY <1>1, <1>2, <1>4, OnceIsFirstRecordable DEF Inv, HoldsFirst
  <1> HIDE DEF s, v
  <1>6. session' \in [Endpoints -> Sessions] /\ AssociationLags' /\ OneProtocol'
    BY <1>1, <1>3, <1>4, RecordingKeepsLags
  <1>7. TypeOK'
    <2>1. settingsHeard' \in [Endpoints -> Nat]
      BY SMTT(40), <1>1, <1>2 DEF Inv, TypeOK
    <2> QED
      BY <1>1, <1>6, <2>1 DEF Inv, TypeOK
  <1>8. HoldsFirst(e)'
    BY <1>1, <1>2, <1>4, <1>5 DEF Inv, TypeOK, HoldsFirst
  <1>9. ASSUME NEW f \in Endpoints, f # e PROVE HoldsFirst(f)'
    BY <1>1, <1>9 DEF Inv, TypeOK, HoldsFirst
  <1>10. Touches(e)
    BY <1>1, <1>3, <1>4 DEF Inv, TypeOK, Touches
  <1> QED
    BY <1>6, <1>7, <1>8, <1>9, <1>10 DEF Inv

LEMMA NoteFieldKeepsInv ==
  ASSUME Inv, NEW e \in Endpoints, NoteField(e)
  PROVE  Inv' /\ Touches(e)
  <1> DEFINE n == fieldsNoted[e]
             v == fields[e][n + 1]
             s == set_local_capsule_protocol(session[e], v)
  <1>1. /\ n < Len(fields[e])
        /\ session' = [session EXCEPT ![e] = s]
        /\ fieldsNoted' = [fieldsNoted EXCEPT ![e] = n + 1]
        /\ UNCHANGED <<settings, fields, settingsNoted, settingsHeard, fieldsHeard, association>>
    BY DEF NoteField, sent, Advance
  <1>2. session[e] \in Sessions /\ n \in Nat /\ fields[e] \in Seq(CapsuleProtocolValues)
    BY PeerType DEF Inv, TypeOK
  <1>3. s \in Sessions /\ Lags(session[e], s)
    BY <1>1, <1>2, SettersGrow
  <1>4. /\ s.protocol = session[e].protocol
        /\ s.local_capsule_protocol = Once(session[e].local_capsule_protocol, v)
        /\ s.local_h3_datagram = session[e].local_h3_datagram
        /\ s.peer_h3_datagram = session[e].peer_h3_datagram
        /\ s.peer_capsule_protocol = session[e].peer_capsule_protocol
    BY <1>2 DEF set_local_capsule_protocol, Sessions
  <1>5. s.local_capsule_protocol = FirstOf(fields[e], n + 1)
    BY ZenonT(40), <1>1, <1>2, <1>4, OnceIsFirst DEF Inv, HoldsFirst, None, CapsuleProtocolValues
  <1> HIDE DEF s, v
  <1>6. session' \in [Endpoints -> Sessions] /\ AssociationLags' /\ OneProtocol'
    BY <1>1, <1>3, <1>4, RecordingKeepsLags
  <1>7. TypeOK'
    <2>1. fieldsNoted' \in [Endpoints -> Nat]
      BY <1>1, <1>2 DEF Inv, TypeOK
    <2> QED
      BY <1>1, <1>6, <2>1 DEF Inv, TypeOK
  <1>8. HoldsFirst(e)'
    BY <1>1, <1>2, <1>4, <1>5 DEF Inv, TypeOK, HoldsFirst
  <1>9. ASSUME NEW f \in Endpoints, f # e PROVE HoldsFirst(f)'
    BY <1>1, <1>9 DEF Inv, TypeOK, HoldsFirst
  <1>10. Touches(e)
    BY <1>1, <1>3, <1>4 DEF Inv, TypeOK, Touches
  <1> QED
    BY <1>6, <1>7, <1>8, <1>9, <1>10 DEF Inv

LEMMA HearFieldKeepsInv ==
  ASSUME Inv, NEW e \in Endpoints, HearField(e)
  PROVE  Inv' /\ Touches(e)
  <1> DEFINE n == fieldsHeard[e]
             v == fields[Peer(e)][n + 1]
             s == negotiate_peer_capsule_protocol(session[e], v)
  <1>1. /\ n < Len(fields[Peer(e)])
        /\ session' = [session EXCEPT ![e] = s]
        /\ fieldsHeard' = [fieldsHeard EXCEPT ![e] = n + 1]
        /\ UNCHANGED <<settings, fields, settingsNoted, settingsHeard, fieldsNoted, association>>
    BY DEF HearField, sent, Advance
  <1>2. session[e] \in Sessions /\ n \in Nat /\ fields[Peer(e)] \in Seq(CapsuleProtocolValues)
    BY PeerType DEF Inv, TypeOK
  <1>3. s \in Sessions /\ Lags(session[e], s)
    BY <1>1, <1>2, SettersGrow
  <1>4. /\ s.protocol = session[e].protocol
        /\ s.peer_capsule_protocol = Once(session[e].peer_capsule_protocol, v)
        /\ s.local_h3_datagram = session[e].local_h3_datagram
        /\ s.peer_h3_datagram = session[e].peer_h3_datagram
        /\ s.local_capsule_protocol = session[e].local_capsule_protocol
    BY <1>2 DEF negotiate_peer_capsule_protocol, Sessions
  <1>5. s.peer_capsule_protocol = FirstOf(fields[Peer(e)], n + 1)
    BY <1>1, <1>2, <1>4, OnceIsFirst DEF Inv, HoldsFirst, None, CapsuleProtocolValues
  <1> HIDE DEF s, v
  <1>6. session' \in [Endpoints -> Sessions] /\ AssociationLags' /\ OneProtocol'
    BY <1>1, <1>3, <1>4, RecordingKeepsLags
  <1>7. TypeOK'
    <2>1. fieldsHeard' \in [Endpoints -> Nat]
      BY <1>1, <1>2 DEF Inv, TypeOK
    <2> QED
      BY <1>1, <1>6, <2>1 DEF Inv, TypeOK
  <1>8. HoldsFirst(e)'
    BY <1>1, <1>2, <1>4, <1>5 DEF Inv, TypeOK, HoldsFirst
  <1>9. ASSUME NEW f \in Endpoints, f # e PROVE HoldsFirst(f)'
    BY <1>1, <1>9 DEF Inv, TypeOK, HoldsFirst
  <1>10. Touches(e)
    BY <1>1, <1>3, <1>4 DEF Inv, TypeOK, Touches
  <1> QED
    BY <1>6, <1>7, <1>8, <1>9, <1>10 DEF Inv

\* UdpAssociation::bind takes what the session holds at that moment.
LEMMA BindKeepsInv ==
  ASSUME Inv, NEW e \in Endpoints, Bind(e)
  PROVE  Inv'
  <1>1. /\ session[e].protocol = "connect-udp"
        /\ association' = [association EXCEPT ![e] = session[e]]
        /\ UNCHANGED <<session, settings, fields, settingsNoted, settingsHeard, fieldsNoted,
                       fieldsHeard>>
    BY DEF Bind, sent
  <1>2. TypeOK'
    BY <1>1 DEF Inv, TypeOK
  <1>3. AssociationLags'
    BY <1>1 DEF Inv, TypeOK, AssociationLags, Lags
  <1> QED
    BY <1>1, <1>2, <1>3 DEF Inv, HoldsFirst, OneProtocol

LEMMA StepInv == Inv /\ [Next]_vars => Inv'
  <1> SUFFICES ASSUME Inv, [Next]_vars PROVE Inv'
    OBVIOUS
  <1>1. CASE UNCHANGED vars
    BY <1>1 DEF vars, Inv, TypeOK, HoldsFirst, AssociationLags, OneProtocol
  <1>2. ASSUME NEW e \in Endpoints, \E v \in WireSettings : SendSettings(e, v) PROVE Inv'
    BY <1>2, SendSettingsKeepsInv
  <1>3. ASSUME NEW e \in Endpoints, \E v \in CapsuleProtocolValues : SendField(e, v) PROVE Inv'
    BY <1>3, SendFieldKeepsInv
  <1>4. ASSUME NEW e \in Endpoints,
               NoteSettings(e) \/ HearSettings(e) \/ NoteField(e) \/ HearField(e)
        PROVE  Inv'
    BY <1>4, NoteSettingsKeepsInv, HearSettingsKeepsInv, NoteFieldKeepsInv, HearFieldKeepsInv
  <1>5. ASSUME NEW e \in Endpoints, Bind(e) PROVE Inv'
    BY <1>5, BindKeepsInv
  <1> QED
    BY <1>1, <1>2, <1>3, <1>4, <1>5 DEF Next

LEMMA AlwaysInv == Spec => []Inv
  BY InitInv, StepInv, PTL DEF Spec
-----------------------------------------------------------------------------
(* Safety.                                                                  *)

\* An end that selects a carrier has recorded both settings, and so has the
\* other end if it selects one: they decide on the same two values.
LEMMA InvAgrees == Inv => CarrierAgreement
  <1> SUFFICES ASSUME Inv, NEW e \in Endpoints, NEW f \in Endpoints,
                      Carrier(e) = "H3Datagram", Carrier(f) = "DatagramCapsule"
               PROVE  FALSE
    BY DEF CarrierAgreement, Carriers
  <1>1. session[e].local_h3_datagram = "enabled" /\ session[e].peer_h3_datagram = "enabled"
    BY DEF Carrier, select_udp_carrier, is_h3_datagram_enabled, is_datagram_capsule_enabled
  <1>2. /\ session[f].local_h3_datagram # None /\ session[f].peer_h3_datagram # None
        /\ ~(session[f].local_h3_datagram = "enabled" /\ session[f].peer_h3_datagram = "enabled")
    BY DEF Carrier, select_udp_carrier, is_h3_datagram_enabled, is_datagram_capsule_enabled,
           h3_finalized
  <1>3. HoldsFirst(e) /\ HoldsFirst(f)
    BY DEF Inv
  <1>4. /\ Recordable(settings[e][1]) = "enabled"
        /\ Recordable(settings[Peer(e)][1]) = "enabled"
    BY <1>1, <1>3 DEF HoldsFirst, FirstOf, Recordable, None
  <1>5. /\ session[f].local_h3_datagram = Recordable(settings[f][1])
        /\ session[f].peer_h3_datagram = Recordable(settings[Peer(f)][1])
    BY <1>2, <1>3 DEF HoldsFirst, FirstOf, Recordable, None
  <1>6. f = e \/ (f = Peer(e) /\ Peer(f) = e)
    BY DEF Endpoints, Peer
  <1> QED
    BY <1>2, <1>4, <1>5, <1>6

\* The two ends of a request never send UDP payloads on different carriers.
THEOREM CarriersAgree == Spec => []CarrierAgreement
  BY InvAgrees, AlwaysInv, PTL

\* A session selects what a session it lags behind selects, or nothing.
LEMMA LaggingCarrier ==
  ASSUME NEW old, NEW new, Lags(old, new)
  PROVE  /\ is_h3_datagram_enabled(old) => is_h3_datagram_enabled(new)
         /\ is_datagram_capsule_enabled(old) =>
              is_datagram_capsule_enabled(new) /\ ~is_h3_datagram_enabled(new)
  BY DEF Lags, is_h3_datagram_enabled, is_datagram_capsule_enabled, h3_finalized, None

\* An association never uses a carrier other than its request's, though the
\* session it was bound with may lag behind.
THEOREM AssociationsAgree == Spec => []AssociationAgrees
  <1>1. Inv => AssociationAgrees
    <2> SUFFICES ASSUME Inv, NEW e \in Endpoints
                 PROVE  /\ is_h3_datagram_enabled(association[e]) => Carrier(e) = "H3Datagram"
                        /\ is_datagram_capsule_enabled(association[e])
                             => Carrier(e) = "DatagramCapsule"
      BY DEF AssociationAgrees
    <2>1. Lags(association[e], session[e])
      BY DEF Inv, AssociationLags
    <2>2. CASE association[e] = Unbound
      BY <2>2 DEF Unbound, NewSession, is_h3_datagram_enabled, is_datagram_capsule_enabled,
                  h3_finalized, None
    <2>3. CASE session[e].protocol = "connect-udp"
      BY <2>1, <2>3, LaggingCarrier DEF Carrier, select_udp_carrier
    <2> QED
      BY <2>2, <2>3 DEF Inv, AssociationLags
  <1> QED
    BY <1>1, AlwaysInv, PTL
-----------------------------------------------------------------------------
(* Negotiation implements CarrierChoice.                                    *)

LEMMA OneSessionGrows == Inv /\ Next => \E e \in Endpoints : Touches(e)
  <1> SUFFICES ASSUME Inv, Next PROVE \E e \in Endpoints : Touches(e)
    OBVIOUS
  <1>1. ASSUME NEW e \in Endpoints,
               NoteSettings(e) \/ HearSettings(e) \/ NoteField(e) \/ HearField(e)
        PROVE  Touches(e)
    BY <1>1, NoteSettingsKeepsInv, HearSettingsKeepsInv, NoteFieldKeepsInv, HearFieldKeepsInv
  <1>2. ASSUME NEW e \in Endpoints,
               \/ \E v \in WireSettings : SendSettings(e, v)
               \/ \E v \in CapsuleProtocolValues : SendField(e, v)
               \/ Bind(e)
        PROVE  Touches(e)
    <2>1. session' = session
      BY <1>2 DEF SendSettings, SendField, Bind
    <2> QED
      BY <2>1 DEF Touches, Lags
  <1> QED
    BY <1>1, <1>2 DEF Next

\* A carrier once selected stays selected.
LEMMA CarrierStays ==
  ASSUME NEW s, NEW new, Lags(s, new), new.protocol = s.protocol,
         select_udp_carrier(s) \in Carriers
  PROVE  select_udp_carrier(new) = select_udp_carrier(s)
  BY LaggingCarrier DEF select_udp_carrier, Carriers

LEMMA InitChooses == Init => Choice!Init
  <1> SUFFICES ASSUME Init, NEW e \in Endpoints PROVE Carrier(e) \notin Carriers
    BY DEF Choice!Init, Chosen
  <1>1. PICK p \in RequestProtocols : session = [f \in Endpoints |-> NewSession(p)]
    BY DEF Init
  <1> QED
    BY <1>1 DEF Carrier, select_udp_carrier, NewSession, is_h3_datagram_enabled,
       is_datagram_capsule_enabled, h3_finalized, None, Carriers

\* An end makes up its mind while the other has not, or chose the same.
LEMMA StepChooses == Inv /\ CarrierAgreement' /\ [Next]_vars => [Choice!Next]_Chosen
  <1> SUFFICES ASSUME Inv, CarrierAgreement', Next, Chosen' # Chosen
               PROVE  Choice!Next
    BY DEF vars, Chosen, Carrier
  <1>1. PICK e \in Endpoints : Touches(e)
    BY OneSessionGrows
  <1>2. \A f \in Endpoints \ {e} : Chosen'[f] = Chosen[f]
    BY <1>1 DEF Chosen, Carrier, Touches
  <1>3. Chosen'[e] # Chosen[e]
    BY <1>2 DEF Chosen
  <1>4. Carrier(e) \notin Carriers
    BY <1>1, <1>3, CarrierStays DEF Chosen, Carrier, Touches
  <1>5. Chosen[e] = "Undecided" /\ Chosen'[e] \in Carriers /\ Chosen'[e] = Carrier(e)'
    BY <1>3, <1>4 DEF Chosen
  <1>6. ASSUME NEW f \in Endpoints PROVE Chosen[f] \in {"Undecided", Chosen'[e]}
    <2>1. CASE f = e
      BY <1>5, <2>1
    <2>2. CASE f # e
      <3>1. Chosen[f] = Chosen'[f]
        BY <1>2, <2>2
      <3>2. Chosen'[f] = "Undecided" \/ (Chosen'[f] = Carrier(f)' /\ Carrier(f)' \in Carriers)
        BY DEF Chosen
      <3> QED
        BY <1>5, <3>1, <3>2 DEF CarrierAgreement
    <2> QED
      BY <2>1, <2>2
  <1>7. Chosen' = [Chosen EXCEPT ![e] = Chosen'[e]]
    BY <1>2 DEF Chosen
  <1>8. Choice!Choose(e, Chosen'[e])
    BY <1>5, <1>6, <1>7 DEF Choice!Choose
  <1> QED
    BY <1>5, <1>8 DEF Choice!Next

\* Negotiation implements CarrierChoice: each end makes up its mind once, and no
\* two ends choose differently.
THEOREM ImplementsCarrierChoice == Spec => ChoiceSpec
  <1>1. Inv /\ Inv' /\ [Next]_vars => [Choice!Next]_Chosen
    <2>1. Inv' => CarrierAgreement'
      BY InvAgrees, PTL
    <2> QED
      BY <2>1, StepChooses
  <1> QED
    BY <1>1, InitChooses, AlwaysInv, PTL DEF Spec, ChoiceSpec, Choice!Spec
=============================================================================
