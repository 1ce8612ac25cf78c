---------------------------- MODULE Negotiation ----------------------------
(***************************************************************************)
(* The two ends of one MASQUE request agree on a UDP carrier.  Each end has  *)
(* a Session (module Session); the application around it sends HTTP/3        *)
(* SETTINGS and the Capsule-Protocol field, and records in the Session what  *)
(* it has sent and what it has received.  SETTINGS travel on the control     *)
(* stream and fields on the request stream, two QUIC streams: each is in     *)
(* order, neither waits for the other, and an end may record its own         *)
(* advertisement long after the peer has acted on it.                        *)
(*                                                                          *)
(* A peer may repeat an advertisement with another value.  The repeat is     *)
(* refused as a conflict on both ends, so the first value must win on both.  *)
(*                                                                          *)
(* An association (UdpAssociation::bind) copies the session when it is       *)
(* bound, at any moment of all this.                                         *)
(***************************************************************************)
EXTENDS Integers, Sequences, Session

CONSTANTS
  RequestProtocols,  (* the protocols a request may be for                *)
  WireSettings,      (* what a SETTINGS frame may carry                   *)
  Binders,           (* the ends that bind an association, once each      *)
  MaxSettings,       (* bound per end: SETTINGS values it advertises         *)
  MaxFields          (* bound per end: Capsule-Protocol values it advertises *)

Endpoints == {"client", "proxy"}

ASSUME ConstantsAssumption ==
  /\ RequestProtocols \subseteq Protocols
  /\ WireSettings \subseteq {"enabled", "disabled", "absent", "invalid"}
  /\ Binders \subseteq Endpoints
  /\ MaxSettings \in [Endpoints -> Nat] /\ MaxFields \in [Endpoints -> Nat]

Peer(e) == IF e = "client" THEN "proxy" ELSE "client"

VARIABLES
  session,        (* per endpoint: its Session                                 *)
  settings,       (* per endpoint: SETTINGS_H3_DATAGRAM values it has sent      *)
  fields,         (* per endpoint: Capsule-Protocol values it has sent          *)
  settingsNoted,  (* per endpoint: how many of its own settings it has recorded *)
  settingsHeard,  (* per endpoint: how many of its peer's                       *)
  fieldsNoted,    (* per endpoint: how many of its own fields                   *)
  fieldsHeard,    (* per endpoint: how many of its peer's                       *)
  association     (* per endpoint: the session its association was bound with   *)

sent == <<settings, fields>>
vars == <<session, settings, fields, settingsNoted, settingsHeard,
          fieldsNoted, fieldsHeard, association>>

\* An end with no association yet, or with one bound before anything was
\* recorded: such an association uses no carrier either.
Unbound == NewSession("connect-udp")

\* Mutant of Recordable: an absent setting is left unrecorded.
RecordableIfSent(v) == IF v = "absent" THEN None ELSE v

\* An absent SETTINGS_H3_DATAGRAM is recorded as DISABLED once the frame is in,
\* as is_datagram_capsule_enabled asks of its callers.
Recordable(v) == IF v = "absent" THEN "disabled" ELSE v

Advance(f, e) == [f EXCEPT ![e] = @ + 1]
-----------------------------------------------------------------------------
Init ==
  /\ \E p \in RequestProtocols : session = [e \in Endpoints |-> NewSession(p)]
  /\ settings = [e \in Endpoints |-> <<>>]
  /\ fields = [e \in Endpoints |-> <<>>]
  /\ settingsNoted = [e \in Endpoints |-> 0]
  /\ settingsHeard = [e \in Endpoints |-> 0]
  /\ fieldsNoted = [e \in Endpoints |-> 0]
  /\ fieldsHeard = [e \in Endpoints |-> 0]
  /\ association = [e \in Endpoints |-> Unbound]

SendSettings(e, v) ==
  /\ Len(settings[e]) < MaxSettings[e]
  /\ settings' = [settings EXCEPT ![e] = Append(@, v)]
  /\ UNCHANGED <<session, fields, settingsNoted, settingsHeard, fieldsNoted,
                 fieldsHeard, association>>

\* The proxy's field is in its response, so it follows the client's request.
SendField(e, v) ==
  /\ Len(fields[e]) < MaxFields[e]
  /\ e = "proxy" => fieldsHeard["proxy"] > 0
  /\ fields' = [fields EXCEPT ![e] = Append(@, v)]
  /\ UNCHANGED <<session, settings, settingsNoted, settingsHeard, fieldsNoted,
                 fieldsHeard, association>>

NoteSettings(e) ==
  /\ settingsNoted[e] < Len(settings[e])
  /\ LET v == Recordable(settings[e][settingsNoted[e] + 1]) IN
       /\ ValidSetting(v)
       /\ session' = [session EXCEPT ![e] = set_local_h3_datagram(@, v)]
  /\ settingsNoted' = Advance(settingsNoted, e)
  /\ UNCHANGED <<sent, settingsHeard, fieldsNoted, fieldsHeard, association>>

HearSettings(e) ==
  /\ settingsHeard[e] < Len(settings[Peer(e)])
  /\ LET v == Recordable(settings[Peer(e)][settingsHeard[e] + 1]) IN
       /\ ValidSetting(v)
       /\ session' = [session EXCEPT ![e] = negotiate_peer_h3_datagram(@, v)]
  /\ settingsHeard' = Advance(settingsHeard, e)
  /\ UNCHANGED <<sent, settingsNoted, fieldsNoted, fieldsHeard, association>>

NoteField(e) ==
  /\ fieldsNoted[e] < Len(fields[e])
  /\ session' = [session EXCEPT ![e] =
       set_local_capsule_protocol(@, fields[e][fieldsNoted[e] + 1])]
  /\ fieldsNoted' = Advance(fieldsNoted, e)
  /\ UNCHANGED <<sent, settingsNoted, settingsHeard, fieldsHeard, association>>

HearField(e) ==
  /\ fieldsHeard[e] < Len(fields[Peer(e)])
  /\ session' = [session EXCEPT ![e] =
       negotiate_peer_capsule_protocol(@, fields[Peer(e)][fieldsHeard[e] + 1])]
  /\ fieldsHeard' = Advance(fieldsHeard, e)
  /\ UNCHANGED <<sent, settingsNoted, settingsHeard, fieldsNoted, association>>

\* UdpAssociation::bind: only the protocol is checked, not that the
\* negotiation is over; the association keeps its own copy of the session.
Bind(e) ==
  /\ e \in Binders
  /\ association[e] = Unbound
  /\ session[e].protocol = "connect-udp"
  /\ association' = [association EXCEPT ![e] = session[e]]
  /\ UNCHANGED <<session, sent, settingsNoted, settingsHeard, fieldsNoted, fieldsHeard>>

Next ==
  \E e \in Endpoints :
    \/ \E v \in WireSettings : SendSettings(e, v)
    \/ \E v \in CapsuleProtocolValues : SendField(e, v)
    \/ NoteSettings(e)
    \/ HearSettings(e)
    \/ NoteField(e)
    \/ HearField(e)
    \/ Bind(e)

Spec == Init /\ [][Next]_vars

\* The application's duty, in the words of is_datagram_capsule_enabled: it
\* finalizes the exchange by recording every advertised value.
FairSpec ==
  /\ Spec
  /\ \A e \in Endpoints :
       /\ WF_vars(NoteSettings(e))
       /\ WF_vars(HearSettings(e))
       /\ WF_vars(NoteField(e))
       /\ WF_vars(HearField(e))
-----------------------------------------------------------------------------
(* Properties.                                                              *)

Carrier(e) == select_udp_carrier(session[e])

\* Whatever the order in which SETTINGS and fields are sent, heard and
\* recorded, and however often a peer repeats itself, the two ends never send
\* UDP payloads on different carriers (select_udp_carrier on both sides).
CarrierAgreement ==
  \A e, f \in Endpoints :
    Carrier(e) \in Carriers /\ Carrier(f) \in Carriers => Carrier(e) = Carrier(f)

\* The copy of the session an association keeps may lag behind, but it never
\* uses a carrier other than the request's (the guards of encode_h3_datagram
\* and encode_datagram_capsule read the copy).
AssociationAgrees ==
  \A e \in Endpoints :
    /\ is_h3_datagram_enabled(association[e]) => Carrier(e) = "H3Datagram"
    /\ is_datagram_capsule_enabled(association[e]) => Carrier(e) = "DatagramCapsule"

\* The carrier the first advertisements of both ends call for.
Agreed ==
  LET first(e) == Recordable(settings[e][1]) IN
  IF \A e \in Endpoints : first(e) = "enabled" THEN "H3Datagram" ELSE "DatagramCapsule"

Advertised ==
  /\ \A e \in Endpoints : session[e].protocol = "connect-udp"
  /\ \A e \in Endpoints : settings[e] # <<>> /\ settings[e][1] # "invalid"
  /\ \A e \in Endpoints : fields[e] # <<>> /\ fields[e][1] = "on"

\* Once both ends have sent SETTINGS, with or without the setting, and
\* Capsule-Protocol: ?1, both end up on the carrier those call for.
CarrierConverges ==
  Advertised ~> (Advertised /\ \A e \in Endpoints : Carrier(e) = Agreed)

\* CarrierChoice is what the negotiation promises.
Chosen == [e \in Endpoints |-> IF Carrier(e) \in Carriers THEN Carrier(e) ELSE "Undecided"]

Choice == INSTANCE CarrierChoice WITH chosen <- Chosen, Undecided <- "Undecided"
ChoiceSpec == Choice!Spec
=============================================================================
