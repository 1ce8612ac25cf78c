------------------------------ MODULE Session ------------------------------
(***************************************************************************)
(* Session of src/crates/masque/src/types.rs: what one MASQUE request knows  *)
(* of the capabilities both ends have advertised, and the carrier of UDP     *)
(* payloads it selects from them.                                            *)
(*                                                                          *)
(* The four capabilities are Option values recorded at most once: None, or   *)
(* the value.  A setter applied to a recorded field returns a conflict and   *)
(* leaves the session as it is.                                              *)
(***************************************************************************)

None == "None"

Protocols == {"connect-udp", "connect-ip", "connect-ethernet"}
H3DatagramValues == {"enabled", "disabled"}
CapsuleProtocolValues == {"on", "off"}
Carriers == {"H3Datagram", "DatagramCapsule"}

Sessions ==
  [protocol               : Protocols,
   local_h3_datagram      : H3DatagramValues \cup {None},
   peer_h3_datagram       : H3DatagramValues \cup {None},
   local_capsule_protocol : CapsuleProtocolValues \cup {None},
   peer_capsule_protocol  : CapsuleProtocolValues \cup {None}]

\* H3DatagramSettingValue::new: what a SETTINGS frame carries is a setting
\* value or an error that the caller closes the connection for.
ValidSetting(v) == v \in H3DatagramValues

NewSession(p) ==
  [protocol |-> p, local_h3_datagram |-> None, peer_h3_datagram |-> None,
   local_capsule_protocol |-> None, peer_capsule_protocol |-> None]

\* Mutant of Once: the last value wins.
OnceOverwritten(old, value) == value

\* A field holds the first value recorded in it.  Any later call of its setter,
\* with the same value as with another, is refused as a conflict and leaves the
\* field alone; that error, which no caller here looks at, is not kept.
Once(old, value) == IF old = None THEN value ELSE old

set_local_h3_datagram(s, value) ==
  [s EXCEPT !.local_h3_datagram = Once(@, value)]

negotiate_peer_h3_datagram(s, value) ==
  [s EXCEPT !.peer_h3_datagram = Once(@, value)]

set_local_capsule_protocol(s, value) ==
  [s EXCEPT !.local_capsule_protocol = Once(@, value)]

negotiate_peer_capsule_protocol(s, value) ==
  [s EXCEPT !.peer_capsule_protocol = Once(@, value)]

is_h3_datagram_enabled(s) ==
  s.local_h3_datagram = "enabled" /\ s.peer_h3_datagram = "enabled"

h3_finalized(s) == s.local_h3_datagram # None /\ s.peer_h3_datagram # None

\* Mutant of is_datagram_capsule_enabled: it does not wait for both SETTINGS.
is_datagram_capsule_enabled_early(s) ==
  /\ ~is_h3_datagram_enabled(s)
  /\ s.local_capsule_protocol = "on"
  /\ s.peer_capsule_protocol = "on"

is_datagram_capsule_enabled(s) ==
  /\ h3_finalized(s)
  /\ ~is_h3_datagram_enabled(s)
  /\ s.local_capsule_protocol = "on"
  /\ s.peer_capsule_protocol = "on"

\* The carrier, or the kind of the error returned instead of one.
select_udp_carrier(s) ==
  IF s.protocol # "connect-udp" THEN "InvalidConfig"
  ELSE IF is_h3_datagram_enabled(s) THEN "H3Datagram"
  ELSE IF is_datagram_capsule_enabled(s) THEN "DatagramCapsule"
  ELSE "NotNegotiated"
=============================================================================
