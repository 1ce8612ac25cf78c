---------------------------- MODULE MCUdpTunnel ----------------------------
(* UdpTunnel for TLC. *)
EXTENDS UdpTunnel

Complete == {{}}
Premature == {{}, {"local_h3_datagram"}, {"peer_capsule_protocol"}}
=============================================================================
