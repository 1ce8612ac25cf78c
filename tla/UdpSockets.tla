----------------------------- MODULE UdpSockets -----------------------------
(***************************************************************************)
(* Where UdpTunnel abstracts from sockets: the one that a UdpAssociation     *)
(* owns, from bind to close, and the programs of examples/ at the other end  *)
(* of the network, udp_echo_server, and beside it, udp_echo_client and the   *)
(* stub connect_udp_proxy.  The network loses, duplicates and reorders.      *)
(*                                                                          *)
(* The caller runs a task that receives and a task that closes.  recv        *)
(* borrows the association while it waits, close needs it exclusively, so    *)
(* the one that closes has to cancel the other.  A local port is free again  *)
(* once its socket is dropped, and may be the next one's: what was sent to   *)
(* its last owner is then still on its way.                                  *)
(***************************************************************************)
EXTENDS Errors, FiniteSets

CONSTANTS
  Assocs,           (* associations, all with the echo server as target     *)
  Ports,            (* the local ports there are                            *)
  Payloads,         (* what is sent, sequences of bytes                     *)
  MAX_UDP_PAYLOAD,  (* greatest payload, and size of the buffers (65527)    *)
  MAX_VARINT,       (* greatest association id (2^62 - 1)                   *)
  MaxInFlight       (* bound: different datagrams on the network            *)

ASSUME SocketsAssumption ==
  /\ IsFiniteSet(Assocs) /\ {"nobody", "client"} \cap Assocs = {}
  /\ IsFiniteSet(Ports) /\ Ports # {}
  /\ Payloads \subseteq Seq(Nat)
  /\ {MAX_UDP_PAYLOAD, MAX_VARINT, MaxInFlight} \subseteq Nat

VARIABLES
  owner,    (* kernel: whose socket has a port, or "nobody"                 *)
  phase,    (* per association: "none", "bound" (in bind), "open", "closed" *)
            (* or "failed"                                                  *)
  port,     (* the port it was given                                        *)
  waiting,  (* whether a recv is in progress                                *)
  closing,  (* whether the caller wants to close it                         *)
  returned, (* what its last call returned                                  *)
  error,    (* kernel: whether its socket has an error to report            *)
  net,      (* the datagrams on the network                                 *)
  sent,     (* history: what was sent to the server, and from which port    *)
  server,   (* the echo server: "down", "receiving" or "echoing"            *)
  buffer,   (* its buffer, used for every datagram                          *)
  peer,     (* the size of the datagram in the buffer, and its sender       *)
  program,  (* one of the programs: "new", "waiting" (the client), "exited" *)
  exit      (* what it has ended with                                       *)

assocVars == <<phase, port, waiting, closing, returned>>
serverVars == <<server, buffer, peer>>
programVars == <<program, exit>>
vars == <<owner, assocVars, error, net, sent, serverVars, programVars>>

Nothing == Ok(<<>>)

Init ==
  /\ owner = [p \in Ports |-> "nobody"]
  /\ phase = [a \in Assocs |-> "none"]
  /\ port = [a \in Assocs |-> CHOOSE p \in Ports : TRUE]
  /\ waiting = [a \in Assocs |-> FALSE]
  /\ closing = [a \in Assocs |-> FALSE]
  /\ returned = [a \in Assocs |-> Nothing]
  /\ error = [a \in Assocs |-> FALSE]
  /\ net = {} /\ sent = {}
  /\ server = "down" /\ peer = [size |-> 0, port |-> CHOOSE p \in Ports : TRUE]
  /\ buffer = [i \in 1 .. MAX_UDP_PAYLOAD |-> 0]
  /\ program = "new"
  /\ exit = Nothing

Free(p) == owner' = [owner EXCEPT ![p] = "nobody"]

Datagram(to, p, payload) == [to |-> to, port |-> p, payload |-> payload]

\* The network takes a datagram, or loses it.
Transmit(d) ==
  \/ net' = net
  \/ Cardinality(net) < MaxInFlight /\ net' = net \cup {d}

\* A datagram that is delivered may be delivered again.
Deliver(d) == d \in net /\ net' \in {net, net \ {d}}
-----------------------------------------------------------------------------
(* UdpAssociation. *)

\* AssociationId::new.
AssociationId(value) ==
  IF value > MAX_VARINT
  THEN Err(<<[variant |-> "InvalidAssociationId", value |-> value, max |-> MAX_VARINT]>>)
  ELSE Ok(value)

Returns(a, outcome) == returned' = [returned EXCEPT ![a] = outcome]

Fails(a, kind) ==
  /\ phase' = [phase EXCEPT ![a] = "failed"]
  /\ Returns(a, Err(transport_error(kind, <<kind>>, Foreign("os error"))))

\* UdpSocket::bind in bind, for a caller with the id it needs.
Bind(a, id) ==
  /\ phase[a] = "none"
  /\ IF ~AssociationId(id).ok
     THEN Returns(a, AssociationId(id)) /\ UNCHANGED <<owner, phase, port>>
     ELSE \/ \E p \in Ports :
               /\ owner[p] = "nobody"
               /\ owner' = [owner EXCEPT ![p] = a]
               /\ phase' = [phase EXCEPT ![a] = "bound"]
               /\ port' = [port EXCEPT ![a] = p]
               /\ UNCHANGED returned
          \/ Fails(a, "UdpBind") /\ UNCHANGED <<owner, port>>
  /\ UNCHANGED <<waiting, closing, error, net, sent, serverVars, programVars>>

\* Mutant of Connect: the socket outlives the failure.
ConnectLeaks(a) ==
  /\ phase[a] = "bound"
  /\ \/ phase' = [phase EXCEPT ![a] = "open"] /\ Returns(a, Ok([bound |-> port[a]]))
     \/ Fails(a, "UdpConnect")
  /\ UNCHANGED <<owner, port, waiting, closing, error, net, sent, serverVars, programVars>>

\* socket.connect in bind; if it fails the socket is dropped.
Connect(a) ==
  /\ phase[a] = "bound"
  /\ \/ /\ phase' = [phase EXCEPT ![a] = "open"]
        /\ Returns(a, Ok([bound |-> port[a]]))
        /\ UNCHANGED owner
     \/ Fails(a, "UdpConnect") /\ Free(port[a])
  /\ UNCHANGED <<port, waiting, closing, error, net, sent, serverVars, programVars>>

\* The caller drops the future of bind at its second await.
CancelBind(a) ==
  /\ phase[a] = "bound"
  /\ phase' = [phase EXCEPT ![a] = "failed"]
  /\ Free(port[a])
  /\ UNCHANGED <<port, waiting, closing, returned, error, net, sent, serverVars, programVars>>

Closed(kind) == Err(transport_error(kind, <<"association is closed">>, <<>>))

\* send, also while a recv waits.
Send(a, payload) ==
  /\ phase[a] \in {"open", "closed"}
  /\ IF phase[a] = "closed" THEN Returns(a, Closed("UdpSend")) /\ UNCHANGED <<error, net, sent>>
     ELSE IF Len(payload) > MAX_UDP_PAYLOAD
     THEN /\ Returns(a, Err(InvalidConfig("payload", <<"too long", Len(payload)>>)))
          /\ UNCHANGED <<error, net, sent>>
     ELSE IF error[a]
     THEN /\ Returns(a, Err(transport_error("UdpSend", <<"send">>, Foreign("unreachable"))))
          /\ error' = [error EXCEPT ![a] = FALSE]
          /\ UNCHANGED <<net, sent>>
     ELSE /\ Returns(a, Ok([sent |-> Len(payload)]))
          /\ sent' = sent \cup {<<port[a], payload>>}
          /\ Transmit(Datagram("server", port[a], payload))
          /\ UNCHANGED error
  /\ UNCHANGED <<owner, phase, port, waiting, closing, serverVars, programVars>>

\* recv borrows the association; once it is to be closed no new call is made.
StartRecv(a) ==
  /\ phase[a] \in {"open", "closed"} /\ ~waiting[a] /\ (phase[a] = "open" => ~closing[a])
  /\ IF phase[a] = "closed" THEN Returns(a, Closed("UdpRecv")) /\ UNCHANGED waiting
     ELSE waiting' = [waiting EXCEPT ![a] = TRUE] /\ UNCHANGED returned
  /\ UNCHANGED <<owner, phase, port, closing, error, net, sent, serverVars, programVars>>

\* The socket is connected: it takes what comes from the server.  A datagram fits
\* the buffer, of which recv returns what was written.  An error comes first and
\* leaves the socket as it is.
FinishRecv(a) ==
  /\ waiting[a]
  /\ IF error[a]
     THEN /\ Returns(a, Err(transport_error("UdpRecv", <<"receive">>, Foreign("unreachable"))))
          /\ error' = [error EXCEPT ![a] = FALSE]
          /\ UNCHANGED net
     ELSE \E d \in net :
          /\ <<d.to, d.port>> = <<"port", port[a]>>
          /\ Deliver(d)
          /\ Returns(a, Ok([received |-> d.payload]))
          /\ UNCHANGED error
  /\ waiting' = [waiting EXCEPT ![a] = FALSE]
  /\ UNCHANGED <<owner, phase, port, closing, sent, serverVars, programVars>>

\* local_addr: the socket's address, as long as there is a socket.
LocalAddr(a) ==
  /\ phase[a] \in {"open", "closed"}
  /\ Returns(a, IF phase[a] = "closed" THEN Closed("UdpLocalAddr") ELSE Ok([local |-> port[a]]))
  /\ UNCHANGED <<owner, phase, port, waiting, closing, error, net, sent, serverVars, programVars>>

CancelRecv(a) ==
  /\ waiting[a] /\ closing[a]
  /\ waiting' = [waiting EXCEPT ![a] = FALSE]
  /\ UNCHANGED <<owner, phase, port, closing, returned, error, net, sent, serverVars, programVars>>

WantClose(a) ==
  /\ phase[a] = "open"
  /\ closing' = [closing EXCEPT ![a] = TRUE]
  /\ UNCHANGED <<owner, phase, port, waiting, returned, error, net, sent, serverVars, programVars>>

\* Mutant of Close: it borrows no more than recv does, and so does not wait for it.
CloseDuringRecv(a) ==
  /\ closing[a] /\ phase[a] = "open"
  /\ phase' = [phase EXCEPT ![a] = "closed"]
  /\ error' = [error EXCEPT ![a] = FALSE]
  /\ Free(port[a])
  /\ UNCHANGED <<port, waiting, closing, returned, net, sent, serverVars, programVars>>

\* close takes the socket and drops it; the caller must hold the association alone.
Close(a) ==
  /\ closing[a] /\ ~waiting[a] /\ phase[a] = "open"
  /\ phase' = [phase EXCEPT ![a] = "closed"]
  /\ error' = [error EXCEPT ![a] = FALSE]
  /\ Free(port[a])
  /\ UNCHANGED <<port, waiting, closing, returned, net, sent, serverVars, programVars>>
-----------------------------------------------------------------------------
(* udp_echo_server. *)

StartServer ==
  /\ server = "down"
  /\ server' = "receiving"
  /\ UNCHANGED <<owner, assocVars, error, net, sent, buffer, peer, programVars>>

\* Nobody has the server's address yet, and the sender is told so.
Unreachable(d) ==
  /\ server = "down" /\ d.to = "server"
  /\ Deliver(d)
  /\ error' = [a \in Assocs |-> error[a] \/ owner[d.port] = a]
  /\ UNCHANGED <<owner, assocVars, sent, serverVars, programVars>>

\* recv_from writes over the start of the buffer; an error only goes round the loop.
ServerReceives(d) ==
  /\ server = "receiving" /\ d.to = "server"
  /\ Deliver(d)
  /\ buffer' = [i \in DOMAIN buffer |-> IF i \in DOMAIN d.payload THEN d.payload[i] ELSE buffer[i]]
  /\ peer' = [size |-> Len(d.payload), port |-> d.port]
  /\ server' = "echoing"
  /\ UNCHANGED <<owner, assocVars, error, sent, programVars>>

\* Mutant of ServerEchoes: all of the buffer is sent.
ServerEchoesBuffer ==
  /\ server = "echoing"
  /\ Transmit(Datagram("port", peer.port, buffer))
  /\ server' = "receiving"
  /\ UNCHANGED <<owner, assocVars, error, sent, buffer, peer, programVars>>

\* send_to; it may fail, which is a loss, and goes round the loop as well.
ServerEchoes ==
  /\ server = "echoing"
  /\ Transmit(Datagram("port", peer.port, SubSeq(buffer, 1, peer.size)))
  /\ server' = "receiving"
  /\ UNCHANGED <<owner, assocVars, error, sent, buffer, peer, programVars>>
-----------------------------------------------------------------------------
(* udp_echo_client and connect_udp_proxy. *)

\* bind, set_read_timeout, connect and send, one of which may fail.
ClientSends(p, payload) ==
  /\ program = "new" /\ owner[p] = "nobody" /\ Len(payload) <= MAX_UDP_PAYLOAD
  /\ \/ /\ program' = "waiting"
        /\ owner' = [owner EXCEPT ![p] = "client"]
        /\ sent' = sent \cup {<<p, payload>>}
        /\ Transmit(Datagram("server", p, payload))
        /\ UNCHANGED exit
     \/ /\ program' = "exited"
        /\ exit' = Err(Foreign("os error"))
        /\ UNCHANGED <<owner, net, sent>>
  /\ UNCHANGED <<assocVars, error, serverVars>>

ClientExits(p, outcome) ==
  /\ program = "waiting" /\ owner[p] = "client"
  /\ program' = "exited"
  /\ exit' = outcome
  /\ Free(p)
  /\ UNCHANGED <<assocVars, error, sent, serverVars>>

ClientReceives(p, d) ==
  /\ <<d.to, d.port>> = <<"port", p>>
  /\ ClientExits(p, Ok([received |-> d.payload]))
  /\ Deliver(d)

\* Mutant of ClientTimesOut: only an error of the socket ends the wait.
ClientWaits(p) ==
  /\ server = "down"
  /\ ClientExits(p, Err(Foreign("refused")))
  /\ UNCHANGED net

\* The read timeout, or an error of the socket.
ClientTimesOut(p) == ClientExits(p, Err(Foreign("timed out"))) /\ UNCHANGED net

\* Addresses as far as they matter: a valid literal, or why there is none.
parse_address(text, field) ==
  CASE text = "blank" -> Err(InvalidConfig(field, <<"must not be empty">>))
    [] text = "name"  -> Err(InvalidConfig(field, <<"not a valid socket address">>))
    [] OTHER          -> Ok(text)

\* Config::new: the first address that is wrong is reported.
Config(bind_addr, peer_addr) ==
  LET b == parse_address(bind_addr, "bind_addr")
      p == parse_address(peer_addr, "peer_addr")
  IN  IF ~b.ok THEN b ELSE IF ~p.ok THEN p ELSE Ok([bind_addr |-> b.value, peer_addr |-> p.value])

\* The stub only looks at its arguments.
RunProxy(bind_addr, peer_addr) ==
  LET config == Config(bind_addr, peer_addr) IN
  /\ program = "new"
  /\ program' = "exited"
  /\ exit' = IF config.ok THEN Err(<<[variant |-> "NotImplemented", message |-> <<"proxy">>]>>)
             ELSE config
  /\ UNCHANGED <<owner, assocVars, error, net, sent, serverVars>>
-----------------------------------------------------------------------------
Lose(d) ==
  /\ d \in net
  /\ net' = net \ {d}
  /\ UNCHANGED <<owner, assocVars, error, sent, serverVars, programVars>>

Next ==
  \/ \E a \in Assocs :
       \/ \E id \in {MAX_VARINT, MAX_VARINT + 1} : Bind(a, id)
       \/ Connect(a) \/ CancelBind(a)
       \/ \E payload \in Payloads : Send(a, payload)
       \/ StartRecv(a) \/ FinishRecv(a) \/ CancelRecv(a) \/ LocalAddr(a)
       \/ WantClose(a) \/ Close(a)
  \/ StartServer \/ ServerEchoes
  \/ \E d \in net : Unreachable(d) \/ ServerReceives(d) \/ Lose(d)
  \/ \E p \in Ports :
       \/ \E payload \in Payloads : ClientSends(p, payload)
       \/ \E d \in net : ClientReceives(p, d)
       \/ ClientTimesOut(p)
  \/ \E bind_addr, peer_addr \in {"127.0.0.1:0", "blank", "name"} : RunProxy(bind_addr, peer_addr)

\* The client's timer runs.  The network, the server and the callers of the
\* association owe nobody anything.
Fairness == \A p \in Ports : WF_vars(ClientTimesOut(p))

Spec == Init /\ [][Next]_vars /\ Fairness
-----------------------------------------------------------------------------
(* Properties *)

\* A port is held exactly as long as the association or program that bound it is
\* alive and open: a bind that fails or is given up half-way, an error reported
\* by the socket and a close leave neither a port behind nor an open association
\* without one.
PortsAccounted ==
  \A p \in Ports :
    /\ \A a \in Assocs : owner[p] = a <=> phase[a] \in {"bound", "open"} /\ port[a] = p
    /\ owner[p] = "client" => program = "waiting"

\* The payload that a call returned, if it did.
Received(outcome) ==
  IF outcome.ok /\ "received" \in DOMAIN outcome.value THEN outcome.value.received ELSE <<>>

\* What comes back to a port was sent from that port, whole and without bytes of
\* other datagrams, though the server has one buffer for all of them.
EchoIsWhole ==
  /\ \A d \in net : <<d.port, d.payload>> \in sent
  /\ \A a \in Assocs : <<port[a], Received(returned[a])>> \in sent \/ Received(returned[a]) = <<>>
  /\ \E p \in Ports : <<p, Received(exit)>> \in sent \/ Received(exit) = <<>>

\* A recv that ends with a datagram was, to its last moment, the recv of an open
\* association that holds the port: what is sent to the next owner of a port, or is
\* still on its way to the last one, never comes out of a recv that close has left
\* behind (recv borrows the association, close takes it).
OnlyOwnersReceive ==
  [][\A a \in Assocs :
       waiting[a] /\ ~waiting'[a] /\ Received(returned'[a]) # <<>> =>
         phase[a] = "open" /\ owner[port[a]] = a]_vars

\* The client ends, though its datagram or the answer is lost or nobody listens.
ClientEnds == program = "waiting" ~> program = "exited"
=============================================================================
