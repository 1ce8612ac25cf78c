-------------------------- MODULE UdpSocketsProofs --------------------------
(***************************************************************************)
(* Proofs about UdpSockets, for any number of associations, local ports and  *)
(* datagrams in flight and any size of the buffers: no port is leaked or     *)
(* shared, only its owner receives from it, and the echo server mixes no     *)
(* bytes of two datagrams.                                                   *)
(***************************************************************************)
EXTENDS UdpSockets, SequenceTheorems, TLAPS

(* Ports. *)

PortType ==
  /\ owner \in [Ports -> Assocs \cup {"nobody", "client"}]
  /\ phase \in [Assocs -> {"none", "bound", "open", "closed", "failed"}]
  /\ port \in [Assocs -> Ports]

\* The client has one socket at most.
OneClientPort == \A p, q \in Ports : owner[p] = "client" /\ owner[q] = "client" => p = q

PortInv ==
  /\ PortType
  /\ OneClientPort
  /\ PortsAccounted

(* Echo. *)

\* What the server is about to send, whatever older bytes follow it.
Echo == SubSeq(buffer, 1, peer.size)

\* A datagram on its way fits every buffer and has come from its port, and so has
\* the one that the server holds.
NetInv ==
  /\ buffer \in [1 .. MAX_UDP_PAYLOAD -> Nat]
  /\ peer.size \in 0 .. MAX_UDP_PAYLOAD
  /\ \A d \in net : /\ d.payload \in Seq(Nat) /\ Len(d.payload) <= MAX_UDP_PAYLOAD
                    /\ <<d.port, d.payload>> \in sent
  /\ server = "echoing" => <<peer.port, Echo>> \in sent

\* What a call has returned was sent from the port, and nothing was returned
\* before there was a port.
ReturnInv ==
  /\ DOMAIN returned = Assocs
  /\ \A a \in Assocs :
       /\ phase[a] = "none" => Received(returned[a]) = <<>>
       /\ <<port[a], Received(returned[a])>> \in sent \/ Received(returned[a]) = <<>>

ExitInv == \E p \in Ports : <<p, Received(exit)>> \in sent \/ Received(exit) = <<>>

\* Only an open association waits for a datagram.
WaitInv ==
  /\ waiting \in [Assocs -> BOOLEAN]
  /\ \A a \in Assocs : waiting[a] => phase[a] = "open"

EchoInv == NetInv /\ ReturnInv /\ ExitInv
-----------------------------------------------------------------------------
(* Ports are accounted for.                                                 *)

LEMMA InitPorts == Init => PortInv
  BY SocketsAssumption DEF Init, PortInv, PortType, OneClientPort, PortsAccounted

LEMMA BindPorts ==
  ASSUME PortInv, NEW a \in Assocs, NEW id, Bind(a, id)
  PROVE  PortInv'
  <1>1. phase[a] = "none" /\ UNCHANGED program
    BY DEF Bind, programVars
  <1>2. CASE UNCHANGED <<owner, phase, port>>
    BY <1>1, <1>2 DEF PortInv, PortType, OneClientPort, PortsAccounted
  <1>3. CASE phase' = [phase EXCEPT ![a] = "failed"] /\ UNCHANGED <<owner, port>>
    BY <1>1, <1>3 DEF PortInv, PortType, OneClientPort, PortsAccounted
  <1>4. ASSUME NEW p \in Ports, owner[p] = "nobody", owner' = [owner EXCEPT ![p] = a],
               phase' = [phase EXCEPT ![a] = "bound"], port' = [port EXCEPT ![a] = p]
        PROVE  PortInv'
    <2>1. PortType'
      BY <1>4 DEF PortInv, PortType
    <2>2. OneClientPort'
      BY <1>4, SocketsAssumption DEF PortInv, PortType, OneClientPort
    <2>3. PortsAccounted'
      <3> SUFFICES ASSUME NEW q \in Ports
                   PROVE  /\ \A b \in Assocs : owner'[q] = b <=>
                               phase'[b] \in {"bound", "open"} /\ port'[b] = q
                          /\ owner'[q] = "client" => program' = "waiting"
        BY DEF PortsAccounted
      <3>1. ASSUME NEW b \in Assocs
            PROVE  owner'[q] = b <=> phase'[b] \in {"bound", "open"} /\ port'[b] = q
        BY <1>1, <1>4, SocketsAssumption DEF PortInv, PortType, PortsAccounted
      <3>2. owner'[q] = "client" => program' = "waiting"
        BY <1>1, <1>4, SocketsAssumption DEF PortInv, PortType, PortsAccounted
      <3> QED
        BY <3>1, <3>2
    <2> QED
      BY <2>1, <2>2, <2>3 DEF PortInv
  <1> QED
    BY <1>2, <1>3, <1>4 DEF Bind, Fails

\* An association that gives its port up, as it fails or closes.
LEMMA GivingUp ==
  ASSUME PortInv, NEW a \in Assocs, phase[a] \in {"bound", "open"},
         NEW end \in {"failed", "closed"}, phase' = [phase EXCEPT ![a] = end],
         Free(port[a]), UNCHANGED <<port, program>>
  PROVE  PortInv'
  <1>1. port[a] \in Ports /\ owner' = [owner EXCEPT ![port[a]] = "nobody"]
    BY DEF PortInv, PortType, Free
  <1>2. owner[port[a]] = a
    BY <1>1 DEF PortInv, PortsAccounted
  <1>3. PortType' /\ OneClientPort'
    BY <1>1 DEF PortInv, PortType, OneClientPort
  <1>4. PortsAccounted'
    BY <1>1, <1>2, SocketsAssumption DEF PortInv, PortType, PortsAccounted
  <1> QED
    BY <1>3, <1>4 DEF PortInv

LEMMA ConnectPorts ==
  ASSUME PortInv, NEW a \in Assocs, Connect(a)
  PROVE  PortInv'
  <1>1. phase[a] = "bound" /\ UNCHANGED <<port, program>>
    BY DEF Connect, programVars
  <1>2. CASE phase' = [phase EXCEPT ![a] = "open"] /\ UNCHANGED owner
    BY <1>1, <1>2 DEF PortInv, PortType, OneClientPort, PortsAccounted
  <1>3. CASE Fails(a, "UdpConnect") /\ Free(port[a])
    BY <1>1, <1>3, GivingUp DEF Fails
  <1> QED
    BY <1>2, <1>3 DEF Connect

LEMMA CancelBindPorts ==
  ASSUME PortInv, NEW a \in Assocs, CancelBind(a)
  PROVE  PortInv'
  BY GivingUp DEF CancelBind, programVars

LEMMA ClosePorts ==
  ASSUME PortInv, NEW a \in Assocs, Close(a)
  PROVE  PortInv'
  BY GivingUp DEF Close, programVars

LEMMA ClientSendsPorts ==
  ASSUME PortInv, NEW p \in Ports, NEW payload, ClientSends(p, payload)
  PROVE  PortInv'
  <1>1. program = "new" /\ owner[p] = "nobody" /\ UNCHANGED <<phase, port>>
    BY DEF ClientSends, assocVars
  <1>2. \A q \in Ports : owner[q] # "client"
    BY <1>1 DEF PortInv, PortsAccounted
  <1>3. CASE UNCHANGED owner
    BY <1>1, <1>2, <1>3 DEF PortInv, PortType, OneClientPort, PortsAccounted
  <1>4. CASE program' = "waiting" /\ owner' = [owner EXCEPT ![p] = "client"]
    BY <1>1, <1>2, <1>4, SocketsAssumption DEF PortInv, PortType, OneClientPort, PortsAccounted
  <1> QED
    BY <1>3, <1>4 DEF ClientSends

LEMMA ClientExitsPorts ==
  ASSUME PortInv, NEW p \in Ports, NEW outcome, ClientExits(p, outcome)
  PROVE  PortInv'
  <1>1. /\ owner[p] = "client" /\ owner' = [owner EXCEPT ![p] = "nobody"]
        /\ UNCHANGED <<phase, port>>
    BY DEF ClientExits, Free, assocVars
  <1>2. \A q \in Ports : owner'[q] # "client"
    BY <1>1 DEF PortInv, PortType, OneClientPort
  <1>3. PortType' /\ OneClientPort'
    BY <1>1, <1>2 DEF PortInv, PortType, OneClientPort
  <1>4. PortsAccounted'
    BY <1>1, <1>2, SocketsAssumption DEF PortInv, PortType, PortsAccounted
  <1> QED
    BY <1>3, <1>4 DEF PortInv

\* The other steps bind, connect and close nothing.
LEMMA QuietPorts ==
  ASSUME PortInv, UNCHANGED <<owner, phase, port, program>>
  PROVE  PortInv'
  BY DEF PortInv, PortType, OneClientPort, PortsAccounted

LEMMA StepPorts == PortInv /\ [Next]_vars => PortInv'
  <1> SUFFICES ASSUME PortInv, [Next]_vars PROVE PortInv'
    OBVIOUS
  <1>1. ASSUME NEW a \in Assocs, NEW id, Bind(a, id) PROVE PortInv'
    BY <1>1, BindPorts
  <1>2. ASSUME NEW a \in Assocs, Connect(a) \/ CancelBind(a) \/ Close(a) PROVE PortInv'
    BY <1>2, ConnectPorts, CancelBindPorts, ClosePorts
  <1>3. ASSUME NEW a \in Assocs, NEW payload, Send(a, payload) PROVE PortInv'
    BY <1>3, QuietPorts DEF Send, programVars
  <1>4. ASSUME NEW a \in Assocs,
               StartRecv(a) \/ FinishRecv(a) \/ CancelRecv(a) \/ LocalAddr(a) \/ WantClose(a)
        PROVE  PortInv'
    BY <1>4, QuietPorts DEF StartRecv, FinishRecv, CancelRecv, LocalAddr, WantClose, programVars
  <1>5. CASE StartServer \/ ServerEchoes
    BY <1>5, QuietPorts DEF StartServer, ServerEchoes, assocVars, programVars
  <1>6. ASSUME NEW d, Unreachable(d) \/ ServerReceives(d) \/ Lose(d) PROVE PortInv'
    BY <1>6, QuietPorts DEF Unreachable, ServerReceives, Lose, assocVars, programVars
  <1>7. ASSUME NEW p \in Ports, NEW payload, ClientSends(p, payload) PROVE PortInv'
    BY <1>7, ClientSendsPorts
  <1>8. ASSUME NEW p \in Ports, NEW d, ClientReceives(p, d) \/ ClientTimesOut(p) PROVE PortInv'
    BY <1>8, ClientExitsPorts DEF ClientReceives, ClientTimesOut
  <1>9. ASSUME NEW b, NEW c, RunProxy(b, c) PROVE PortInv'
    <2>1. /\ program = "new" /\ program' = "exited" /\ UNCHANGED <<owner, phase, port>>
      BY <1>9 DEF RunProxy, assocVars
    <2> QED
      BY <2>1 DEF PortInv, PortType, OneClientPort, PortsAccounted
  <1>10. CASE UNCHANGED vars
    BY <1>10, QuietPorts DEF vars, assocVars, programVars
  <1> QED
    BY <1>1, <1>2, <1>3, <1>4, <1>5, <1>6, <1>7, <1>8, <1>9, <1>10 DEF Next
-----------------------------------------------------------------------------
(* The echo is whole.                                                       *)

LEMMA ReceivedOf ==
  /\ \A e : Received(Err(e)) = <<>>
  /\ \A x : Received(Ok([received |-> x])) = x
  /\ \A x : /\ Received(Ok([bound |-> x])) = <<>>
            /\ Received(Ok([sent |-> x])) = <<>>
            /\ Received(Ok([local |-> x])) = <<>>
  /\ Received(Nothing) = <<>>
  <1>1. \A e : Err(e).ok = FALSE
    BY DEF Err
  <1>2. \A v : Ok(v).ok = TRUE /\ Ok(v).value = v
    BY DEF Ok
  <1>3. \A x : /\ "received" \in DOMAIN [received |-> x] /\ [received |-> x].received = x
               /\ "received" \notin DOMAIN [bound |-> x]
               /\ "received" \notin DOMAIN [sent |-> x]
               /\ "received" \notin DOMAIN [local |-> x]
    OBVIOUS
  <1>4. "received" \notin DOMAIN <<>>
    OBVIOUS
  <1> QED
    BY <1>1, <1>2, <1>3, <1>4 DEF Received, Nothing

LEMMA InitEcho == Init => EchoInv
  <1> SUFFICES ASSUME Init PROVE EchoInv
    OBVIOUS
  <1>1. NetInv
    BY SocketsAssumption DEF Init, NetInv
  <1>2. ReturnInv /\ ExitInv
    BY ReceivedOf, SocketsAssumption DEF Init, ReturnInv, ExitInv
  <1> QED
    BY <1>1, <1>2 DEF EchoInv

\* A network that gains nothing.
LEMMA NetQuiet ==
  ASSUME NetInv, net' \subseteq net, sent \subseteq sent', UNCHANGED <<server, buffer, peer>>
  PROVE  NetInv'
  BY DEF NetInv, Echo

\* A network that gains what has just been sent, or is being echoed.
LEMMA NetGains ==
  ASSUME NetInv, NEW d, Transmit(d), d.payload \in Seq(Nat), Len(d.payload) <= MAX_UDP_PAYLOAD,
         <<d.port, d.payload>> \in sent', sent \subseteq sent', UNCHANGED <<buffer, peer>>,
         server' \in {server, "receiving"}
  PROVE  NetInv'
  <1>1. \A e \in net' : e \in net \/ e = d
    BY DEF Transmit
  <1> QED
    BY <1>1 DEF NetInv, Echo

LEMMA Delivered ==
  ASSUME NEW d, Deliver(d)
  PROVE  d \in net /\ net' \subseteq net
  BY DEF Deliver

\* Nothing new is returned.
LEMMA ReturnQuiet ==
  ASSUME ReturnInv, sent \subseteq sent', UNCHANGED <<returned, port>>,
         \A a \in Assocs : phase'[a] = "none" => phase[a] = "none"
  PROVE  ReturnInv'
  BY DEF ReturnInv

\* A call returns what was sent from its port, or nothing that was sent.
LEMMA ReturnGains ==
  ASSUME ReturnInv, NEW a \in Assocs, NEW outcome, Returns(a, outcome),
         sent \subseteq sent', UNCHANGED port,
         \A b \in Assocs : phase'[b] = "none" => phase[b] = "none",
         \/ Received(outcome) = <<>>
         \/ phase'[a] # "none" /\ <<port[a], Received(outcome)>> \in sent
  PROVE  ReturnInv'
  BY DEF ReturnInv, Returns

LEMMA ExitQuiet ==
  ASSUME ExitInv, sent \subseteq sent', UNCHANGED exit
  PROVE  ExitInv'
  BY DEF ExitInv

\* Bytes written over the start of a buffer are what a prefix of it reads back.
LEMMA Overwritten ==
  ASSUME NEW b \in [1 .. MAX_UDP_PAYLOAD -> Nat],
         NEW s \in Seq(Nat), Len(s) <= MAX_UDP_PAYLOAD,
         NEW c, c = [i \in DOMAIN b |-> IF i \in DOMAIN s THEN s[i] ELSE b[i]]
  PROVE  /\ c \in [1 .. MAX_UDP_PAYLOAD -> Nat]
         /\ SubSeq(c, 1, Len(s)) = s
  <1>1. MAX_UDP_PAYLOAD \in Nat /\ Len(s) \in 0 .. MAX_UDP_PAYLOAD
    BY SocketsAssumption
  <1>2. /\ DOMAIN b = 1 .. MAX_UDP_PAYLOAD /\ DOMAIN s = 1 .. Len(s)
        /\ \A i \in DOMAIN s : s[i] \in Nat
    OBVIOUS
  <1>3. c \in [1 .. MAX_UDP_PAYLOAD -> Nat]
    BY <1>2
  <1>4. c \in Seq(Nat) /\ Len(c) = MAX_UDP_PAYLOAD
    BY <1>1, <1>3
  <1>5. SubSeq(c, 1, Len(s)) \in Seq(Nat) /\ Len(SubSeq(c, 1, Len(s))) = Len(s)
    BY <1>1, <1>4
  <1>6. \A i \in 1 .. Len(s) : SubSeq(c, 1, Len(s))[i] = s[i]
    BY <1>1, <1>2, <1>4
  <1>7. SubSeq(c, 1, Len(s)) = s
    BY <1>5, <1>6, SeqEqual
  <1> QED
    BY <1>3, <1>7

LEMMA BindEcho ==
  ASSUME PortInv, EchoInv, NEW a \in Assocs, NEW id, Bind(a, id)
  PROVE  EchoInv'
  <1>1. phase[a] = "none" /\ UNCHANGED <<net, sent, server, buffer, peer, exit>>
    BY DEF Bind, serverVars, programVars
  <1>2. NetInv' /\ ExitInv'
    BY <1>1, NetQuiet, ExitQuiet DEF EchoInv
  <1>3. CASE ~AssociationId(id).ok
    <2>1. Returns(a, AssociationId(id)) /\ UNCHANGED <<phase, port>>
      BY <1>3 DEF Bind
    <2>2. Received(AssociationId(id)) = <<>>
      BY <1>3, ReceivedOf DEF Received
    <2> QED
      BY <1>1, <1>2, <2>1, <2>2, ReturnGains DEF EchoInv
  <1>4. CASE Fails(a, "UdpBind") /\ UNCHANGED port
    <2>1. PICK e : /\ phase' = [phase EXCEPT ![a] = "failed"]
                   /\ Returns(a, Err(e))
      BY <1>4 DEF Fails
    <2>2. \A b \in Assocs : phase'[b] = "none" => phase[b] = "none"
      BY <2>1 DEF PortInv, PortType
    <2> QED
      BY <1>1, <1>2, <1>4, <2>1, <2>2, ReceivedOf, ReturnGains DEF EchoInv
  <1>5. CASE \E p \in Ports : /\ phase' = [phase EXCEPT ![a] = "bound"]
                              /\ port' = [port EXCEPT ![a] = p]
                              /\ UNCHANGED returned
    BY <1>1, <1>2, <1>5 DEF EchoInv, ReturnInv, PortInv, PortType
  <1> QED
    BY <1>3, <1>4, <1>5 DEF Bind

LEMMA ConnectEcho ==
  ASSUME PortInv, EchoInv, NEW a \in Assocs, Connect(a)
  PROVE  EchoInv'
  <1>1. UNCHANGED <<net, sent, server, buffer, peer, exit, port>>
    BY DEF Connect, serverVars, programVars
  <1>2. PICK end, outcome :
          /\ end \in {"open", "failed"} /\ phase' = [phase EXCEPT ![a] = end]
          /\ Returns(a, outcome) /\ Received(outcome) = <<>>
    BY ReceivedOf DEF Connect, Fails
  <1>3. \A b \in Assocs : phase'[b] = "none" => phase[b] = "none"
    BY <1>2 DEF PortInv, PortType
  <1> QED
    BY <1>1, <1>2, <1>3, NetQuiet, ReturnGains, ExitQuiet DEF EchoInv

\* What is sent is in the history before it is on its way.
LEMMA SendEcho ==
  ASSUME EchoInv, NEW a \in Assocs, NEW payload \in Payloads, Send(a, payload)
  PROVE  EchoInv'
  <1>1. UNCHANGED <<server, buffer, peer, exit, port, phase>>
    BY DEF Send, serverVars, programVars
  <1>2. PICK outcome : Returns(a, outcome) /\ Received(outcome) = <<>>
    BY ReceivedOf DEF Send, Closed
  <1>3. sent \subseteq sent'
    BY DEF Send
  <1>4. NetInv'
    <2>1. CASE UNCHANGED <<net, sent>>
      BY <1>1, <2>1, NetQuiet DEF EchoInv
    <2>2. CASE /\ sent' = sent \cup {<<port[a], payload>>}
               /\ Transmit(Datagram("server", port[a], payload))
               /\ ~(Len(payload) > MAX_UDP_PAYLOAD)
      <3> DEFINE d == Datagram("server", port[a], payload)
      <3>1. d.port = port[a] /\ d.payload = payload
        BY DEF Datagram
      <3> HIDE DEF d
      <3>2. payload \in Seq(Nat) /\ Len(payload) <= MAX_UDP_PAYLOAD
        BY <2>2, SocketsAssumption
      <3>3. Transmit(d)
        BY <2>2 DEF d
      <3> QED
        BY <1>1, <1>3, <2>2, <3>1, <3>2, <3>3, NetGains DEF EchoInv
    <2> QED
      BY <2>1, <2>2 DEF Send
  <1> QED
    BY <1>1, <1>2, <1>3, <1>4, ReturnGains, ExitQuiet DEF EchoInv

LEMMA FinishRecvEcho ==
  ASSUME EchoInv, NEW a \in Assocs, FinishRecv(a), WaitInv
  PROVE  EchoInv'
  <1>1. phase[a] = "open" /\ UNCHANGED <<server, buffer, peer, exit, port, phase, sent>>
    BY DEF FinishRecv, WaitInv, serverVars, programVars
  <1>2. CASE error[a]
    <2>1. UNCHANGED net
      BY <1>2 DEF FinishRecv
    <2>2. PICK outcome : Returns(a, outcome) /\ Received(outcome) = <<>>
      BY <1>2, ReceivedOf DEF FinishRecv
    <2> QED
      BY <1>1, <2>1, <2>2, NetQuiet, ReturnGains, ExitQuiet DEF EchoInv
  <1>3. CASE ~error[a]
    <2>1. PICK d \in net : /\ <<d.to, d.port>> = <<"port", port[a]>>
                           /\ Deliver(d)
                           /\ Returns(a, Ok([received |-> d.payload]))
      BY <1>3 DEF FinishRecv
    <2>2. <<port[a], d.payload>> \in sent
      BY <2>1 DEF EchoInv, NetInv
    <2>3. Received(Ok([received |-> d.payload])) = d.payload
      BY ReceivedOf
    <2>4. net' \subseteq net
      BY <2>1, Delivered
    <2> QED
      BY <1>1, <2>1, <2>2, <2>3, <2>4, NetQuiet, ReturnGains, ExitQuiet DEF EchoInv
  <1> QED
    BY <1>2, <1>3

LEMMA StartRecvEcho ==
  ASSUME EchoInv, NEW a \in Assocs, StartRecv(a) \/ LocalAddr(a)
  PROVE  EchoInv'
  <1>1. UNCHANGED <<server, buffer, peer, exit, port, phase, sent, net>>
    BY DEF StartRecv, LocalAddr, serverVars, programVars
  <1>2. CASE UNCHANGED returned
    BY <1>1, <1>2, NetQuiet, ReturnQuiet, ExitQuiet DEF EchoInv
  <1>3. ASSUME NEW outcome, Returns(a, outcome), Received(outcome) = <<>>
        PROVE  EchoInv'
    BY <1>1, <1>3, NetQuiet, ReturnGains, ExitQuiet DEF EchoInv
  <1>4. ASSUME NEW kind, Returns(a, Closed(kind)) PROVE EchoInv'
    BY <1>3, <1>4, ReceivedOf DEF Closed
  <1>5. ASSUME Returns(a, Ok([local |-> port[a]])) PROVE EchoInv'
    BY <1>3, <1>5, ReceivedOf
  <1> QED
    BY <1>2, <1>4, <1>5 DEF StartRecv, LocalAddr

\* Steps that return nothing and send nothing.
LEMMA QuietEcho ==
  ASSUME EchoInv, net' \subseteq net, UNCHANGED <<port, returned, sent, server, buffer, peer, exit>>,
         \A a \in Assocs : phase'[a] = "none" => phase[a] = "none"
  PROVE  EchoInv'
  BY NetQuiet, ReturnQuiet, ExitQuiet DEF EchoInv

\* The datagram overwrites what the buffer holds of older ones.
LEMMA ServerReceivesEcho ==
  ASSUME EchoInv, NEW d, ServerReceives(d)
  PROVE  EchoInv'
  <1>1. /\ Deliver(d)
        /\ buffer' = [i \in DOMAIN buffer |->
                        IF i \in DOMAIN d.payload THEN d.payload[i] ELSE buffer[i]]
        /\ peer' = [size |-> Len(d.payload), port |-> d.port]
        /\ UNCHANGED <<phase, port, returned, sent, exit>>
    BY DEF ServerReceives, assocVars, programVars
  <1>2. d \in net /\ net' \subseteq net
    BY <1>1, Delivered
  <1>3. /\ d.payload \in Seq(Nat) /\ Len(d.payload) <= MAX_UDP_PAYLOAD
        /\ <<d.port, d.payload>> \in sent
    BY <1>2 DEF EchoInv, NetInv
  <1>4. /\ buffer' \in [1 .. MAX_UDP_PAYLOAD -> Nat]
        /\ SubSeq(buffer', 1, Len(d.payload)) = d.payload
    BY <1>1, <1>3, Overwritten DEF EchoInv, NetInv
  <1>5. /\ peer'.size = Len(d.payload) /\ peer'.port = d.port
        /\ peer'.size \in 0 .. MAX_UDP_PAYLOAD
    BY <1>1, <1>3, SocketsAssumption
  <1>6. NetInv'
    BY <1>1, <1>2, <1>3, <1>4, <1>5 DEF EchoInv, NetInv, Echo
  <1> QED
    BY <1>1, <1>6, ReturnQuiet, ExitQuiet DEF EchoInv

LEMMA ServerEchoesEcho ==
  ASSUME EchoInv, ServerEchoes
  PROVE  EchoInv'
  <1> DEFINE d == Datagram("port", peer.port, Echo)
  <1>1. /\ server = "echoing" /\ Transmit(d) /\ server' = "receiving"
        /\ UNCHANGED <<phase, port, returned, sent, buffer, peer, exit>>
    BY DEF ServerEchoes, Echo, assocVars, programVars
  <1>2. d.port = peer.port /\ d.payload = Echo
    BY DEF Datagram
  <1>3. Echo \in Seq(Nat) /\ Len(Echo) <= MAX_UDP_PAYLOAD
    <2>1. buffer \in Seq(Nat) /\ Len(buffer) = MAX_UDP_PAYLOAD
      BY SocketsAssumption DEF EchoInv, NetInv
    <2>2. peer.size \in 0 .. MAX_UDP_PAYLOAD /\ MAX_UDP_PAYLOAD \in Nat
      BY SocketsAssumption DEF EchoInv, NetInv
    <2> QED
      BY <2>1, <2>2 DEF Echo
  <1>4. <<peer.port, Echo>> \in sent
    BY <1>1 DEF EchoInv, NetInv
  <1> HIDE DEF d
  <1>5. NetInv'
    BY <1>1, <1>2, <1>3, <1>4, NetGains DEF EchoInv
  <1> QED
    BY <1>1, <1>5, ReturnQuiet, ExitQuiet DEF EchoInv

LEMMA ClientSendsEcho ==
  ASSUME EchoInv, NEW p \in Ports, NEW payload \in Payloads, ClientSends(p, payload)
  PROVE  EchoInv'
  <1>1. Len(payload) <= MAX_UDP_PAYLOAD /\ UNCHANGED <<phase, port, returned, server, buffer, peer>>
    BY DEF ClientSends, assocVars, serverVars
  <1>2. CASE exit' = Err(Foreign("os error")) /\ UNCHANGED <<net, sent>>
    <2>1. ExitInv'
      BY <1>2, ReceivedOf, SocketsAssumption DEF ExitInv
    <2> QED
      BY <1>1, <1>2, <2>1, NetQuiet, ReturnQuiet DEF EchoInv
  <1>3. CASE /\ sent' = sent \cup {<<p, payload>>}
             /\ Transmit(Datagram("server", p, payload))
             /\ UNCHANGED exit
    <2> DEFINE d == Datagram("server", p, payload)
    <2>1. d.port = p /\ d.payload = payload /\ Transmit(d)
      BY <1>3 DEF Datagram
    <2> HIDE DEF d
    <2>2. payload \in Seq(Nat)
      BY SocketsAssumption
    <2>3. NetInv'
      BY <1>1, <1>3, <2>1, <2>2, NetGains DEF EchoInv
    <2> QED
      BY <1>1, <1>3, <2>3, ReturnQuiet, ExitQuiet DEF EchoInv
  <1> QED
    BY <1>2, <1>3 DEF ClientSends

LEMMA ClientExitsEcho ==
  ASSUME EchoInv, NEW p \in Ports, NEW outcome, ClientExits(p, outcome), net' \subseteq net,
         Received(outcome) = <<>> \/ <<p, Received(outcome)>> \in sent
  PROVE  EchoInv'
  <1>1. exit' = outcome /\ UNCHANGED <<phase, port, returned, sent, server, buffer, peer>>
    BY DEF ClientExits, assocVars, serverVars
  <1>2. ExitInv'
    BY <1>1 DEF ExitInv
  <1> QED
    BY <1>1, <1>2, NetQuiet, ReturnQuiet DEF EchoInv

LEMMA ClientEndsEcho ==
  ASSUME EchoInv, NEW p \in Ports, NEW d \in net, ClientReceives(p, d) \/ ClientTimesOut(p)
  PROVE  EchoInv'
  <1>1. CASE ClientReceives(p, d)
    <2>1. d.port = p /\ Deliver(d) /\ ClientExits(p, Ok([received |-> d.payload]))
      BY <1>1 DEF ClientReceives
    <2>2. <<p, d.payload>> \in sent /\ Received(Ok([received |-> d.payload])) = d.payload
      BY <2>1, ReceivedOf DEF EchoInv, NetInv
    <2>3. net' \subseteq net
      BY <2>1, Delivered
    <2> QED
      BY <2>1, <2>2, <2>3, ClientExitsEcho
  <1>2. CASE ClientTimesOut(p)
    BY <1>2, ReceivedOf, ClientExitsEcho DEF ClientTimesOut
  <1> QED
    BY <1>1, <1>2

LEMMA StepEcho == PortInv /\ WaitInv /\ EchoInv /\ [Next]_vars => EchoInv'
  <1> SUFFICES ASSUME PortInv, WaitInv, EchoInv, [Next]_vars PROVE EchoInv'
    OBVIOUS
  <1>1. ASSUME NEW a \in Assocs, NEW id, Bind(a, id) PROVE EchoInv'
    BY <1>1, BindEcho
  <1>2. ASSUME NEW a \in Assocs, Connect(a) PROVE EchoInv'
    BY <1>2, ConnectEcho
  <1>3. ASSUME NEW a \in Assocs, NEW payload \in Payloads, Send(a, payload) PROVE EchoInv'
    BY <1>3, SendEcho
  <1>4. ASSUME NEW a \in Assocs, StartRecv(a) \/ FinishRecv(a) \/ LocalAddr(a) PROVE EchoInv'
    BY <1>4, StartRecvEcho, FinishRecvEcho
  <1>5. ASSUME NEW a \in Assocs, CancelBind(a) \/ Close(a) PROVE EchoInv'
    <2>1. /\ UNCHANGED <<net, port, returned, sent, server, buffer, peer, exit>>
          /\ \E end \in {"failed", "closed"} : phase' = [phase EXCEPT ![a] = end]
      BY <1>5 DEF CancelBind, Close, serverVars, programVars
    <2>2. \A b \in Assocs : phase'[b] = "none" => phase[b] = "none"
      BY <2>1 DEF PortInv, PortType
    <2> QED
      BY <2>1, <2>2, QuietEcho
  <1>6. ASSUME NEW a \in Assocs, CancelRecv(a) \/ WantClose(a) PROVE EchoInv'
    BY <1>6, QuietEcho DEF CancelRecv, WantClose, serverVars, programVars
  <1>7. CASE StartServer
    <2>1. server' = "receiving" /\ UNCHANGED <<net, sent, buffer, peer, phase, port, returned, exit>>
      BY <1>7 DEF StartServer, assocVars, programVars
    <2>2. NetInv'
      BY <2>1 DEF EchoInv, NetInv
    <2> QED
      BY <2>1, <2>2, ReturnQuiet, ExitQuiet DEF EchoInv
  <1>8. CASE ServerEchoes
    BY <1>8, ServerEchoesEcho
  <1>9. ASSUME NEW d, Unreachable(d) \/ Lose(d) PROVE EchoInv'
    BY <1>9, Delivered, QuietEcho DEF Unreachable, Lose, assocVars, serverVars, programVars
  <1>10. ASSUME NEW d, ServerReceives(d) PROVE EchoInv'
    BY <1>10, ServerReceivesEcho
  <1>11. ASSUME NEW p \in Ports, NEW payload \in Payloads, ClientSends(p, payload) PROVE EchoInv'
    BY <1>11, ClientSendsEcho
  <1>12. ASSUME NEW p \in Ports, NEW d \in net, ClientReceives(p, d) PROVE EchoInv'
    BY <1>12, ClientEndsEcho
  <1>13. ASSUME NEW p \in Ports, ClientTimesOut(p) PROVE EchoInv'
    BY <1>13, ClientExitsEcho, ReceivedOf DEF ClientTimesOut
  <1>14. ASSUME NEW b, NEW c, RunProxy(b, c) PROVE EchoInv'
    <2>1. UNCHANGED <<net, sent, server, buffer, peer, phase, port, returned>>
      BY <1>14 DEF RunProxy, assocVars, serverVars
    <2>2. Received(exit') = <<>>
      <3>1. CASE Config(b, c).ok
        BY <1>14, <3>1, ReceivedOf DEF RunProxy
      <3>2. CASE ~Config(b, c).ok
        BY <1>14, <3>2 DEF RunProxy, Received
      <3> QED
        BY <3>1, <3>2
    <2>3. ExitInv'
      BY <2>2, SocketsAssumption DEF ExitInv
    <2> QED
      BY <2>1, <2>3, NetQuiet, ReturnQuiet DEF EchoInv
  <1>15. CASE UNCHANGED vars
    BY <1>15, QuietEcho DEF vars, assocVars, serverVars, programVars
  <1> QED
    BY <1>1, <1>2, <1>3, <1>4, <1>5, <1>6, <1>7, <1>8, <1>9, <1>10, <1>11, <1>12, <1>13,
       <1>14, <1>15 DEF Next

LEMMA StepWait == PortInv /\ WaitInv /\ [Next]_vars => WaitInv'
  <1> SUFFICES ASSUME PortInv, WaitInv, [Next]_vars PROVE WaitInv'
    OBVIOUS
  <1>1. ASSUME NEW a \in Assocs, phase[a] # "open" \/ ~waiting[a], UNCHANGED waiting,
               \A b \in Assocs \ {a} : phase'[b] = phase[b]
        PROVE  WaitInv'
    BY <1>1 DEF WaitInv
  <1>2. ASSUME NEW a \in Assocs, NEW end, phase' = [phase EXCEPT ![a] = end]
        PROVE  \A b \in Assocs \ {a} : phase'[b] = phase[b]
    BY <1>2 DEF PortInv, PortType
  <1>3. ASSUME NEW a \in Assocs, NEW id, Bind(a, id) PROVE WaitInv'
    <2>1. phase[a] = "none" /\ UNCHANGED waiting
      BY <1>3 DEF Bind
    <2>2. \/ UNCHANGED phase
          \/ \E end : phase' = [phase EXCEPT ![a] = end]
      BY <1>3 DEF Bind, Fails
    <2> QED
      BY <1>1, <1>2, <2>1, <2>2
  <1>4. ASSUME NEW a \in Assocs, Connect(a) \/ CancelBind(a) \/ Close(a) PROVE WaitInv'
    <2>1. (phase[a] # "open" \/ ~waiting[a]) /\ UNCHANGED waiting
      BY <1>4 DEF Connect, CancelBind, Close
    <2>2. \E end : phase' = [phase EXCEPT ![a] = end]
      BY <1>4 DEF Connect, CancelBind, Close, Fails
    <2> QED
      BY <1>1, <1>2, <2>1, <2>2
  <1>5. ASSUME NEW a \in Assocs, StartRecv(a) \/ FinishRecv(a) \/ CancelRecv(a) PROVE WaitInv'
    <2>1. UNCHANGED phase
      BY <1>5 DEF StartRecv, FinishRecv, CancelRecv
    <2>2. \/ UNCHANGED waiting
          \/ waiting' = [waiting EXCEPT ![a] = FALSE]
          \/ waiting' = [waiting EXCEPT ![a] = TRUE] /\ phase[a] = "open"
      BY <1>5 DEF StartRecv, FinishRecv, CancelRecv
    <2> QED
      BY <2>1, <2>2 DEF WaitInv
  <1>6. CASE UNCHANGED <<phase, waiting>>
    BY <1>6 DEF WaitInv
  <1>7. ASSUME NEW a \in Assocs,
               LocalAddr(a) \/ WantClose(a) \/ \E payload \in Payloads : Send(a, payload)
        PROVE  WaitInv'
    BY <1>6, <1>7 DEF LocalAddr, WantClose, Send
  <1>8. CASE \/ StartServer \/ ServerEchoes \/ UNCHANGED vars
             \/ \E d \in net : Unreachable(d) \/ ServerReceives(d) \/ Lose(d)
    BY <1>6, <1>8 DEF StartServer, ServerEchoes, Unreachable, ServerReceives, Lose, vars, assocVars
  <1>9. ASSUME NEW p \in Ports, \/ \E payload \in Payloads : ClientSends(p, payload)
                                \/ \E d \in net : ClientReceives(p, d)
                                \/ ClientTimesOut(p)
        PROVE  WaitInv'
    BY <1>6, <1>9 DEF ClientSends, ClientReceives, ClientTimesOut, ClientExits, assocVars
  <1>10. ASSUME NEW b, NEW c, RunProxy(b, c) PROVE WaitInv'
    BY <1>6, <1>10 DEF RunProxy, assocVars
  <1> QED
    BY <1>3, <1>4, <1>5, <1>7, <1>8, <1>9, <1>10 DEF Next
-----------------------------------------------------------------------------
(* The theorems. *)

LEMMA AlwaysInv == Spec => [](PortInv /\ WaitInv /\ EchoInv)
  <1>1. Init => WaitInv
    BY DEF Init, WaitInv
  <1> QED
    BY <1>1, InitPorts, InitEcho, StepPorts, StepWait, StepEcho, PTL DEF Spec

\* Whatever fails, is cancelled or is closed, and in whatever order, a port is held
\* by exactly one live association or program, and every open association holds one.
THEOREM PortsNeverLeak == Spec => []PortsAccounted
  <1>1. PortInv => PortsAccounted
    BY DEF PortInv
  <1> QED
    BY <1>1, AlwaysInv, PTL

\* A recv that ends with a datagram is that of an open association that holds the
\* port, however many associations bind, close and bind the same ports again.
THEOREM OwnersReceive == Spec => OnlyOwnersReceive
  <1>1. ASSUME PortInv, WaitInv, NEW a \in Assocs, waiting[a]
        PROVE  phase[a] = "open" /\ owner[port[a]] = a
    BY <1>1 DEF WaitInv, PortInv, PortType, PortsAccounted
  <1>2. PortInv /\ WaitInv /\ EchoInv =>
          \A a \in Assocs :
            waiting[a] /\ ~waiting'[a] /\ Received(returned'[a]) # <<>> =>
              phase[a] = "open" /\ owner[port[a]] = a
    BY <1>1
  <1> QED
    BY <1>2, AlwaysInv, PTL DEF OnlyOwnersReceive

\* Every datagram on its way, and every one that recv or the client's read
\* returned, is one that was sent from that port, byte for byte, though the echo
\* server writes datagrams of all lengths over one buffer.
THEOREM EchoesAreWhole == Spec => []EchoIsWhole
  <1>1. EchoInv => EchoIsWhole
    BY DEF EchoInv, NetInv, ReturnInv, ExitInv, EchoIsWhole
  <1> QED
    BY <1>1, AlwaysInv, PTL
=============================================================================
