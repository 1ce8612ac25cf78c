------------------------------ MODULE H3Server ------------------------------
(***************************************************************************)
(* H3Server and H3Connection of src/crates/masque/src/server.rs.  One task   *)
(* accepts connections; every accepted connection has a task of its own that *)
(* accepts requests; peers connect, stall and leave as they like.  accept    *)
(* borrows the server exclusively and is cut at its two awaits: it carries   *)
(* one connection through the QUIC handshake and the set-up of HTTP/3 before *)
(* it looks at the next one.  quinn keeps the queue of the incoming          *)
(* connections, times handshakes out and ends a connection whose last handle *)
(* is dropped.                                                               *)
(***************************************************************************)
EXTENDS Errors, FiniteSets

CONSTANTS
  Peers,       (* each connects once at most                                 *)
  MAX_SANS,    (* greatest number of names of a certificate (64 in the code) *)
  MAX_SAN_LEN  (* greatest length of one (253)                               *)

ASSUME ServerAssumption ==
  /\ IsFiniteSet(Peers) /\ "none" \notin Peers
  /\ MAX_SANS \in Nat /\ MAX_SAN_LEN \in Nat

VARIABLES
  endpoint,  (* "unbound", "open" or "closed"                               *)
  queue,     (* connections quinn holds until they are accepted             *)
  link,      (* per peer, how far its connection is on the server           *)
  ended,     (* why the connection is over, or "no"                         *)
  call,      (* the accept call in progress: its await, and its connection  *)
  result,    (* what bind or accept returned last                           *)
  pending,   (* what the peer has sent next: nothing, a request or GOAWAY   *)
  asking,    (* whether accept_request is in progress on its connection     *)
  answer     (* what accept_request returned last                           *)

serverVars == <<endpoint, queue, call, result>>
requestVars == <<pending, asking, answer>>
vars == <<serverVars, link, ended, requestVars>>

NoCall == [at |-> "none"]
Called(at, p) == [at |-> at, peer |-> p]

None == Ok("none")
NoAnswer == Ok("nothing yet")

Init ==
  /\ endpoint = "unbound" /\ queue = <<>> /\ call = NoCall
  /\ result = NoAnswer
  /\ link = [p \in Peers |-> "idle"]
  /\ ended = [p \in Peers |-> "no"]
  /\ pending = [p \in Peers |-> "nothing"]
  /\ asking = [p \in Peers |-> FALSE]
  /\ answer = [p \in Peers |-> NoAnswer]

\* The connections the server has a part in.
Accepted == {p \in Peers : link[p] \in {"quic", "h3", "open"}}
-----------------------------------------------------------------------------
(* The server. *)

\* generate_self_signed_cert, for names of the given lengths.
generate_self_signed_cert(names) ==
  IF names = <<>> THEN Err(invalid_certificate_error(<<"no names">>, <<>>))
  ELSE IF Len(names) > MAX_SANS THEN Err(invalid_certificate_error(<<"too many names">>, <<>>))
  ELSE IF \E i \in DOMAIN names : names[i] = 0 \/ names[i] > MAX_SAN_LEN
  THEN LET first == CHOOSE i \in DOMAIN names :
                      /\ names[i] = 0 \/ names[i] > MAX_SAN_LEN
                      /\ \A j \in 1 .. i - 1 : names[j] \in 1 .. MAX_SAN_LEN
       IN  Err(invalid_certificate_error(
                 IF names[first] = 0 THEN <<"empty name">> ELSE <<"name too long">>, <<>>))
  ELSE Ok(names)

\* bind, with a configuration made for that certificate; the address may be taken.
bind(names) ==
  LET cert == generate_self_signed_cert(names) IN
  /\ endpoint = "unbound"
  /\ IF ~cert.ok THEN result' = cert /\ UNCHANGED endpoint
     ELSE \/ endpoint' = "open" /\ result' = Ok("bound")
          \/ /\ result' = Err(transport_error("EndpointCreation", <<"failed to create">>,
                                              Foreign("address in use")))
             /\ UNCHANGED endpoint
  /\ UNCHANGED <<queue, call, link, ended, requestVars>>

StartAccept ==
  /\ endpoint # "unbound" /\ call = NoCall
  /\ call' = [at |-> "endpoint"]
  /\ UNCHANGED <<endpoint, queue, result, link, ended, requestVars>>

\* endpoint.accept() is ready, and incoming.await begins.  quinn hands out what
\* is queued even after close, and then closes it on the spot; the first packet
\* may be unacceptable.
TakeIncoming ==
  /\ call.at = "endpoint" /\ queue # <<>>
  /\ LET p == Head(queue) IN
       /\ queue' = Tail(queue)
       /\ call' = Called("quic", p)
       /\ link' = [link EXCEPT ![p] = "quic"]
       /\ \E why \in {"no", "peer"} :
            ended' = [ended EXCEPT ![p] =
                        IF endpoint = "closed" /\ why = "no" THEN "local" ELSE why]
  /\ UNCHANGED <<endpoint, result, requestVars>>

Return(outcome) ==
  /\ call' = NoCall
  /\ result' = outcome
  /\ UNCHANGED <<endpoint, queue, requestVars>>

\* endpoint.accept() gives None: the endpoint is closed.  quinn gives None also
\* when the task that drives the endpoint is lost; that task runs for ever here.
AcceptNone ==
  /\ call.at = "endpoint" /\ queue = <<>> /\ endpoint = "closed"
  /\ Return(None)
  /\ UNCHANGED <<link, ended>>

QuicDone ==
  /\ call.at = "quic" /\ ended[call.peer] = "no"
  /\ call' = Called("h3", call.peer)
  /\ link' = [link EXCEPT ![call.peer] = "h3"]
  /\ UNCHANGED <<endpoint, queue, result, ended, requestVars>>

\* Mutant of QuicFails: every failure counts as closed.
QuicFailsQuietly ==
  /\ call.at = "quic" /\ ended[call.peer] # "no"
  /\ Return(None)
  /\ link' = [link EXCEPT ![call.peer] = "gone"]
  /\ UNCHANGED ended

\* Mutant of QuicFails: the connection is tried again before the others.
QuicFailsRetries ==
  /\ call.at = "quic" /\ ended[call.peer] # "no"
  /\ call' = NoCall
  /\ queue' = <<call.peer>> \o queue
  /\ link' = [link EXCEPT ![call.peer] = "queued"]
  /\ UNCHANGED <<endpoint, result, ended, requestVars>>

\* Mutant of QuicFails: a connection closed by close is an error like the others.
QuicFailsAlways ==
  /\ call.at = "quic" /\ ended[call.peer] # "no"
  /\ Return(Err(transport_error("QuicHandshake", <<"QUIC handshake failed">>,
                                Foreign(ended[call.peer]))))
  /\ link' = [link EXCEPT ![call.peer] = "gone"]
  /\ UNCHANGED ended

QuicFails ==
  /\ call.at = "quic" /\ ended[call.peer] # "no"
  /\ Return(IF ended[call.peer] = "local" THEN None
            ELSE Err(transport_error("QuicHandshake", <<"QUIC handshake failed">>,
                                     Foreign(ended[call.peer]))))
  /\ link' = [link EXCEPT ![call.peer] = "gone"]
  /\ UNCHANGED ended

\* build opens the streams of HTTP/3, and the connection goes to the caller.
H3Done ==
  /\ call.at = "h3" /\ ended[call.peer] = "no"
  /\ Return(Ok(call.peer))
  /\ link' = [link EXCEPT ![call.peer] = "open"]
  /\ UNCHANGED ended

H3Fails ==
  /\ call.at = "h3" /\ ended[call.peer] # "no"
  /\ Return(Err(transport_error("H3Handshake", <<"HTTP/3 handshake failed">>,
                                Foreign(ended[call.peer]))))
  /\ link' = [link EXCEPT ![call.peer] = "gone"]
  /\ UNCHANGED ended

\* What a dropped handle does to a connection.
Dropped(p) == IF ended[p] = "no" THEN "dropped" ELSE ended[p]

\* Mutant of CancelAccept: the connection is not dropped with the future.
CancelAcceptLeaks ==
  /\ call # NoCall
  /\ call.at = "endpoint" => queue = <<>>
  /\ call' = NoCall
  /\ UNCHANGED <<endpoint, queue, result, link, ended, requestVars>>

\* The caller drops the future of accept, and with it the connection it carries.
\* One dropped before it looked at the queue was never called.
CancelAccept ==
  /\ call # NoCall
  /\ call.at = "endpoint" => queue = <<>>
  /\ call' = NoCall
  /\ IF call.at = "endpoint" THEN UNCHANGED <<link, ended>>
     ELSE /\ link' = [link EXCEPT ![call.peer] = "gone"]
          /\ ended' = [ended EXCEPT ![call.peer] = Dropped(call.peer)]
  /\ UNCHANGED <<endpoint, queue, result, requestVars>>

\* Mutant of close: what was accepted before goes on.
close_listener ==
  /\ endpoint # "unbound" /\ call = NoCall
  /\ endpoint' = "closed"
  /\ UNCHANGED <<queue, call, result, link, ended, requestVars>>

\* close borrows the server, so no accept is in progress; it may be repeated.
close ==
  /\ endpoint # "unbound" /\ call = NoCall
  /\ endpoint' = "closed"
  /\ ended' = [p \in Peers |-> IF p \in Accepted /\ ended[p] = "no" THEN "local" ELSE ended[p]]
  /\ UNCHANGED <<queue, call, result, link, requestVars>>
-----------------------------------------------------------------------------
(* An accepted connection. *)

StartRequest(p) ==
  /\ link[p] = "open" /\ ~asking[p]
  /\ asking' = [asking EXCEPT ![p] = TRUE]
  /\ UNCHANGED <<serverVars, link, ended, pending, answer>>

\* What h3 may answer: the request, which a connection that ends may lose; the
\* end, after GOAWAY or a close without error; a failure.  How h3 reports the end
\* of a connection closed on its own side is left open.
Outcomes(p) ==
  (IF pending[p] = "nothing" THEN {} ELSE {pending[p]})
  \cup (CASE ended[p] = "no"            -> {}
          [] ended[p] = "peer_no_error" -> {"no_error"}
          [] ended[p] = "local"         -> {"no_error", "failure"}
          [] OTHER                      -> {"failure"})

\* What accept_request makes of it.
accept_request(p, outcome) ==
  IF outcome = "request" THEN Ok("request")
  ELSE IF outcome \in {"goaway", "no_error"} THEN None
  ELSE Err(transport_error("RequestAccept", <<"failed to accept">>, Foreign(ended[p])))

FinishRequest(p) ==
  /\ asking[p]
  /\ \E outcome \in Outcomes(p) :
       /\ answer' = [answer EXCEPT ![p] = accept_request(p, outcome)]
       /\ pending' = IF outcome = "request" THEN [pending EXCEPT ![p] = "nothing"] ELSE pending
  /\ asking' = [asking EXCEPT ![p] = FALSE]
  /\ UNCHANGED <<serverVars, link, ended>>

\* The task drops the connection, with what has arrived on it, and forgets it.
DropConnection(p) ==
  /\ link[p] = "open"
  /\ link' = [link EXCEPT ![p] = "gone"]
  /\ ended' = [ended EXCEPT ![p] = Dropped(p)]
  /\ asking' = [asking EXCEPT ![p] = FALSE]
  /\ answer' = [answer EXCEPT ![p] = NoAnswer]
  /\ pending' = [pending EXCEPT ![p] = "nothing"]
  /\ UNCHANGED serverVars
-----------------------------------------------------------------------------
(* Peers and the network. *)

Connect(p) ==
  /\ endpoint = "open" /\ link[p] = "idle"
  /\ queue' = Append(queue, p)
  /\ link' = [link EXCEPT ![p] = "queued"]
  /\ UNCHANGED <<endpoint, call, result, ended, requestVars>>

\* The next frame of the peer, a request or GOAWAY, after which none follows.
Send(p, frame) ==
  /\ link[p] = "open" /\ ended[p] = "no" /\ pending[p] = "nothing"
  /\ pending' = [pending EXCEPT ![p] = frame]
  /\ UNCHANGED <<serverVars, link, ended, asking, answer>>

\* The connection ends: the peer closes it, with an error or without, or it has
\* been silent for too long.
ConnectionEnds(p, why) ==
  /\ p \in Accepted /\ ended[p] = "no"
  /\ ended' = [ended EXCEPT ![p] = why]
  /\ UNCHANGED <<serverVars, link, requestVars>>

Next ==
  \/ \E names \in {<<>>, <<1>>, <<0, MAX_SAN_LEN + 1>>, <<MAX_SAN_LEN + 1, 0>>,
                   [i \in 1 .. MAX_SANS |-> MAX_SAN_LEN], [i \in 1 .. MAX_SANS + 1 |-> 1]} :
       bind(names)
  \/ StartAccept \/ TakeIncoming \/ AcceptNone
  \/ QuicDone \/ QuicFails \/ H3Done \/ H3Fails
  \/ CancelAccept \/ close
  \/ \E p \in Peers :
       \/ StartRequest(p) \/ FinishRequest(p) \/ DropConnection(p)
       \/ Connect(p) \/ Send(p, "request") \/ Send(p, "goaway")
       \/ \E why \in {"peer", "peer_no_error", "timeout"} : ConnectionEnds(p, why)

\* An await in accept settles: the step is done, or quinn gives the connection up.
Settles(at) == call.at = at /\ ConnectionEnds(call.peer, "timeout")

\* A caller that goes on accepting, futures that are polled when they are ready,
\* and a limit to how long a peer may be silent; no peer has to finish a handshake.
Fairness ==
  /\ WF_vars(StartAccept) /\ WF_vars(TakeIncoming)
  /\ WF_vars(QuicDone \/ QuicFails \/ Settles("quic"))
  /\ WF_vars(H3Done \/ H3Fails \/ Settles("h3"))
  /\ \A p \in Peers : WF_vars(FinishRequest(p))

Spec == Init /\ [][Next]_vars /\ Fairness
-----------------------------------------------------------------------------
(* Properties *)

Local(e) == source(e) = Foreign("local")

\* accept and accept_request name the step that failed and keep why: accept is
\* never the victim of the server's own close, and a request is not refused with
\* an error because the peer closed without one.
FailureHasCause ==
  /\ ~result.ok =>
       \/ endpoint = "unbound"
       \/ /\ result.error[1].kind \in {"QuicHandshake", "H3Handshake"}
          /\ source(result.error) # <<>> /\ ~Local(result.error)
  /\ \A p \in Peers : ~answer[p].ok =>
       /\ ended[p] \notin {"no", "peer_no_error"}
       /\ source(answer[p].error) = Foreign(ended[p])

\* As long as quinn's endpoint task runs, accept returns None only when the server
\* is closed, and it hands no connection out from then on, though some may still
\* be queued.
NoneMeansClosed ==
  /\ result = None => endpoint = "closed"
  /\ endpoint = "closed" => \A p \in Peers : link[p] # "h3"

\* A live connection is queued, or in the accept call, or with its own task: one
\* that was carried by a cancelled call does not stay open unnoticed, and the
\* call carries one connection at most.
NoOrphanConnection ==
  /\ \A p \in Peers :
       /\ link[p] \in {"quic", "h3"} => call = Called(link[p], p)
       /\ link[p] = "gone" => ended[p] # "no"
       /\ link[p] = "queued" <=> \E i \in DOMAIN queue : queue[i] = p

\* The server's close reaches every connection: a task waiting for a request is
\* woken, and no connection survives.
CloseEndsRequests ==
  \A p \in Peers : endpoint = "closed" /\ asking[p] ~> ~asking[p]

\* A queued connection is looked at in the end, however many handshakes before it
\* stall, and whether or not calls are cancelled.
QueueMovesOn == \A p \in Peers : link[p] = "queued" ~> link[p] # "queued"
=============================================================================
