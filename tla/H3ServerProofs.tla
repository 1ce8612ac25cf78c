--------------------------- MODULE H3ServerProofs ---------------------------
(***************************************************************************)
(* Proofs about H3Server, for any number of peers and any limits of a        *)
(* certificate: what accept and accept_request return is never the wrong     *)
(* end's doing, and no connection is left to nobody.                         *)
(***************************************************************************)
EXTENDS H3Server, SequenceTheorems, TLAPS

Links == {"idle", "queued", "quic", "h3", "open", "gone"}
Reasons == {"no", "peer", "peer_no_error", "timeout", "local", "dropped"}

TypeOK ==
  /\ endpoint \in {"unbound", "open", "closed"}
  /\ queue \in Seq(Peers)
  /\ link \in [Peers -> Links]
  /\ ended \in [Peers -> Reasons]
  /\ pending \in [Peers -> {"nothing", "request", "goaway"}]
  /\ asking \in [Peers -> BOOLEAN]
  /\ DOMAIN answer = Peers

\* The call in progress, if any, and how far it has carried its connection.
CallOK ==
  \/ call = NoCall
  \/ call = [at |-> "endpoint"]
  \/ \E p \in Peers : call = Called("quic", p) /\ link[p] = "quic"
  \/ \E p \in Peers : call = Called("h3", p) /\ link[p] = "h3"

\* No connection is queued twice.
QueueDistinct == \A i, j \in DOMAIN queue : queue[i] = queue[j] => i = j

\* Only close ends a connection locally, none that it finds survives it, and
\* none is carried to HTTP/3 afterwards.
ClosedOK ==
  /\ \A p \in Peers : ended[p] = "local" => endpoint = "closed" /\ link[p] # "h3"
  /\ endpoint = "closed" =>
       \A p \in Peers : link[p] # "h3" /\ (link[p] \in {"quic", "open"} => ended[p] # "no")

\* Only an open connection is asked for requests, and has answered.
AnswerOK == \A p \in Peers : asking[p] \/ answer[p] # NoAnswer => link[p] = "open"

Inv ==
  /\ TypeOK
  /\ CallOK
  /\ QueueDistinct
  /\ NoOrphanConnection
  /\ ClosedOK
  /\ AnswerOK

ResultInv == FailureHasCause /\ NoneMeansClosed
-----------------------------------------------------------------------------
(* Facts about the operators.                                               *)

LEMMA Singleton ==
  ASSUME NEW S, NEW t \in Seq(S), Len(t) = 1
  PROVE  t = <<t[1]>> /\ t # <<>>
  <1>1. t[1] \in S
    BY ElementOfSeq
  <1>2. <<t[1]>> \in Seq(S) /\ Len(<<t[1]>>) = 1 /\ <<t[1]>>[1] = t[1]
    BY <1>1
  <1>3. \A i \in 1 .. 1 : i = 1
    OBVIOUS
  <1> QED
    BY <1>2, <1>3, SeqEqual

\* The error of a failed step says which step, and why.
LEMMA TransportError ==
  ASSUME NEW kind, NEW message, NEW reason
  PROVE  LET e == transport_error(kind, message, Foreign(reason)) IN
         /\ e[1].kind = kind
         /\ source(e) = Foreign(reason)
         /\ source(e) # <<>>
  <1> DEFINE top == [variant |-> "Transport", kind |-> kind, message |-> message]
             low == [variant |-> "foreign", reason |-> reason]
  <1>1. transport_error(kind, message, Foreign(reason)) = <<top>> \o <<low>>
    BY DEF transport_error, Foreign
  <1>2. top.variant \in HasSource /\ top.kind = kind
    BY DEF HasSource
  <1> HIDE DEF top, low
  <1> DEFINE e == <<top>> \o <<low>>
             S == {top, low}
  <1>3. <<top>> \in Seq(S) /\ <<low>> \in Seq(S) /\ Len(<<top>>) = 1 /\ Len(<<low>>) = 1
    OBVIOUS
  <1>4. e \in Seq(S) /\ Len(e) = 2 /\ e[1] = top /\ e[2] = low
    BY <1>3, ConcatProperties
  <1> HIDE DEF e
  <1>5. Tail(e) \in Seq(S) /\ Len(Tail(e)) = 1 /\ Tail(e)[1] = low
    BY <1>4, HeadTailProperties
  <1>6. Tail(e) = <<low>> /\ Tail(e) # <<>>
    BY <1>5, Singleton
  <1>7. Foreign(reason) = <<low>>
    BY DEF Foreign, low
  <1> QED
    BY <1>1, <1>2, <1>4, <1>6, <1>7 DEF source, e

LEMMA ForeignInjective ==
  ASSUME NEW a, NEW b, Foreign(a) = Foreign(b)
  PROVE  a = b
  BY DEF Foreign

\* What tells a success from an error.
LEMMA Outcome ==
  /\ \A v : Ok(v).ok = TRUE
  /\ \A e : Err(e).ok = FALSE /\ Err(e).error = e
  /\ NoAnswer.ok = TRUE /\ None.ok = TRUE /\ NoAnswer # None /\ Ok("bound") # None
  /\ \A p \in Peers : Ok(p) # None
  <1>1. \A v : Ok(v).ok = TRUE /\ Ok(v).value = v
    BY DEF Ok
  <1>2. \A e : Err(e).ok = FALSE /\ Err(e).error = e
    BY DEF Err
  <1>3. \A p \in Peers : p # "none"
    BY ServerAssumption
  <1> QED
    BY <1>1, <1>2, <1>3 DEF NoAnswer, None

\* The awaits of a call, and the connection it carries.
LEMMA Calls ==
  /\ NoCall.at = "none"
  /\ [at |-> "endpoint"].at = "endpoint"
  /\ \A at, p : Called(at, p).at = at /\ Called(at, p).peer = p
  BY DEF NoCall, Called

LEMMA CarriedPeer ==
  ASSUME Inv, call.at \in {"quic", "h3"}
  PROVE  /\ call.peer \in Peers
         /\ call = Called(call.at, call.peer)
         /\ link[call.peer] = call.at
         /\ \A p \in Peers : link[p] \in {"quic", "h3"} => p = call.peer
  BY Calls DEF Inv, CallOK, NoOrphanConnection

LEMMA NothingCarried ==
  ASSUME Inv, call.at \notin {"quic", "h3"}
  PROVE  \A p \in Peers : link[p] \notin {"quic", "h3"}
  BY Calls DEF Inv, CallOK, NoOrphanConnection
-----------------------------------------------------------------------------
(* The invariant. *)

LEMMA InitInv == Init => Inv /\ ResultInv
  <1> SUFFICES ASSUME Init PROVE Inv /\ ResultInv
    OBVIOUS
  <1>1. TypeOK /\ CallOK /\ QueueDistinct
    BY DEF Init, TypeOK, CallOK, QueueDistinct, Links, Reasons
  <1>2. NoOrphanConnection /\ ClosedOK /\ AnswerOK
    BY DEF Init, NoOrphanConnection, ClosedOK, AnswerOK
  <1>3. NoAnswer.ok = TRUE /\ NoAnswer # None
    BY Outcome
  <1>4. ResultInv
    BY <1>3 DEF Init, ResultInv, FailureHasCause, NoneMeansClosed
  <1> QED
    BY <1>1, <1>2, <1>4 DEF Inv

\* Steps that leave the connections and what was returned alone.
LEMMA StartAcceptKeepsInv == Inv /\ ResultInv /\ StartAccept => Inv' /\ ResultInv'
  <1> SUFFICES ASSUME Inv, ResultInv, StartAccept PROVE Inv' /\ ResultInv'
    OBVIOUS
  <1>1. /\ call = NoCall /\ call' = [at |-> "endpoint"]
        /\ UNCHANGED <<endpoint, queue, result, link, ended, pending, asking, answer>>
    BY DEF StartAccept, requestVars
  <1>2. \A p \in Peers : link[p] \notin {"quic", "h3"}
    BY <1>1, Calls, NothingCarried
  <1>3. CallOK'
    BY <1>1 DEF CallOK
  <1> QED
    BY <1>1, <1>2, <1>3 DEF Inv, TypeOK, QueueDistinct, NoOrphanConnection, ClosedOK,
       AnswerOK, ResultInv, FailureHasCause, NoneMeansClosed

LEMMA bindKeepsInv ==
  ASSUME Inv, ResultInv, NEW names, bind(names)
  PROVE  Inv' /\ ResultInv'
  <1>1. /\ endpoint = "unbound"
        /\ UNCHANGED <<queue, call, link, ended, pending, asking, answer>>
    BY DEF bind, requestVars
  <1>2. \/ endpoint' = endpoint /\ ~result'.ok
        \/ endpoint' = "open" /\ result' = Ok("bound")
    <2>1. CASE ~generate_self_signed_cert(names).ok
      BY <2>1 DEF bind
    <2>2. CASE generate_self_signed_cert(names).ok
      BY <2>2, Outcome DEF bind
    <2> QED
      BY <2>1, <2>2
  <1>3. None.ok /\ Ok("bound").ok /\ Ok("bound") # None
    BY Outcome
  <1>4. Inv'
    BY <1>1, <1>2 DEF Inv, TypeOK, CallOK, QueueDistinct, NoOrphanConnection, ClosedOK, AnswerOK
  <1>5. ResultInv'
    BY <1>1, <1>2, <1>3 DEF Inv, ClosedOK, ResultInv, FailureHasCause, NoneMeansClosed
  <1> QED
    BY <1>4, <1>5

\* A queued connection is taken over by the call, and by nobody else.
LEMMA TakeIncomingKeepsInv == Inv /\ ResultInv /\ TakeIncoming => Inv' /\ ResultInv'
  <1> SUFFICES ASSUME Inv, ResultInv, TakeIncoming PROVE Inv' /\ ResultInv'
    OBVIOUS
  <1> DEFINE p == Head(queue)
  <1>1. /\ call.at = "endpoint" /\ queue # <<>>
        /\ queue' = Tail(queue) /\ call' = Called("quic", p)
        /\ link' = [link EXCEPT ![p] = "quic"]
        /\ UNCHANGED <<endpoint, result, pending, asking, answer>>
    BY DEF TakeIncoming, requestVars
  <1>2. PICK why \in {"no", "peer"} :
          ended' = [ended EXCEPT ![p] =
                      IF endpoint = "closed" /\ why = "no" THEN "local" ELSE why]
    BY DEF TakeIncoming
  <1>3. /\ p \in Peers /\ p = queue[1] /\ queue' \in Seq(Peers)
        /\ Len(queue) \in Nat \ {0}
        /\ DOMAIN queue = 1 .. Len(queue) /\ DOMAIN queue' = 1 .. Len(queue) - 1
        /\ \A i \in 1 .. Len(queue) - 1 : queue'[i] = queue[i + 1]
    BY <1>1 DEF Inv, TypeOK
  <1>4. link[p] = "queued" /\ \A q \in Peers : link[q] \notin {"quic", "h3"}
    BY <1>1, <1>3, NothingCarried DEF Inv, NoOrphanConnection
  <1> HIDE DEF p
  <1>5. TypeOK' /\ CallOK'
    BY <1>1, <1>2, <1>3 DEF Inv, TypeOK, CallOK, Links, Reasons
  <1>6. QueueDistinct'
    <2> SUFFICES ASSUME NEW i \in 1 .. Len(queue) - 1, NEW j \in 1 .. Len(queue) - 1,
                        queue[i + 1] = queue[j + 1]
                 PROVE  i = j
      BY <1>3 DEF QueueDistinct
    <2>1. i + 1 \in DOMAIN queue /\ j + 1 \in DOMAIN queue
      BY <1>3
    <2>2. i + 1 = j + 1
      BY <2>1 DEF Inv, QueueDistinct
    <2> QED
      BY <1>3, <2>2
  <1>7. NoOrphanConnection'
    <2>1. ASSUME NEW q \in Peers, q # p
          PROVE  (\E i \in DOMAIN queue' : queue'[i] = q) <=> \E i \in DOMAIN queue : queue[i] = q
      <3>1. ASSUME NEW i \in DOMAIN queue, queue[i] = q
            PROVE  \E j \in DOMAIN queue' : queue'[j] = q
        <4>1. i - 1 \in 1 .. Len(queue) - 1 /\ queue'[i - 1] = queue[i]
          BY <1>3, <2>1, <3>1
        <4> QED
          BY <1>3, <3>1, <4>1
      <3>2. ASSUME NEW j \in DOMAIN queue', queue'[j] = q
            PROVE  \E i \in DOMAIN queue : queue[i] = q
        <4>1. j + 1 \in DOMAIN queue /\ queue[j + 1] = q
          BY <1>3, <3>2
        <4> QED
          BY <4>1
      <3> QED
        BY <3>1, <3>2
    <2>2. ~ \E i \in DOMAIN queue' : queue'[i] = p
      BY <1>3 DEF Inv, QueueDistinct
    <2> QED
      BY <1>1, <1>2, <1>3, <1>4, <2>1, <2>2 DEF Inv, TypeOK, NoOrphanConnection
  <1>8. ClosedOK' /\ AnswerOK'
    BY <1>1, <1>2, <1>3, <1>4 DEF Inv, TypeOK, ClosedOK, AnswerOK
  <1>9. ResultInv'
    <2>1. \A q \in Peers : ~answer[q].ok => q # p /\ ended'[q] = ended[q]
      BY <1>2, <1>3, <1>4, Outcome DEF Inv, TypeOK, AnswerOK
    <2> QED
      BY <1>1, <1>3, <2>1, <1>8 DEF ResultInv, FailureHasCause, NoneMeansClosed, ClosedOK
  <1> QED
    BY <1>5, <1>6, <1>7, <1>8, <1>9 DEF Inv

\* The call carries its connection a step further, hands it out or gives it up.
LEMMA CarryingKeepsInv ==
  ASSUME Inv, call.at \in {"quic", "h3"}, NEW x \in {"h3", "open", "gone"},
         link' = [link EXCEPT ![call.peer] = x],
         ended' \in [Peers -> Reasons],
         \A q \in Peers \ {call.peer} : ended'[q] = ended[q],
         ended'[call.peer] = "local" => endpoint = "closed",
         x = "gone" => ended'[call.peer] # "no",
         x \in {"h3", "open"} => endpoint # "closed",
         call' = IF x = "h3" THEN Called("h3", call.peer) ELSE NoCall,
         UNCHANGED <<endpoint, queue, pending, asking, answer>>
  PROVE  Inv'
  <1> DEFINE p == call.peer
  <1>1. /\ p \in Peers /\ link[p] = call.at /\ link[p] \in {"quic", "h3"}
        /\ \A q \in Peers : link[q] \in {"quic", "h3"} => q = p
    BY CarriedPeer
  <1>2. /\ link' = [link EXCEPT ![p] = x] /\ \A q \in Peers \ {p} : ended'[q] = ended[q]
        /\ ended'[p] = "local" => endpoint = "closed"
        /\ x = "gone" => ended'[p] # "no"
        /\ call' = IF x = "h3" THEN Called("h3", p) ELSE NoCall
    OBVIOUS
  <1> HIDE DEF p
  <1>3. TypeOK' /\ QueueDistinct'
    <2>1. link' \in [Peers -> Links]
      BY <1>2 DEF Inv, TypeOK, Links
    <2> QED
      BY <2>1 DEF Inv, TypeOK, QueueDistinct
  <1>4. CallOK'
    BY <1>1, <1>2 DEF Inv, TypeOK, CallOK
  <1>5. NoOrphanConnection'
    <2> SUFFICES ASSUME NEW q \in Peers
                 PROVE  /\ link'[q] \in {"quic", "h3"} => call' = Called(link'[q], q)
                        /\ link'[q] = "gone" => ended'[q] # "no"
                        /\ link'[q] = "queued" <=> \E i \in DOMAIN queue : queue[i] = q
      BY DEF NoOrphanConnection
    <2>1. CASE q = p
      BY <1>1, <1>2, <2>1 DEF Inv, TypeOK, NoOrphanConnection
    <2>2. CASE q # p
      BY <1>1, <1>2, <2>2 DEF Inv, TypeOK, NoOrphanConnection
    <2> QED
      BY <2>1, <2>2
  <1>6. ClosedOK'
    BY <1>1, <1>2 DEF Inv, TypeOK, ClosedOK
  <1>7. AnswerOK'
    BY <1>1, <1>2 DEF Inv, TypeOK, AnswerOK
  <1> QED
    BY <1>3, <1>4, <1>5, <1>6, <1>7 DEF Inv

\* What accept has returned before stays true of what is still there.
LEMMA OtherAnswersStay ==
  ASSUME Inv, ResultInv, call.at \in {"quic", "h3"},
         \A q \in Peers \ {call.peer} : ended'[q] = ended[q], UNCHANGED answer
  PROVE  \A q \in Peers : ~answer'[q].ok =>
           /\ ended'[q] \notin {"no", "peer_no_error"}
           /\ source(answer'[q].error) = Foreign(ended'[q])
  <1> SUFFICES ASSUME NEW q \in Peers, ~answer[q].ok
               PROVE  /\ ended'[q] \notin {"no", "peer_no_error"}
                      /\ source(answer[q].error) = Foreign(ended'[q])
    OBVIOUS
  <1>1. link[q] = "open"
    BY Outcome DEF Inv, AnswerOK
  <1>2. q # call.peer
    BY <1>1, CarriedPeer
  <1> QED
    BY <1>2 DEF ResultInv, FailureHasCause

LEMMA AcceptNoneKeepsInv == Inv /\ ResultInv /\ AcceptNone => Inv' /\ ResultInv'
  <1> SUFFICES ASSUME Inv, ResultInv, AcceptNone PROVE Inv' /\ ResultInv'
    OBVIOUS
  <1>1. /\ call.at = "endpoint" /\ endpoint = "closed" /\ call' = NoCall /\ result' = None
        /\ UNCHANGED <<endpoint, queue, link, ended, pending, asking, answer>>
    BY DEF AcceptNone, Return, requestVars
  <1>2. \A p \in Peers : link[p] \notin {"quic", "h3"}
    BY <1>1, NothingCarried
  <1>3. Inv'
    BY <1>1, <1>2 DEF Inv, TypeOK, CallOK, QueueDistinct, NoOrphanConnection, ClosedOK, AnswerOK
  <1>4. ResultInv'
    BY <1>1, <1>2, Outcome DEF ResultInv, FailureHasCause, NoneMeansClosed
  <1> QED
    BY <1>3, <1>4

LEMMA QuicDoneKeepsInv == Inv /\ ResultInv /\ QuicDone => Inv' /\ ResultInv'
  <1> SUFFICES ASSUME Inv, ResultInv, QuicDone PROVE Inv' /\ ResultInv'
    OBVIOUS
  <1>1. /\ call.at = "quic" /\ ended[call.peer] = "no" /\ call' = Called("h3", call.peer)
        /\ link' = [link EXCEPT ![call.peer] = "h3"]
        /\ UNCHANGED <<endpoint, queue, result, ended, pending, asking, answer>>
    BY DEF QuicDone, requestVars
  <1>2. call.peer \in Peers /\ link[call.peer] = "quic"
    BY <1>1, CarriedPeer
  <1>3. endpoint # "closed"
    BY <1>1, <1>2 DEF Inv, ClosedOK
  <1>4. Inv'
    BY <1>1, <1>2, <1>3, CarryingKeepsInv DEF Inv, TypeOK
  <1>5. ResultInv'
    BY <1>1, <1>3 DEF ResultInv, FailureHasCause, NoneMeansClosed
  <1> QED
    BY <1>4, <1>5

LEMMA QuicFailsKeepsInv == Inv /\ ResultInv /\ QuicFails => Inv' /\ ResultInv'
  <1> SUFFICES ASSUME Inv, ResultInv, QuicFails PROVE Inv' /\ ResultInv'
    OBVIOUS
  <1> DEFINE why == ended[call.peer]
             e == transport_error("QuicHandshake", <<"QUIC handshake failed">>, Foreign(why))
  <1>1. /\ call.at = "quic" /\ why # "no" /\ call' = NoCall
        /\ result' = IF why = "local" THEN None ELSE Err(e)
        /\ link' = [link EXCEPT ![call.peer] = "gone"]
        /\ UNCHANGED <<endpoint, queue, ended, pending, asking, answer>>
    BY DEF QuicFails, Return, requestVars
  <1>2. e[1].kind = "QuicHandshake" /\ source(e) = Foreign(why) /\ source(e) # <<>>
    BY ZenonT(40), TransportError
  <1> HIDE DEF e
  <1>3. call.peer \in Peers /\ link[call.peer] = "quic"
    BY <1>1, CarriedPeer
  <1>4. why = "local" => endpoint = "closed"
    BY <1>3 DEF Inv, ClosedOK
  <1>5. Inv'
    BY <1>1, <1>3, <1>4, CarryingKeepsInv DEF Inv, TypeOK
  <1>6. ~result'.ok => /\ result'.error[1].kind = "QuicHandshake"
                       /\ source(result'.error) # <<>> /\ ~Local(result'.error)
    <2>1. CASE why = "local"
      BY <1>1, <2>1, Outcome
    <2>2. CASE why # "local"
      BY <1>1, <1>2, <2>2, Outcome, ForeignInjective DEF Local
    <2> QED
      BY <2>1, <2>2
  <1>7. FailureHasCause'
    BY <1>1, <1>6, OtherAnswersStay DEF FailureHasCause, Local
  <1>8. NoneMeansClosed'
    <2>1. result' = None => endpoint' = "closed"
      BY <1>1, <1>4, Outcome
    <2> QED
      BY <1>5, <2>1 DEF NoneMeansClosed, Inv, ClosedOK
  <1> QED
    BY <1>5, <1>7, <1>8 DEF ResultInv

LEMMA H3DoneKeepsInv == Inv /\ ResultInv /\ H3Done => Inv' /\ ResultInv'
  <1> SUFFICES ASSUME Inv, ResultInv, H3Done PROVE Inv' /\ ResultInv'
    OBVIOUS
  <1>1. /\ call.at = "h3" /\ ended[call.peer] = "no" /\ call' = NoCall
        /\ result' = Ok(call.peer)
        /\ link' = [link EXCEPT ![call.peer] = "open"]
        /\ UNCHANGED <<endpoint, queue, ended, pending, asking, answer>>
    BY DEF H3Done, Return, requestVars
  <1>2. call.peer \in Peers /\ link[call.peer] = "h3"
    BY <1>1, CarriedPeer
  <1>3. endpoint # "closed"
    BY <1>2 DEF Inv, ClosedOK
  <1>4. Inv'
    BY <1>1, <1>2, <1>3, CarryingKeepsInv DEF Inv, TypeOK
  <1>5. ResultInv'
    BY <1>1, <1>2, <1>3, Outcome DEF ResultInv, FailureHasCause, NoneMeansClosed
  <1> QED
    BY <1>4, <1>5

\* A set-up of HTTP/3 that fails is never the victim of close.
LEMMA H3FailsKeepsInv == Inv /\ ResultInv /\ H3Fails => Inv' /\ ResultInv'
  <1> SUFFICES ASSUME Inv, ResultInv, H3Fails PROVE Inv' /\ ResultInv'
    OBVIOUS
  <1> DEFINE why == ended[call.peer]
             e == transport_error("H3Handshake", <<"HTTP/3 handshake failed">>, Foreign(why))
  <1>1. /\ call.at = "h3" /\ why # "no" /\ call' = NoCall /\ result' = Err(e)
        /\ link' = [link EXCEPT ![call.peer] = "gone"]
        /\ UNCHANGED <<endpoint, queue, ended, pending, asking, answer>>
    BY DEF H3Fails, Return, requestVars
  <1>2. e[1].kind = "H3Handshake" /\ source(e) = Foreign(why) /\ source(e) # <<>>
    BY ZenonT(40), TransportError
  <1> HIDE DEF e
  <1>3. call.peer \in Peers /\ link[call.peer] = "h3"
    BY <1>1, CarriedPeer
  <1>4. why # "local"
    BY <1>3 DEF Inv, ClosedOK
  <1>5. Inv'
    BY <1>1, <1>3, <1>4, CarryingKeepsInv DEF Inv, TypeOK
  <1>6. /\ result'.error[1].kind = "H3Handshake"
        /\ source(result'.error) # <<>> /\ ~Local(result'.error) /\ ~result'.ok
    BY <1>1, <1>2, <1>4, Outcome, ForeignInjective DEF Local
  <1>7. FailureHasCause'
    BY <1>1, <1>6, OtherAnswersStay DEF FailureHasCause, Local
  <1>8. NoneMeansClosed'
    BY <1>5, <1>6, Outcome DEF NoneMeansClosed, Inv, ClosedOK
  <1> QED
    BY <1>5, <1>7, <1>8 DEF ResultInv

\* A cancelled call ends what it carries.
LEMMA CancelAcceptKeepsInv == Inv /\ ResultInv /\ CancelAccept => Inv' /\ ResultInv'
  <1> SUFFICES ASSUME Inv, ResultInv, CancelAccept PROVE Inv' /\ ResultInv'
    OBVIOUS
  <1>1. call # NoCall /\ call' = NoCall
        /\ UNCHANGED <<endpoint, queue, result, pending, asking, answer>>
    BY DEF CancelAccept, requestVars
  <1>2. CASE call.at = "endpoint"
    <2>1. UNCHANGED <<link, ended>>
      BY <1>2 DEF CancelAccept
    <2>2. \A p \in Peers : link[p] \notin {"quic", "h3"}
      BY <1>2, NothingCarried
    <2>3. Inv'
      BY <1>1, <2>1, <2>2
         DEF Inv, TypeOK, CallOK, QueueDistinct, NoOrphanConnection, ClosedOK, AnswerOK
    <2>4. ResultInv'
      BY <1>1, <2>1 DEF ResultInv, FailureHasCause, NoneMeansClosed
    <2> QED
      BY <2>3, <2>4
  <1>3. CASE call.at # "endpoint"
    <2>1. call.at \in {"quic", "h3"}
      BY <1>1, <1>3, Calls DEF Inv, CallOK
    <2>2. /\ link' = [link EXCEPT ![call.peer] = "gone"]
          /\ ended' = [ended EXCEPT ![call.peer] = Dropped(call.peer)]
      BY <1>3 DEF CancelAccept
    <2>3. call.peer \in Peers
      BY <2>1, CarriedPeer
    <2>4. /\ Dropped(call.peer) \in Reasons \ {"no"}
          /\ Dropped(call.peer) = "local" => endpoint = "closed"
      BY <2>3 DEF Dropped, Inv, TypeOK, ClosedOK, Reasons
    <2>5. /\ ended' \in [Peers -> Reasons] /\ ended'[call.peer] = Dropped(call.peer)
          /\ \A q \in Peers \ {call.peer} : ended'[q] = ended[q]
      BY <2>2, <2>3, <2>4 DEF Inv, TypeOK
    <2>6. Inv'
      BY <1>1, <2>1, <2>2, <2>3, <2>4, <2>5, CarryingKeepsInv
    <2>7. FailureHasCause'
      BY <1>1, <2>1, <2>5, OtherAnswersStay DEF ResultInv, FailureHasCause
    <2>8. NoneMeansClosed'
      BY <1>1, <2>6 DEF ResultInv, NoneMeansClosed, Inv, ClosedOK
    <2> QED
      BY <2>6, <2>7, <2>8 DEF ResultInv
  <1> QED
    BY <1>2, <1>3

\* A closed server ends what it has accepted; nothing is being carried then.
LEMMA closeKeepsInv == Inv /\ ResultInv /\ close => Inv' /\ ResultInv'
  <1> SUFFICES ASSUME Inv, ResultInv, close PROVE Inv' /\ ResultInv'
    OBVIOUS
  <1>1. /\ endpoint # "unbound" /\ call = NoCall /\ endpoint' = "closed"
        /\ ended' = [p \in Peers |-> IF p \in Accepted /\ ended[p] = "no" THEN "local" ELSE ended[p]]
        /\ UNCHANGED <<queue, call, result, link, pending, asking, answer>>
    BY DEF close, requestVars
  <1>2. \A p \in Peers : link[p] \notin {"quic", "h3"}
    BY <1>1, NothingCarried, Calls
  <1>3. \A p \in Peers : /\ ended'[p] = ended[p] \/ (ended'[p] = "local" /\ ended[p] = "no")
                         /\ link[p] = "open" => ended'[p] # "no"
    BY <1>1 DEF Accepted
  <1>4. TypeOK' /\ CallOK' /\ QueueDistinct' /\ AnswerOK'
    BY <1>1, <1>2 DEF Inv, TypeOK, CallOK, QueueDistinct, AnswerOK, Reasons
  <1>5. NoOrphanConnection' /\ ClosedOK'
    BY <1>1, <1>2, <1>3 DEF Inv, NoOrphanConnection, ClosedOK
  <1>6. ResultInv'
    <2>1. \A p \in Peers : ~answer[p].ok => ended'[p] = ended[p]
      BY <1>3 DEF ResultInv, FailureHasCause
    <2> QED
      BY <1>1, <1>2, <2>1 DEF ResultInv, FailureHasCause, NoneMeansClosed
  <1> QED
    BY <1>4, <1>5, <1>6 DEF Inv

LEMMA StartRequestKeepsInv ==
  ASSUME Inv, ResultInv, NEW p \in Peers, StartRequest(p)
  PROVE  Inv' /\ ResultInv'
  <1>1. /\ link[p] = "open" /\ asking' = [asking EXCEPT ![p] = TRUE]
        /\ UNCHANGED <<endpoint, queue, call, result, link, ended, pending, answer>>
    BY DEF StartRequest, serverVars
  <1>2. TypeOK' /\ AnswerOK'
    BY <1>1 DEF Inv, TypeOK, AnswerOK
  <1> QED
    BY <1>1, <1>2 DEF Inv, CallOK, QueueDistinct, NoOrphanConnection, ClosedOK,
       ResultInv, FailureHasCause, NoneMeansClosed

\* A request fails for a reason other than the peer's close without error.
LEMMA FinishRequestKeepsInv ==
  ASSUME Inv, ResultInv, NEW p \in Peers, FinishRequest(p)
  PROVE  Inv' /\ ResultInv'
  <1>1. /\ asking[p] /\ asking' = [asking EXCEPT ![p] = FALSE]
        /\ UNCHANGED <<endpoint, queue, call, result, link, ended>>
    BY DEF FinishRequest, serverVars
  <1>2. PICK outcome \in Outcomes(p) :
          /\ answer' = [answer EXCEPT ![p] = accept_request(p, outcome)]
          /\ pending' = IF outcome = "request" THEN [pending EXCEPT ![p] = "nothing"] ELSE pending
    BY DEF FinishRequest
  <1>3. link[p] = "open" /\ p \in DOMAIN answer
    BY <1>1 DEF Inv, TypeOK, AnswerOK
  <1>4. TypeOK'
    <2>1. asking' \in [Peers -> BOOLEAN] /\ DOMAIN answer' = Peers
      BY <1>1, <1>2 DEF Inv, TypeOK
    <2>2. pending' \in [Peers -> {"nothing", "request", "goaway"}]
      BY <1>2 DEF Inv, TypeOK
    <2> QED
      BY <1>1, <2>1, <2>2 DEF Inv, TypeOK
  <1>5. AnswerOK'
    BY <1>1, <1>2, <1>3 DEF Inv, TypeOK, AnswerOK
  <1>6. outcome \in {"request", "goaway", "no_error"}
          \/ ended[p] \notin {"no", "peer_no_error"}
    BY <1>2 DEF Outcomes, Inv, TypeOK
  <1>7. LET a == accept_request(p, outcome) IN
          ~a.ok => ended[p] \notin {"no", "peer_no_error"} /\ source(a.error) = Foreign(ended[p])
    <2> DEFINE e == transport_error("RequestAccept", <<"failed to accept">>, Foreign(ended[p]))
    <2>1. CASE outcome \in {"request", "goaway", "no_error"}
      BY <2>1, Outcome DEF accept_request
    <2>2. CASE outcome \notin {"request", "goaway", "no_error"}
      <3>1. accept_request(p, outcome) = Err(e)
        BY <2>2 DEF accept_request
      <3>2. source(e) = Foreign(ended[p])
        BY TransportError
      <3> QED
        BY <1>6, <2>2, <3>1, <3>2, Outcome
    <2> QED
      BY <2>1, <2>2
  <1>8. ResultInv'
    <2>1. answer'[p] = accept_request(p, outcome) /\ \A q \in Peers \ {p} : answer'[q] = answer[q]
      BY <1>2, <1>3 DEF Inv, TypeOK
    <2> QED
      BY <1>1, <1>7, <2>1 DEF ResultInv, FailureHasCause, NoneMeansClosed
  <1> QED
    BY <1>1, <1>4, <1>5, <1>8 DEF Inv, CallOK, QueueDistinct, NoOrphanConnection, ClosedOK

LEMMA DropConnectionKeepsInv ==
  ASSUME Inv, ResultInv, NEW p \in Peers, DropConnection(p)
  PROVE  Inv' /\ ResultInv'
  <1>1. /\ link[p] = "open" /\ link' = [link EXCEPT ![p] = "gone"]
        /\ ended' = [ended EXCEPT ![p] = Dropped(p)]
        /\ asking' = [asking EXCEPT ![p] = FALSE]
        /\ answer' = [answer EXCEPT ![p] = NoAnswer]
        /\ pending' = [pending EXCEPT ![p] = "nothing"]
        /\ UNCHANGED <<endpoint, queue, call, result>>
    BY DEF DropConnection, serverVars
  <1>2. Dropped(p) \in Reasons \ {"no"} /\ (Dropped(p) = "local" => endpoint = "closed")
    BY DEF Dropped, Inv, TypeOK, ClosedOK, Reasons
  <1>3. TypeOK'
    <2>1. link' \in [Peers -> Links] /\ ended' \in [Peers -> Reasons]
      BY <1>1, <1>2 DEF Inv, TypeOK, Links
    <2>2. /\ asking' \in [Peers -> BOOLEAN] /\ DOMAIN answer' = Peers
          /\ pending' \in [Peers -> {"nothing", "request", "goaway"}]
      BY <1>1 DEF Inv, TypeOK
    <2> QED
      BY <1>1, <2>1, <2>2 DEF Inv, TypeOK
  <1>4. /\ link'[p] = "gone" /\ ended'[p] = Dropped(p) /\ ~asking'[p] /\ answer'[p] = NoAnswer
        /\ \A q \in Peers \ {p} : /\ link'[q] = link[q] /\ ended'[q] = ended[q]
                                  /\ asking'[q] = asking[q] /\ answer'[q] = answer[q]
    BY <1>1 DEF Inv, TypeOK
  <1>5. CallOK' /\ QueueDistinct'
    BY <1>1, <1>4 DEF Inv, CallOK, QueueDistinct
  <1>6. NoOrphanConnection'
    BY <1>1, <1>2, <1>4 DEF Inv, NoOrphanConnection
  <1>7. ClosedOK' /\ AnswerOK'
    BY <1>1, <1>2, <1>4 DEF Inv, ClosedOK, AnswerOK
  <1>8. ResultInv'
    BY <1>1, <1>4, Outcome DEF ResultInv, FailureHasCause, NoneMeansClosed
  <1> QED
    BY <1>3, <1>5, <1>6, <1>7, <1>8 DEF Inv

\* A peer that has never connected is not in the queue.
LEMMA ConnectKeepsInv ==
  ASSUME Inv, ResultInv, NEW p \in Peers, Connect(p)
  PROVE  Inv' /\ ResultInv'
  <1>1. /\ endpoint = "open" /\ link[p] = "idle"
        /\ queue' = Append(queue, p) /\ link' = [link EXCEPT ![p] = "queued"]
        /\ UNCHANGED <<endpoint, call, result, ended, pending, asking, answer>>
    BY DEF Connect, requestVars
  <1>2. /\ queue' \in Seq(Peers) /\ Len(queue) \in Nat /\ DOMAIN queue = 1 .. Len(queue)
        /\ DOMAIN queue' = 1 .. Len(queue) + 1 /\ queue'[Len(queue) + 1] = p
        /\ \A i \in 1 .. Len(queue) : queue'[i] = queue[i]
    BY <1>1 DEF Inv, TypeOK
  <1>3. link'[p] = "queued" /\ \A q \in Peers \ {p} : link'[q] = link[q]
    BY <1>1 DEF Inv, TypeOK
  <1>4. \A i \in DOMAIN queue : queue[i] # p
    BY <1>1 DEF Inv, NoOrphanConnection
  <1>5. TypeOK'
    <2>1. link' \in [Peers -> Links]
      BY <1>1 DEF Inv, TypeOK, Links
    <2> QED
      BY <1>1, <1>2, <2>1 DEF Inv, TypeOK
  <1>6. CallOK' /\ ClosedOK' /\ AnswerOK'
    BY <1>1, <1>3 DEF Inv, CallOK, ClosedOK, AnswerOK
  <1>7. QueueDistinct'
    BY <1>2, <1>4 DEF Inv, QueueDistinct
  <1>8. NoOrphanConnection'
    <2> SUFFICES ASSUME NEW q \in Peers
                 PROVE  /\ link'[q] \in {"quic", "h3"} => call' = Called(link'[q], q)
                        /\ link'[q] = "gone" => ended'[q] # "no"
                        /\ link'[q] = "queued" <=> \E i \in DOMAIN queue' : queue'[i] = q
      BY DEF NoOrphanConnection
    <2>1. CASE q = p
      BY <1>2, <1>3, <2>1
    <2>2. CASE q # p
      <3>1. (\E i \in DOMAIN queue' : queue'[i] = q) <=> \E i \in DOMAIN queue : queue[i] = q
        BY <1>2, <2>2
      <3> QED
        BY <1>1, <1>3, <2>2, <3>1 DEF Inv, NoOrphanConnection
    <2> QED
      BY <2>1, <2>2
  <1>9. ResultInv'
    BY <1>1, <1>3 DEF ResultInv, FailureHasCause, NoneMeansClosed
  <1> QED
    BY <1>5, <1>6, <1>7, <1>8, <1>9 DEF Inv

LEMMA SendKeepsInv ==
  ASSUME Inv, ResultInv, NEW p \in Peers, NEW frame \in {"request", "goaway"}, Send(p, frame)
  PROVE  Inv' /\ ResultInv'
  <1>1. /\ pending' = [pending EXCEPT ![p] = frame]
        /\ UNCHANGED <<endpoint, queue, call, result, link, ended, asking, answer>>
    BY DEF Send, serverVars
  <1>2. TypeOK'
    BY <1>1 DEF Inv, TypeOK
  <1> QED
    BY <1>1, <1>2 DEF Inv, CallOK, QueueDistinct, NoOrphanConnection, ClosedOK, AnswerOK,
       ResultInv, FailureHasCause, NoneMeansClosed

\* A connection that ends has not ended before, so it has not failed a request.
LEMMA ConnectionEndsKeepsInv ==
  ASSUME Inv, ResultInv, NEW p \in Peers, NEW why \in {"peer", "peer_no_error", "timeout"},
         ConnectionEnds(p, why)
  PROVE  Inv' /\ ResultInv'
  <1>1. /\ ended[p] = "no" /\ ended' = [ended EXCEPT ![p] = why]
        /\ UNCHANGED <<endpoint, queue, call, result, link, pending, asking, answer>>
    BY DEF ConnectionEnds, serverVars, requestVars
  <1>2. TypeOK'
    <2>1. ended' \in [Peers -> Reasons]
      BY <1>1 DEF Inv, TypeOK, Reasons
    <2> QED
      BY <1>1, <2>1 DEF Inv, TypeOK
  <1>3. ended'[p] = why /\ \A q \in Peers \ {p} : ended'[q] = ended[q]
    BY <1>1 DEF Inv, TypeOK
  <1>4. NoOrphanConnection' /\ ClosedOK'
    BY <1>1, <1>3 DEF Inv, NoOrphanConnection, ClosedOK
  <1>5. ResultInv'
    BY <1>1, <1>3 DEF ResultInv, FailureHasCause, NoneMeansClosed
  <1> QED
    BY <1>1, <1>2, <1>4, <1>5 DEF Inv, CallOK, QueueDistinct, AnswerOK

LEMMA StepInv == Inv /\ ResultInv /\ [Next]_vars => Inv' /\ ResultInv'
  <1> SUFFICES ASSUME Inv, ResultInv, [Next]_vars PROVE Inv' /\ ResultInv'
    OBVIOUS
  <1>1. ASSUME NEW names, bind(names) PROVE Inv' /\ ResultInv'
    BY <1>1, bindKeepsInv
  <1>2. CASE StartAccept \/ TakeIncoming \/ AcceptNone \/ CancelAccept \/ close
    BY <1>2, StartAcceptKeepsInv, TakeIncomingKeepsInv, AcceptNoneKeepsInv,
       CancelAcceptKeepsInv, closeKeepsInv
  <1>3. CASE QuicDone \/ QuicFails \/ H3Done \/ H3Fails
    BY <1>3, QuicDoneKeepsInv, QuicFailsKeepsInv, H3DoneKeepsInv, H3FailsKeepsInv
  <1>4. ASSUME NEW p \in Peers, StartRequest(p) \/ FinishRequest(p) \/ DropConnection(p)
        PROVE  Inv' /\ ResultInv'
    BY <1>4, StartRequestKeepsInv, FinishRequestKeepsInv, DropConnectionKeepsInv
  <1>5. ASSUME NEW p \in Peers, Connect(p) \/ Send(p, "request") \/ Send(p, "goaway")
        PROVE  Inv' /\ ResultInv'
    BY <1>5, ConnectKeepsInv, SendKeepsInv
  <1>6. ASSUME NEW p \in Peers, NEW why \in {"peer", "peer_no_error", "timeout"},
               ConnectionEnds(p, why)
        PROVE  Inv' /\ ResultInv'
    BY <1>6, ConnectionEndsKeepsInv
  <1>7. CASE UNCHANGED vars
    BY <1>7 DEF vars, serverVars, requestVars, Inv, TypeOK, CallOK, QueueDistinct,
       NoOrphanConnection, ClosedOK, AnswerOK, ResultInv, FailureHasCause, NoneMeansClosed
  <1> QED
    BY <1>1, <1>2, <1>3, <1>4, <1>5, <1>6, <1>7 DEF Next

LEMMA AlwaysInv == Spec => [](Inv /\ ResultInv)
  BY InitInv, StepInv, PTL DEF Spec
-----------------------------------------------------------------------------
(* The theorems. *)

\* A step of accept that fails keeps why it failed and is never the victim of the
\* server's own close, and accept_request fails only on a connection that ended
\* with an error.
THEOREM AcceptFailuresHaveCauses == Spec => []FailureHasCause
  <1>1. Inv /\ ResultInv => FailureHasCause
    BY DEF ResultInv
  <1> QED
    BY <1>1, AlwaysInv, PTL

\* As long as quinn's endpoint task runs, accept returns None only after close, and
\* nothing is carried to HTTP/3 and handed out after it, whatever is still queued.
THEOREM NoneOnlyWhenClosed == Spec => []NoneMeansClosed
  <1>1. Inv /\ ResultInv => NoneMeansClosed
    BY DEF ResultInv
  <1> QED
    BY <1>1, AlwaysInv, PTL

\* A connection that accept has taken is in the call in progress, with the caller
\* or over, also when the call is cancelled at either await, and the queue holds
\* exactly the connections that wait.
THEOREM AcceptLosesNoConnection == Spec => []NoOrphanConnection
  <1>1. Inv /\ ResultInv => NoOrphanConnection
    BY DEF Inv
  <1> QED
    BY <1>1, AlwaysInv, PTL
=============================================================================
