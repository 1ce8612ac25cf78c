----------------------------- MODULE H3Client -----------------------------
(***************************************************************************)
(* H3Client of src/crates/masque/src/client.rs: the handle the application   *)
(* holds, the background task that drives the HTTP/3 connection, and the     *)
(* QUIC connection under both.  The task waits for the oneshot close signal  *)
(* or for the end of the connection, whichever it sees first; close sends    *)
(* the signal, closes the endpoint and awaits the task; Drop does the same   *)
(* without waiting and aborts the task.                                      *)
(*                                                                          *)
(* The task looks at the signal and then at the connection, two steps of one *)
(* poll: on a runtime with several worker threads the application and the    *)
(* QUIC stack run in between, on one with a single thread they do not.       *)
(*                                                                          *)
(* The connection (quinn, h3) is external: closing the endpoint only asks    *)
(* for its end, it ends once, for the first reason that reaches it, and the  *)
(* task can see why.                                                         *)
(***************************************************************************)

CONSTANT
  Runtimes  (* the tokio runtimes to consider: "single" or "multi" threaded *)

ASSUME RuntimesAssumption == Runtimes \subseteq {"single", "multi"}

VARIABLES
  app,      (* where the application is: a phase of connect, "connected", a  *)
            (* step of close or drop, or "gone"                              *)
  result,   (* what connect or close has returned; "none" before             *)
  conn,     (* "none", "open", "closing" (asked for), or why it ended        *)
  signal,   (* the oneshot close channel: "none", "open", "sent", "dropped"  *)
  driver,   (* the task: "none", "racing" (in select!), "polling" (no signal *)
            (* seen, connection next), "draining" (signal seen), "finished"  *)
  outcome,  (* what the finished task evaluates to                           *)
  handle,   (* the JoinHandle: "none", "held", "awaited", "detached",        *)
            (* "aborted"                                                     *)
  early,    (* history: the connection failed before any signal was sent     *)
  runtime   (* the runtime the program was started on                        *)

vars == <<app, result, conn, signal, driver, outcome, handle, early, runtime>>

\* Why a connection ends: the endpoint closed it here, the peer closed it
\* with H3_NO_ERROR, or anything else (peer error, timeout, reset).
Ended == {"local", "peer_no_error", "abnormal"}

ConnectPhases == {"creating", "initiating", "quic_handshake", "h3_handshake"}

\* The TransportKind each phase of connect fails with.
FailureOf(phase) ==
  CASE phase = "creating" -> "EndpointCreation"
    [] phase = "initiating" -> "Connect"
    [] phase = "quic_handshake" -> "QuicHandshake"
    [] phase = "h3_handshake" -> "H3Handshake"

NextPhase(phase) ==
  CASE phase = "creating" -> "initiating"
    [] phase = "initiating" -> "quic_handshake"
    [] phase = "quic_handshake" -> "h3_handshake"
    [] phase = "h3_handshake" -> "connected"

\* On a single thread nobody else runs inside a poll of the task, nor inside
\* the application's code between two awaits.
AppMayRun == runtime = "multi" \/ driver # "polling"
TasksMayRun == runtime = "multi" \/ app \notin {"signalled", "dropping", "aborting"}
-----------------------------------------------------------------------------
Init ==
  /\ app = "creating"
  /\ result = "none"
  /\ conn = "none"
  /\ signal = "none"
  /\ driver = "none"
  /\ outcome = "none"
  /\ handle = "none"
  /\ early = FALSE
  /\ runtime \in Runtimes

\* endpoint.close: a connection that has already ended keeps its reason.
EndpointClose == conn' = IF conn = "open" THEN "closing" ELSE conn

\* A phase of connect succeeds; the last one spawns the driver task.
ConnectStep ==
  /\ app \in ConnectPhases
  /\ app' = NextPhase(app)
  /\ conn' = IF app = "quic_handshake" THEN "open" ELSE conn
  /\ IF app = "h3_handshake"
     THEN signal' = "open" /\ driver' = "racing" /\ handle' = "held"
     ELSE UNCHANGED <<signal, driver, handle>>
  /\ UNCHANGED <<result, outcome, early, runtime>>

\* A phase fails: the endpoint and the connection are dropped, no task exists.
ConnectFails ==
  /\ app \in ConnectPhases
  /\ result' = FailureOf(app)
  /\ app' = "gone"
  /\ EndpointClose
  /\ UNCHANGED <<signal, driver, outcome, handle, early, runtime>>

\* Outside the crate: the connection ends, at the endpoint's request or
\* because of the peer or the network.
ConnectionEnds(why) ==
  /\ AppMayRun /\ TasksMayRun
  /\ conn = "closing" \/ (conn = "open" /\ why # "local")
  /\ conn' = why
  /\ early' = (why = "abnormal" /\ signal \in {"none", "open"})
  /\ UNCHANGED <<app, result, signal, driver, outcome, handle, runtime>>
-----------------------------------------------------------------------------
(* The driver task.  The select is biased: the signal is looked at first.   *)

PollsSignal ==
  /\ TasksMayRun
  /\ driver = "racing"
  /\ driver' = IF signal = "open" THEN "polling" ELSE "draining"
  /\ UNCHANGED <<app, result, conn, signal, outcome, handle, early, runtime>>

\* Mutants of PollsConnection: the graceful close of the peer is an error too;
\* the error is not turned into DriverClosed.
PollsConnectionStrictly ==
  /\ TasksMayRun
  /\ driver = "polling"
  /\ IF conn \in Ended
     THEN driver' = "finished" /\ outcome' = "DriverClosed"
     ELSE driver' = "racing" /\ UNCHANGED outcome
  /\ UNCHANGED <<app, result, conn, signal, handle, early, runtime>>
\* poll_close without a signal: only H3_NO_ERROR from the peer is Ok.  A
\* connection that is still up suspends the task until something wakes it.
PollsConnection ==
  /\ TasksMayRun
  /\ driver = "polling"
  /\ IF conn \in Ended
     THEN /\ driver' = "finished"
          /\ outcome' = IF conn = "peer_no_error" THEN "Ok" ELSE "DriverClosed"
     ELSE driver' = "racing" /\ UNCHANGED outcome
  /\ UNCHANGED <<app, result, conn, signal, handle, early, runtime>>

\* Mutant of FinishesDraining: the task waits for the peer's H3_NO_ERROR.
FinishesOnPeerClose ==
  /\ TasksMayRun
  /\ driver = "draining"
  /\ conn = "peer_no_error"
  /\ driver' = "finished"
  /\ outcome' = "Ok"
  /\ UNCHANGED <<app, result, conn, signal, handle, early, runtime>>

\* poll_close after the signal: Ok whatever the reason.
FinishesDraining ==
  /\ TasksMayRun
  /\ driver = "draining"
  /\ conn \in Ended
  /\ driver' = "finished"
  /\ outcome' = "Ok"
  /\ UNCHANGED <<app, result, conn, signal, handle, early, runtime>>

\* abort takes effect when the runtime would next poll the task.
Cancelled ==
  /\ TasksMayRun
  /\ driver \in {"racing", "draining"}
  /\ handle = "aborted"
  /\ driver' = "finished"
  /\ outcome' = "Cancelled"
  /\ UNCHANGED <<app, result, conn, signal, handle, early, runtime>>

\* What wakes the suspended task: the signal or the end of the connection.
Woken == driver # "racing" \/ signal # "open" \/ conn \in Ended

Driver == PollsSignal \/ PollsConnection \/ FinishesDraining \/ Cancelled
-----------------------------------------------------------------------------
(* close(self).                                                             *)

\* Mutant of SendSignal: the task is not told that a close is under way.
SendSignalSkipped ==
  /\ AppMayRun
  /\ app = "connected"
  /\ app' = "signalled"
  /\ UNCHANGED <<result, conn, signal, driver, outcome, handle, early, runtime>>

SendSignal ==
  /\ AppMayRun
  /\ app = "connected"
  /\ signal' = "sent"
  /\ app' = "signalled"
  /\ UNCHANGED <<result, conn, driver, outcome, handle, early, runtime>>

\* Mutant of CloseEndpoint: the task is awaited, but the endpoint left open.
CloseEndpointSkipped ==
  /\ AppMayRun
  /\ app = "signalled"
  /\ handle' = "awaited"
  /\ app' = "awaiting"
  /\ UNCHANGED <<result, conn, signal, driver, outcome, early, runtime>>

CloseEndpoint ==
  /\ AppMayRun
  /\ app = "signalled"
  /\ EndpointClose
  /\ handle' = "awaited"
  /\ app' = "awaiting"
  /\ UNCHANGED <<result, signal, driver, outcome, early, runtime>>

\* The task is done: close returns what it evaluates to.  A task that was
\* cancelled or panicked would make it TransportKind::Close.  The client is
\* dropped on return; its Drop finds signal and handle taken.
CloseReturns ==
  /\ AppMayRun
  /\ app = "awaiting"
  /\ driver = "finished"
  /\ result' = IF outcome = "Cancelled" THEN "Close" ELSE outcome
  /\ handle' = "none"
  /\ app' = "gone"
  /\ EndpointClose
  /\ UNCHANGED <<signal, driver, outcome, early, runtime>>

\* The caller drops the future of close at its only await: the handle is
\* dropped with it, so the task is detached, not aborted.
CloseAbandoned ==
  /\ AppMayRun
  /\ app = "awaiting"
  /\ handle' = "detached"
  /\ app' = "gone"
  /\ EndpointClose
  /\ UNCHANGED <<result, signal, driver, outcome, early, runtime>>
-----------------------------------------------------------------------------
(* Drop, which close abandoned before its first poll also comes to.         *)

DropSender ==
  /\ AppMayRun
  /\ app = "connected"
  /\ signal' = "dropped"
  /\ app' = "dropping"
  /\ UNCHANGED <<result, conn, driver, outcome, handle, early, runtime>>

\* Mutant of DropEndpoint: Drop only aborts the task.
DropEndpointSkipped ==
  /\ AppMayRun
  /\ app = "dropping"
  /\ app' = "aborting"
  /\ UNCHANGED <<result, conn, signal, driver, outcome, handle, early, runtime>>

DropEndpoint ==
  /\ AppMayRun
  /\ app = "dropping"
  /\ EndpointClose
  /\ app' = "aborting"
  /\ UNCHANGED <<result, signal, driver, outcome, handle, early, runtime>>

DropAborts ==
  /\ AppMayRun
  /\ app = "aborting"
  /\ handle' = "aborted"
  /\ app' = "gone"
  /\ UNCHANGED <<result, conn, signal, driver, outcome, early, runtime>>

\* The steps of close and drop that nothing outside them holds up.
App == CloseEndpoint \/ CloseReturns \/ DropEndpoint \/ DropAborts

Next ==
  \/ ConnectStep \/ ConnectFails
  \/ \E why \in Ended : ConnectionEnds(why)
  \/ PollsSignal \/ PollsConnection \/ FinishesDraining \/ Cancelled
  \/ SendSignal \/ CloseEndpoint \/ CloseReturns \/ CloseAbandoned
  \/ DropSender \/ DropEndpoint \/ DropAborts

Spec == Init /\ [][Next]_vars

\* The runtime polls a task that was woken, code between two awaits runs on,
\* and quinn ends a connection whose endpoint was closed.  Nothing makes the
\* peer close, nor the application call close or drop.
FairSpec ==
  /\ Spec
  /\ WF_vars(Woken /\ Driver)
  /\ WF_vars(App)
  /\ WF_vars(conn = "closing" /\ \E why \in Ended : ConnectionEnds(why))
-----------------------------------------------------------------------------
(* Properties.                                                              *)

\* The docs of close: "once the close has been requested, any error reported by
\* the driver task is treated as part of the graceful shutdown and is not
\* returned to the caller".  At the least, the end of the connection that close
\* itself brings about is never returned as a failure.
OwnCloseIsGraceful ==
  result = "DriverClosed" => conn # "local"

\* On one thread, where a poll of the task is never interleaved, close fails
\* only for a connection that had failed before close was called.
GracefulOnOneThread ==
  runtime = "single" /\ result = "DriverClosed" => early

\* On any runtime, what close reports as a failure is never the graceful close
\* of the peer, nor the cancellation of the task that Drop makes.
FailureHasCause ==
  /\ result = "DriverClosed" => conn \in {"abnormal", "local"}
  /\ result # "Close"

\* No connection outlives its driver or its client: whoever is gone has left
\* the endpoint closed behind, abandoned close and failed connect included.
NoOrphanConnection ==
  app = "gone" \/ driver = "finished" => conn # "open"

\* What the docs of close say: an error that occurs before the close signal
\* reaches the driver is returned to the caller of close.
EarlyErrorReturned ==
  early => result # "Ok"

\* close returns, whatever the peer does.
CloseTerminates ==
  app \in {"signalled", "awaiting"} ~> app = "gone"

\* No task is leaked: once the client is gone its driver ends, also the one
\* that an abandoned close detaches instead of aborting.
DriverTerminates ==
  app = "gone" ~> driver \in {"none", "finished"}
=============================================================================
