--------------------------- MODULE H3ClientProofs ---------------------------
(***************************************************************************)
(* Proofs about H3Client: whatever runtimes are considered, close blames the *)
(* connection only for what it did, and no connection outlives its client or *)
(* its driver.                                                               *)
(***************************************************************************)
EXTENDS H3Client, TLAPS

Apps == ConnectPhases \cup
  {"connected", "signalled", "awaiting", "dropping", "aborting", "gone"}

TypeOK ==
  /\ app \in Apps
  /\ result \in {"none", "Ok", "DriverClosed", "Close", "EndpointCreation", "Connect",
                 "QuicHandshake", "H3Handshake"}
  /\ conn \in {"none", "open", "closing"} \cup Ended
  /\ signal \in {"none", "open", "sent", "dropped"}
  /\ driver \in {"none", "racing", "polling", "draining", "finished"}
  /\ outcome \in {"none", "Ok", "DriverClosed", "Cancelled"}
  /\ handle \in {"none", "held", "awaited", "detached", "aborted"}
  /\ early \in BOOLEAN
  /\ runtime \in {"single", "multi"}

\* What exists in each phase of the application: nothing but a connection
\* before the task is spawned, signal and handle as close and drop leave them.
PhaseOK ==
  /\ app \in ConnectPhases =>
       /\ signal = "none" /\ driver = "none" /\ handle = "none"
       /\ app # "h3_handshake" => conn = "none"
       /\ app = "h3_handshake" => conn # "none"
  /\ app \in {"connected", "signalled", "awaiting", "dropping", "aborting"} =>
       /\ driver # "none" /\ conn # "none"
       /\ signal = (CASE app = "connected" -> "open"
                      [] app \in {"signalled", "awaiting"} -> "sent"
                      [] OTHER -> "dropped")
       /\ handle = IF app = "awaiting" THEN "awaited" ELSE "held"
  /\ app # "gone" => result = "none"
  /\ app \in {"awaiting", "aborting", "gone"} => conn # "open"
  /\ app \in ConnectPhases \cup {"connected"} => conn \notin {"closing", "local"}
  /\ app = "gone" => signal # "open"

\* The task evaluates to something once it is finished, which it is only after
\* the connection ended or its handle was aborted.
DriverOK ==
  /\ driver = "finished" <=> outcome # "none"
  /\ driver = "none" => signal = "none"
  /\ outcome = "Cancelled" => handle = "aborted"
  /\ handle = "aborted" => app = "gone"
  /\ outcome \in {"Ok", "DriverClosed"} => conn \in Ended
  /\ outcome = "DriverClosed" => conn \in {"abnormal", "local"}
  /\ result \in {"Ok", "DriverClosed"} => result = outcome
  /\ result # "Close"

\* On one thread nothing happens between the look at the signal and the look at
\* the connection, so what the task blames on the connection came before.
SingleOK ==
  /\ signal \in {"none", "open"} /\ conn = "abnormal" => early
  /\ runtime = "single" /\ driver = "polling" => signal = "open"
  /\ runtime = "single" /\ outcome = "DriverClosed" => early

Inv == TypeOK /\ PhaseOK /\ DriverOK /\ SingleOK
-----------------------------------------------------------------------------
LEMMA InitInv == Init => Inv
  BY RuntimesAssumption DEF Init, Inv, TypeOK, PhaseOK, DriverOK, SingleOK, Apps, ConnectPhases

\* The phases of connect, and what the network does to the connection.
LEMMA ConnectStepKeepsInv == Inv /\ ConnectStep => Inv'
  BY DEF ConnectStep, NextPhase, Inv, TypeOK, PhaseOK, DriverOK, SingleOK, Apps,
         ConnectPhases, Ended

LEMMA ConnectFailsKeepsInv == Inv /\ ConnectFails => Inv'
  BY DEF ConnectFails, FailureOf, EndpointClose, Inv, TypeOK, PhaseOK, DriverOK, SingleOK,
         Apps, ConnectPhases, Ended

LEMMA ConnectionEndsKeepsInv ==
  ASSUME Inv, NEW why \in Ended, ConnectionEnds(why)
  PROVE  Inv'
  <1> USE DEF Inv
  <1>1. conn \in {"open", "closing"} /\ conn' = why /\ (conn = "open" => why # "local")
    BY DEF ConnectionEnds
  <1>2. early' = (why = "abnormal" /\ signal \in {"none", "open"})
    BY DEF ConnectionEnds
  <1>3. early' \in BOOLEAN /\ (why = "abnormal" /\ signal \in {"none", "open"} => early')
    BY <1>2, Zenon
  <1>4. UNCHANGED <<app, result, signal, driver, outcome, handle, runtime>>
    BY DEF ConnectionEnds
  <1>5. outcome # "DriverClosed" /\ outcome # "Ok"
    BY <1>1 DEF DriverOK, Ended
  <1>6. TypeOK' /\ PhaseOK' /\ DriverOK'
    BY <1>1, <1>3, <1>4, <1>5 DEF TypeOK, PhaseOK, DriverOK, Apps, ConnectPhases, Ended
  <1>7. SingleOK'
    BY <1>1, <1>3, <1>4, <1>5 DEF SingleOK
  <1> QED
    BY <1>6, <1>7

\* The steps of the driver task leave the application where it is.
LEMMA DriverKeepsInv == Inv /\ Driver => Inv'
  <1> USE DEF Inv, TypeOK, PhaseOK, DriverOK, SingleOK, Apps, ConnectPhases, Ended
  <1>1. Inv /\ PollsSignal => Inv'
    BY DEF PollsSignal
  <1>2. Inv /\ PollsConnection => Inv'
    BY DEF PollsConnection
  <1>3. Inv /\ FinishesDraining => Inv'
    BY DEF FinishesDraining
  <1>4. Inv /\ Cancelled => Inv'
    BY DEF Cancelled
  <1> QED
    BY <1>1, <1>2, <1>3, <1>4 DEF Driver

\* close(self).
LEMMA CloseKeepsInv ==
  Inv /\ (SendSignal \/ CloseEndpoint \/ CloseReturns \/ CloseAbandoned) => Inv'
  <1> USE DEF Inv, TypeOK, PhaseOK, DriverOK, SingleOK, Apps, ConnectPhases, Ended
  <1>1. Inv /\ SendSignal => Inv'
    BY DEF SendSignal, AppMayRun
  <1>2. Inv /\ CloseEndpoint => Inv'
    BY DEF CloseEndpoint, EndpointClose
  <1>3. Inv /\ CloseReturns => Inv'
    BY DEF CloseReturns, EndpointClose
  <1>4. Inv /\ CloseAbandoned => Inv'
    BY DEF CloseAbandoned, EndpointClose
  <1> QED
    BY <1>1, <1>2, <1>3, <1>4

\* Drop.
LEMMA DropKeepsInv == Inv /\ (DropSender \/ DropEndpoint \/ DropAborts) => Inv'
  <1> USE DEF Inv, TypeOK, PhaseOK, DriverOK, SingleOK, Apps, ConnectPhases, Ended
  <1>1. Inv /\ DropSender => Inv'
    BY DEF DropSender, AppMayRun
  <1>2. Inv /\ DropEndpoint => Inv'
    BY DEF DropEndpoint, EndpointClose
  <1>3. Inv /\ DropAborts => Inv'
    BY DEF DropAborts
  <1> QED
    BY <1>1, <1>2, <1>3

LEMMA StepInv == Inv /\ [Next]_vars => Inv'
  <1>1. Inv /\ UNCHANGED vars => Inv'
    BY DEF vars, Inv, TypeOK, PhaseOK, DriverOK, SingleOK
  <1> QED
    BY <1>1, ConnectStepKeepsInv, ConnectFailsKeepsInv, ConnectionEndsKeepsInv,
       DriverKeepsInv, CloseKeepsInv, DropKeepsInv DEF Next, Driver

LEMMA AlwaysInv == Spec => []Inv
  BY InitInv, StepInv, PTL DEF Spec
-----------------------------------------------------------------------------
(* Consequences.                                                            *)

\* On a runtime with one thread close fails only for a connection that had
\* failed before close was called.
THEOREM OneThreadIsGraceful == Spec => []GracefulOnOneThread
  <1>1. Inv => GracefulOnOneThread
    BY DEF Inv, DriverOK, SingleOK, GracefulOnOneThread
  <1> QED
    BY <1>1, AlwaysInv, PTL

\* On any runtime, close never reports the graceful close of the peer, nor the
\* cancellation of the task, as a failure.
THEOREM FailuresHaveCauses == Spec => []FailureHasCause
  <1>1. Inv => FailureHasCause
    BY DEF Inv, DriverOK, FailureHasCause
  <1> QED
    BY <1>1, AlwaysInv, PTL

\* Whoever is gone, the client or its driver, has left the endpoint closed.
THEOREM NoConnectionOrphaned == Spec => []NoOrphanConnection
  <1>1. Inv => NoOrphanConnection
    BY DEF Inv, TypeOK, PhaseOK, DriverOK, NoOrphanConnection, Ended
  <1> QED
    BY <1>1, AlwaysInv, PTL
=============================================================================
