------------------------------ MODULE UdpRelay ------------------------------
(***************************************************************************)
(* What a CONNECT-UDP tunnel promises, as UDP does: a payload offered on a   *)
(* request comes out, if at all, at the other end of the same request, once  *)
(* and unchanged.  It may be lost and it may be overtaken.  UdpTunnel        *)
(* implements it.                                                            *)
(***************************************************************************)
EXTENDS Integers, Sequences

CONSTANTS
  Requests,  (* the request streams             *)
  Ids,       (* what tells payloads apart       *)
  Sizes      (* the lengths a payload may have  *)

VARIABLES
  offered,   (* per end and request: the payloads handed in  *)
  delivered  (* per end and request: the payloads got out    *)

vars == <<offered, delivered>>

Ends == {"client", "proxy"}
PeerOf(e) == IF e = "client" THEN "proxy" ELSE "client"

Elements(seq) == {seq[i] : i \in DOMAIN seq}

Init ==
  /\ offered = [e \in Ends |-> [s \in Requests |-> <<>>]]
  /\ delivered = [e \in Ends |-> [s \in Requests |-> <<>>]]

\* Payloads are told apart by an identity of their own.
Offer(e, s, payload) ==
  /\ \A f \in Ends, t \in Requests :
       \A other \in Elements(offered[f][t]) : other.id # payload.id
  /\ offered' = [offered EXCEPT ![e][s] = Append(@, payload)]
  /\ UNCHANGED delivered

Deliver(e, s) ==
  /\ \E p \in Elements(offered[PeerOf(e)][s]) \ Elements(delivered[e][s]) :
       delivered' = [delivered EXCEPT ![e][s] = Append(@, p)]
  /\ UNCHANGED offered

Next == \E e \in Ends, s \in Requests :
  \/ \E id \in Ids, n \in Sizes : Offer(e, s, [id |-> id, size |-> n])
  \/ Deliver(e, s)

Spec == Init /\ [][Next]_vars
=============================================================================
