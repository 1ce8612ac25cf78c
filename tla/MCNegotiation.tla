--------------------------- MODULE MCNegotiation ---------------------------
(* A small instance of Negotiation: which end repeats what. *)
EXTENDS Negotiation

Once1 == [e \in Endpoints |-> 1]
ProxyRepeats == [client |-> 1, proxy |-> 2]
=============================================================================
