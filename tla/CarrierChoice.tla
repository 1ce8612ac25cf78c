--------------------------- MODULE CarrierChoice ---------------------------
(***************************************************************************)
(* What carrier negotiation promises: each end of a request makes up its     *)
(* mind at most once, in its own time, and no two ends choose differently.   *)
(* Negotiation implements it.                                                *)
(***************************************************************************)
CONSTANTS Endpoints, Carriers, Undecided

VARIABLE chosen  (* per endpoint: the carrier it uses, or Undecided *)

Init == chosen = [e \in Endpoints |-> Undecided]

Choose(e, c) ==
  /\ chosen[e] = Undecided
  /\ \A f \in Endpoints : chosen[f] \in {Undecided, c}
  /\ chosen' = [chosen EXCEPT ![e] = c]

Next == \E e \in Endpoints, c \in Carriers : Choose(e, c)

Spec == Init /\ [][Next]_chosen
=============================================================================
