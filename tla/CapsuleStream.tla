--------------------------- MODULE CapsuleStream ---------------------------
(***************************************************************************)
(* What a reader of a Capsule Protocol stream is promised, with no buffer,  *)
(* no read position and no skip counter: capsules are written one after     *)
(* the other, bytes arrive in pieces of any size, capsules are taken        *)
(* strictly in stream order, the known ones are delivered with exactly      *)
(* their value bytes, and the end of the stream is clean only on a capsule  *)
(* boundary.  CapsuleParser implements it.                                  *)
(*                                                                          *)
(* A byte is named by its offset in the stream.  A frame is a capsule laid  *)
(* out in the stream: the offsets of its first byte, of its value and of    *)
(* the byte after it.                                                       *)
(***************************************************************************)
EXTENDS Integers, Sequences

CONSTANTS
  Kinds,             (* capsule shapes [datagram, header, length] a peer writes *)
  MaxCapsules,       (* bound on the capsules written                           *)
  MaxCapsuleLength,  (* longest known value the reader accepts                  *)
  UsizeMax           (* largest capsule size the platform can address           *)

VARIABLES
  written,    (* the frames of the stream, in order       *)
  arrived,    (* bytes handed to the reader so far        *)
  taken,      (* frames the reader is done with           *)
  delivered,  (* value ranges of the capsules handed out  *)
  verdict     (* "open", "rejected", "ok" or "truncated"  *)

vars == <<written, arrived, taken, delivered, verdict>>

EndOf(n) == IF n = 0 THEN 0 ELSE written[n].end

Frame(k, at) ==
  [datagram |-> k.datagram, start |-> at, value |-> at + k.header,
   end |-> at + k.header + k.length]

\* A frame the reader refuses: a known value over the limit, or a capsule, of
\* whatever type, that the platform's usize cannot hold.  A capsule of unknown
\* type is promised to be skipped only as far as usize reaches.
Refusable(f) ==
  \/ f.datagram /\ f.end - f.value > MaxCapsuleLength
  \/ f.end - f.start > UsizeMax

Closed == verdict \in {"ok", "truncated"}
-----------------------------------------------------------------------------
Init ==
  /\ written = <<>>
  /\ arrived = 0
  /\ taken = 0
  /\ delivered = <<>>
  /\ verdict = "open"

Write(k) ==
  /\ Len(written) < MaxCapsules
  /\ written' = Append(written, Frame(k, EndOf(Len(written))))
  /\ UNCHANGED <<arrived, taken, delivered, verdict>>

Arrive ==
  /\ ~Closed
  /\ \E n \in 0 .. (EndOf(Len(written)) - arrived) : arrived' = arrived + n
  /\ UNCHANGED <<written, taken, delivered, verdict>>

\* An unknown capsule is done with once its header is in; a known one once
\* its whole value is.
Take ==
  /\ verdict = "open"
  /\ taken < Len(written)
  /\ LET f == written[taken + 1] IN
       /\ ~Refusable(f)
       /\ arrived >= IF f.datagram THEN f.end ELSE f.value
       /\ delivered' = IF f.datagram
                       THEN Append(delivered, [from |-> f.value, to |-> f.end])
                       ELSE delivered
  /\ taken' = taken + 1
  /\ UNCHANGED <<written, arrived, verdict>>

Reject ==
  /\ verdict = "open"
  /\ taken < Len(written)
  /\ Refusable(written[taken + 1])
  /\ arrived >= written[taken + 1].value
  /\ verdict' = "rejected"
  /\ UNCHANGED <<written, arrived, taken, delivered>>

Finish ==
  /\ ~Closed
  /\ verdict' = IF arrived = EndOf(taken) THEN "ok" ELSE "truncated"
  /\ UNCHANGED <<written, arrived, taken, delivered>>

Next ==
  \/ \E k \in Kinds : Write(k)
  \/ Arrive
  \/ Take
  \/ Reject
  \/ Finish

Spec == Init /\ [][Next]_vars
=============================================================================
