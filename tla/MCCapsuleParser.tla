-------------------------- MODULE MCCapsuleParser --------------------------
(***************************************************************************)
(* Small instances of CapsuleParser, and a statement of its docs that the   *)
(* code does not keep on every platform.                                    *)
(***************************************************************************)
EXTENDS CapsuleParser

Datagram(h, l) == [datagram |-> TRUE, header |-> h, length |-> l]
Unknown(h, l) == [datagram |-> FALSE, header |-> h, length |-> l]

\* An empty, an acceptable and an over-long known capsule; an empty and a long
\* unknown one, the latter longer than a known one may be and than the
\* compaction threshold; and, on a usize of 7, one whose length does not fit and
\* one whose end does not.
MCKinds == {Datagram(2, 0), Datagram(3, 2), Datagram(2, 3), Unknown(2, 0), Unknown(3, 4),
            Unknown(2, 6), Unknown(2, 8)}

\* "Capsules with unknown types are silently skipped as required by RFC 9297
\* Section 3.2" (docs of CapsuleParser): no refusal is ever about one.
UnknownAlwaysSkipped ==
  last \in LengthErrors => stream[parsed + 1].datagram
=============================================================================
