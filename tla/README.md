# TLA+ models and proofs for masque

`masque` is a Rust library for CONNECT-UDP (RFC 9298): UDP payloads travel between a
client and a proxy inside one HTTP/3 request, as HTTP/3 Datagrams or as DATAGRAM
capsules. This directory holds TLA+ models of its stateful parts, the TLC
configurations that check them on small instances, and TLAPS proofs of their safety
properties for every value of the constants.

Paths below are relative to `src/crates/masque/src/`. `PROJECT.json` maps each
definition that models code to the lines it stands for.

## 1. Inventory

| Component | State | Operations | What makes it correct |
|---|---|---|---|
| `CapsuleParser` (`capsule.rs`) | `buf`, `start` (consumed prefix), `skip_remaining`, limit | `new`, `with_max_length`, `feed`, `next_capsule`, `finalize` | Never loses its place, however the stream is cut; delivers known values exactly once and in order; skips unknown ones; bounded memory; refuses only known values over its limit and what `usize` cannot hold, and for good |
| `Capsule`, `CapsuleType` codec (`capsule.rs`) | none | `new`, `encode`, `encode_into`, `decode` | The length it reserves is the length it writes; a failed `decode` tells "not yet all here" from "never" |
| `QuicVarint` (`quic_varint.rs`) | none | `encode`, `encode_into_at`, `encode_to_array`, `decode`, `decode_at` | Reads back what was written; "incomplete" means exactly that bytes are missing |
| `Session` (`types.rs`), `H3DatagramSettingValue` (`settings.rs`) | protocol and four optional capabilities: local and peer `H3_DATAGRAM`, local and peer `Capsule-Protocol` | `set_local_*`, `negotiate_peer_*`, `is_*_enabled`, `select_udp_carrier` | Both ends use the same carrier and never change it |
| `UdpAssociation` (`association.rs`) | socket, target, stream id, a copy of the session | `bind`, `encode_*`, `decode_*`, `send`, `recv`, `recv_into`, `local_addr`, `close` | A payload comes out of its own request only, whole and once; refusals have their documented causes; no port outlives its association |
| `HttpDatagram`, `DatagramCapsule` (`datagram.rs`, `datagram_capsule.rs`) | none | `encode_h3`, `decode_h3`; `encode`, `decode` | Stream ids survive the division by four |
| `H3Client` (`client.rs`) | endpoint, request sender, oneshot close sender, task handle; the task owns the connection | `connect`, `close`, `Drop`, `send_request` | `close` returns; no task and no connection is left behind; errors have a cause |
| `H3Server`, `H3Connection` (`server.rs`) | endpoint, connection | `bind`, `accept`, `close`, `accept_request` | Accept reports the close of the listener, not an error of it; a dropped accept leaves no connection behind; close ends every connection |
| `ConnectUdpRequest` (`connect_udp.rs`) | target host, target port, optional configuration; immutable | `new`, `from_uri`, `to_uri` | What one side writes the other reads; nothing but the template is accepted |
| `Capsule-Protocol` header (`capsule_protocol.rs`) | none | `parse_capsule_protocol`, `serialize_capsule_protocol` | Takes Boolean Items of RFC 8941 only, and all whose byte sequences leave no unused bit set; parameters never change the flag |
| `Error` (`error.rs`) | a variant with fields, and for three variants a source | constructors, `clone`, `==`, `Display`, `Debug`, `source` | Errors that compare equal can be treated alike |
| `Config` (`config.rs`), TLS helpers (`tls.rs`) | two addresses; none | `new`; `generate_self_signed_cert` and a test client configuration | The first wrong address is named; limits on names |
| Examples | echo server: socket, one buffer; client: socket with a timeout; proxy stub: none | `main` | What is echoed is what came; the client ends |
| `xtask` | none | runs cargo | not modelled (section 8) |

How they interact. The application connects (`H3Client::connect`) or accepts
(`H3Server::accept`), records in a `Session` the SETTINGS and header fields both ends
advertise, asks it for a carrier, and binds one `UdpAssociation` per request with a
*copy* of the session. The crate has no relay loop: the caller moves payloads between
the association's socket (`recv`, `send`), its encoders and decoders, and the HTTP/3
stream or datagrams; capsules read from the stream go through a `CapsuleParser`, whose
headers are varints.

What is hard:

* *Cut input.* The parser sees a stream in pieces of any size; headers and values may be
  cut at any byte, and reading positions survive lazy compaction.
* *Ordering.* SETTINGS and header fields travel on different QUIC streams, so one end
  may settle on a carrier while the other is still waiting; datagrams overtake one
  another and are lost; capsules are not.
* *Stale copies.* The association's session does not learn what is recorded after `bind`.
* *Concurrency and cancellation.* The client's driver task, `close`, its abandoned
  future, `Drop` and the end of the connection interleave, differently on a runtime with
  one thread and one with several.
* *One at a time.* The server's accept loop carries one connection through two handshakes
  while others queue behind it, and its future may be dropped half-way; `recv` keeps an
  association borrowed that `close` needs for itself.
* *Networks.* UDP loses, repeats and reorders; a port may change hands while datagrams for
  its last owner are on their way; peers stall or leave at any step.
* *Text inside text.* Hosts and configurations may hold the delimiters of the query they
  travel in, and string parameters those of the header field.
* *Boundaries.* Varint lengths, `usize` on narrow platforms, the payload limits of two
  address families, the parser's length limit.

The full list, with lines and the properties that watch them, is `hazards` in
`PROJECT.json`.

## 2. Modules

| Module | Models | Checked by |
|---|---|---|
| `CapsuleStream` | abstract: what the reader of a capsule stream is promised | as `AbstractSpec` |
| `CapsuleParser` | `CapsuleParser`, one action per branch of `try_parse` | `MCCapsuleParser` |
| `CapsuleParserProofs` | theorems about it | TLAPS |
| `Session` | `Session` as a record, its setters and queries as operators | with the two below |
| `CarrierChoice` | abstract: each end chooses once, never differently | as `ChoiceSpec` |
| `Negotiation` | both ends of a request recording what they send and hear | `MCNegotiation` |
| `NegotiationProofs` | theorems about it | TLAPS |
| `UdpRelay` | abstract: what a UDP tunnel promises | as `RelaySpec` |
| `UdpTunnel` | the associations of one connection and both carriers | `MCUdpTunnel` |
| `UdpTunnelProofs` | theorems about it | TLAPS |
| `Errors` | errors as the chain of what they say and what they come from | with the modules that return them |
| `QuicVarint` | encoders and decoders over bytes of `4 * Quarter` values | with the next two |
| `CapsuleCodec` | the one-shot codecs of capsules and HTTP datagrams, and the Context ID, over bytes | with the next |
| `CodecStream` | capsules and QUIC datagrams on their way, cut anywhere, from this library or another | `MCCodecStream` |
| `CodecProofs` | theorems about the four above | TLAPS |
| `UdpSockets` | the socket of an association, the echo programs at the other end, and the network | `MCUdpSockets` |
| `UdpSocketsProofs` | theorems about it | TLAPS |
| `H3Server` | the accept loop, accepted connections, peers | itself |
| `H3ServerProofs` | theorems about it | TLAPS |
| `H3Client` | connect, driver task, close, drop | itself |
| `H3ClientProofs` | theorems about it | TLAPS |
| `ConnectUdpRequest` | `new`, `to_uri`, `from_uri` over classes of characters | with `RequestHead` |
| `CapsuleProtocolField` | the parsers under `parse_capsule_protocol` | with `RequestHead` |
| `BooleanItem` | the grammar that field has in RFC 8941, and its part whose unused base64 bits are zero, with no parser in it | with `RequestHead` |
| `RequestHead` | URI and field of a request on their way through proxies, and foreign ones | `MCRequestHead` |
| `RequestHeadProofs` | theorems about the four above | TLAPS |

Composition: `Negotiation` and `UdpTunnel` are built on `Session`, and `Negotiation` takes
as heard the flag that `FlagPreserved` shows to arrive; the parser rests on `CodecStream`
(its assumption that a cut header is recognised as incomplete is `IncompleteIsExact`);
`UdpTunnel` treats the capsule stream between two ends as the ordered, loss-free sequence
that `CapsuleStream` promises, and `EveryCapsuleAccounted` counts a capsule as on its way
only if it passes the parser's default limit. `UdpTunnel` leaves bytes out, and sockets but
for their being open; `CodecStream` and `UdpSockets` are where those are. All errors of the
three newer modules are those of `Errors`.

Definitions whose comment begins "Mutant of" are faulty variants of the definition that
follows. They are used by no specification; `PROJECT.json` names, for each
property, the variant under which TLC finds it violated.

## 3. How the models correspond to the code

**CapsuleParser.** A byte is its offset in the stream. `buf` and `start` are the two
lengths the code keeps, so the byte it reads next is `Cursor == fed - buf + start`. A
header decoded where no frame begins reads as *any* header, so that a parser that loses
its place misbehaves in the model as it would in the code. `Feed` and `NextCapsule` enter
`try_parse`; `DrainSkip`, `EmptyWindow`, `IncompleteHeader`, `RejectUnaddressable`,
`SkipWhole`, `SkipPartial`, `RejectTooLong`, `AwaitValue` and `Emit` are the ways through
one iteration of its loop, in the order of the code's tests; `Consume` is the advance of
`start` followed by `maybe_compact`. `Finalize` consumes the parser. Errors no input can
cause (a decoded type or value out of varint range) have no action.

**Session, Negotiation.** `Once` is the setters' rule: the first value wins, and any second
call, with the same value too, is refused as a conflict and leaves the session as it is. The
caller goes on after such an error, which the model does not keep. Sending is separate from
recording. `absent` is a SETTINGS frame without the setting, which the caller records as
`DISABLED` as the docs of `is_datagram_capsule_enabled` require; `invalid` fails
`H3DatagramSettingValue::new` and is never recorded. `Bind` copies the session.

**UdpTunnel.** An association is its session, its target's family and its socket. A
payload is an identity and a length. `BindRefused` is the refusal of a stream id; every
session here is connect-udp, so that of another protocol does not occur. `EncodeH3`, `EncodeCapsule`, `DecodeH3`,
`DecodeCapsule` and `Send` make the checks of the code in its order; `Recv` is
`recv_into` with the buffer that `recv` allocates, which cuts off what does not fit. The
caller may hand a datagram or capsule to *any* association of the connection. `Strays`
are datagrams of a peer that sends what this library does not: extension contexts,
non-minimal Context IDs, none at all, streams that cannot exist.

**Errors.** An error is a sequence: what it says, then what `source()` leads to, layer by
layer. `Compared` is the part of it that `eq` looks at: a foreign source (a boxed error of
`std`, quinn or h3) is passed over, the source of an `H3DatagramError` is an error of the
crate and compared in its turn. `Display` and `Debug` are the fields each shows; the kind of
an `H3DatagramError` shows in `Display` only as "local" or "protocol".

**QuicVarint, CapsuleCodec, CodecStream.** The top two bits of a first byte tell its
length, and `Quarter` is how much the others hold: 64 in the code. With `Quarter` = 2, bytes
of 3 bits, every length boundary of the real encoding has its counterpart (2, 16, 1024,
4194304) within TLC's integers; the proofs hold for every `Quarter`. Each
function of the code is an operator that returns `Ok` or `Err` of what the code returns.
A function that writes into a slice returns the slice as well. `WriteEncoded`,
`WriteInto` and `WriteDatagram` are a caller with each of the three encoders,
`ReadCapsule` and `ReadDatagram` one with each of the two decoders, who keeps his place on an
error. `WriteForeign` and `SendForeignFrame` are a peer that uses longer forms than needed or
other Context IDs, or cuts a datagram short; `WriteHuge` one that declares a length no
`usize` holds.

**H3Server.** `accept` is cut at its awaits: `StartAccept` up to the first, `TakeIncoming`
to the second (or `AcceptNone`), `QuicDone` to the third, and `QuicFails`, `H3Done` and
`H3Fails` are its other ways out; `CancelAccept` drops its future at any of them. `close`
takes `&self` and `accept` `&mut self`, so no call of the two overlaps. quinn is external: it
queues connections, hands out queued ones after a close only to end them, keeps a connection
as long as there is a handle to it, and ends one whose peer is silent too long. Its `accept`
also gives `None` when the task that drives the endpoint is lost; here that task runs for
ever, and `NoneMeansClosed` is claimed for that case only. h3 is
external: `Outcomes` is what its `accept` may answer.

**UdpSockets.** `Bind` is `UdpAssociation::bind` up to the await on `connect`, `Connect` the
rest, `CancelBind` the drop of its future in between. `StartRecv` and `FinishRecv` are the two
halves of `recv`. `recv` borrows the association and `close` takes `&mut self`, so a caller that
wants to close makes no new `recv` and cancels the one there is before it closes; whether and
when it does is up to it. A connected socket takes
only what comes from the server, and reports an error that an earlier datagram met on the next
call. The echo server is `recv_from` into its one buffer and `send_to` from it; the client
sends once and waits for an answer, an error or its timeout; the stub makes a `Config` and
says that it is not implemented.

**H3Client.** `app` walks through the phases of `connect` and the steps of `close` and
`Drop`; `driver` is the task: it looks at the close signal (`PollsSignal`) and then at
the connection (`PollsConnection`), two steps of one poll, since the `select!` is biased.
On a runtime with several threads anything may happen between two steps; on one with a
single thread nothing runs inside a poll (`AppMayRun`) nor inside application code between
two awaits (`TasksMayRun`). quinn and h3 are external: a connection ends once, at the
endpoint's request or for a reason of the peer's or the network's.

**ConnectUdpRequest.** A text is a sequence of characters, at least one for each class the
code tells apart: unreserved ones, sub-delimiters, other printable ones, white space that is
trimmed, control characters, and each digit, so that `PortText` writes and `Decimal` reads
what the code does. A run that only occurs whole, such as a key or an IPv6
literal, is one character with a length in bytes; `ff` is a byte that is not UTF-8. A URI is a scheme, an authority, and a path
and a query of tokens; a token is a character as itself or percent-encoded, and a `%` that
starts no escape is the raw character. `Read` is one turn of the loop over the query, `ReadAll` the loop; the
refusals of `from_uri` name the field that the code's errors name. Authorities are valid or
not as a whole: two stand for the valid ones, and `validate_host_port` is not modelled. Of the
white space that `str::trim` removes, texts here hold spaces and tabs only.

**CapsuleProtocolField.** A parser of the code takes a slice and returns the rest; here it
takes a position and returns the next. The limits on digits are constants.

**RequestHead.** A caller builds and sends a request, a proxy parses its URI and may send on
what it has understood. On the way the URI may be rewritten into an equivalent one (scheme in
capitals, escaped unreserved characters, parameters rotated, an empty one) and parameters
added to the field. A foreign client writes its own texts, piece by piece. A behaviour varies
the URI or the field, never both, since the code parses them apart. The reference
definitions, `MatchesTemplate` and `IsField`, are written as quantified statements about
the text, with no parser in them. `MatchesTemplate` shares with `from_uri` the checks of a
single value and the split at `&`; what it adds is the order, number and kind of the
parameters. `IsField(t, FALSE)` is RFC 8941's Boolean Item with its parameters; `IsField(t,
TRUE)` asks besides that no base64 text have a bit set that belongs to no octet, which is the
code's own rule (see section 5). `AcceptsGrammar` states both: a text is parsed exactly if it
is of the second, and so only if it is of the first. Parameters added on the way are of the
second, since a field with others is refused.

## 4. Runs

| Run | Instance | Shows |
|---|---|---|
| `parser_safety` | 3 capsules of 7 shapes, limit 2, threshold 4, `usize::MAX` = 7 | `Synchronised`, `DeliveredExactly`, `BoundedBuffer`, `FinalizeExact`, `RefusesForCause`, `RefusalIsSticky`, `EventuallyEmitted`; implements `CapsuleStream`; no counter underflows (`TypeOK`) |
| `parser_unknown_refused` | 2 capsules, limit 2, threshold 4, `usize::MAX` = 7 | finding 1 |
| `negotiation` | two SETTINGS of the proxy, one of the client, one field each, of any value, absent or invalid; the proxy binds at any moment | one carrier (`CarrierAgreement`), also for the bound copy (`AssociationAgrees`); implements `CarrierChoice`, so a choice never changes; `CarrierConverges` |
| `client_shutdown` | both runtimes, everything | `GracefulOnOneThread`, `FailureHasCause`, `NoOrphanConnection`, `CloseTerminates`, `DriverTerminates` |
| `client_early_error` | one thread | finding 2 |
| `client_close_race` | several threads | finding 3 |
| `h3_server` | two peers, certificates with names on both sides of both limits | `FailureHasCause`, `NoneMeansClosed`, `NoOrphanConnection`, `CloseEndsRequests`, `QueueMovesOn` |
| `udp_sockets` | one association, the echo server, the client and the stub; two ports; payloads of 1 to 3 bytes, the last over the limit; two datagrams under way | `PortsAccounted`, `EchoIsWhole`, `OnlyOwnersReceive`, `ClientEnds` |
| `tunnel_streams` | streams 0, 4 and the invalid 6, 2 payloads, empty or too large | no payload crosses to another request; `CapsulesKeepOrder`, `EveryCapsuleAccounted`; implements `UdpRelay` |
| `tunnel_sizes` | one stream, both families at both ends, lengths 0, both limits and 65536, associations bound early | `RefusedForCause`; implements `UdpRelay` |
| `codec_stream` | two capsules of 5 types and 3 values in 25 bytes, by any encoder or a foreign one; datagrams of 6 stream ids, in any form and cut anywhere | `ReadBack`, `IncompleteIsExact`, `EqualErrorsAlike`, `FramePreserved` |
| `request_head` | 13 hosts, 20 configurations, one forwarding; queries of 3 parameters out of 16; fields of 3 to 11 characters | `RequestPreserved`, `AcceptsTemplate`, `FlagPreserved`, `AcceptsGrammar`; the fields include an RFC 8941 item that the code refuses (`GrammarsDiffer`, an assumption TLC evaluates) |

### Bounds and why they are enough

For the safety properties and refinements of section 6, which hold for any number of
capsules, payloads, streams, peers, ports, repeats, bytes, characters and parameters, the
bounds do not matter. They do for liveness.

* *Parser.* The shapes are an empty, an acceptable and an over-long known capsule, and an
  empty and a long unknown one, the last longer than both the limit and the compaction
  threshold, and two unknown ones whose end or whose length does not fit `usize`. Three in a row give every combination of what a capsule finds in front of it
  and behind it. Headers are two or three bytes, so they can be cut inside, too.
* *Negotiation.* The proxy's two SETTINGS are the first, which wins, and a repeat that
  may conflict; a third meets the same refusal. The client, whose setters are the same
  operators, sends one. Fields of both ends follow the same rule (`Once`), so one each
  suffices. `absent` is what the caller records as `DISABLED`.
* *Tunnel.* Two payloads can be reordered, and three streams include two valid ones to
  confuse. Quarter stream ids go up to 1, one more being out of range.
* *Request head.* Three parameters are the two required ones and a repeat, a configuration
  or a faulty one in any position; the length limits are small enough for texts on both sides
  of them. Fields go on from five beginnings, each with the characters that matter there:
  three characters of any class, three of any class for an item, four for the digits of a
  number, four inside a string, and five inside base64, which is one more than a group.
* *Client.* Nothing is bounded: the state space is finite.
* *Codec.* Types and lengths are on both sides of the length boundaries that fit, and of the
  encodable range; sixteen bytes are the first length that takes two bytes of 3 bits. Two
  capsules are one decoded and the next; a third would meet the same state. Integers of
  eight bytes are there too, as types, in foreign forms and in declared lengths. The datagrams
  are cut at every length, and their quarter ids are on both sides of the greatest one.
* *Server.* Two peers are the one that the call carries and the one that waits; a third would
  wait behind the second. Each connects once; what repeats is the server's calls, which are
  not bounded.
* *Sockets.* Two ports are enough for a port to be used again, by an association or by the
  client, while the other end still answers its last owner. Two datagrams under way can be
  reordered. Three sizes are a datagram, a longer one for the rest to come from, and one over
  the limit. One association and the client are the server's two customers.

### Fairness

Only liveness properties use it.

* `CapsuleParser`: `try_parse` is synchronous, so it runs to its return; the caller keeps
  calling `next_capsule`, as the docs of `feed` tell it to.
* `Negotiation`: the application records what it advertises and hears, the duty that the
  docs of `is_datagram_capsule_enabled` give it. Nobody is obliged to send.
* `H3Server`: the caller goes on calling `accept`, as a server does; futures that are ready
  are polled (tokio); and quinn gives up a connection whose peer is silent (its idle timeout,
  on by default). A peer that keeps its connection alive without finishing the handshake
  would hold the queue up for longer than `QueueMovesOn` allows for; nothing in the crate
  limits it. No peer is obliged to finish a handshake, to send a request or to leave.
* `UdpSockets`: the client's read timeout fires. The network, the server and the caller owe
  nobody anything.
* `H3Client`: tokio polls a task that was woken, code between two awaits runs on, and
  quinn ends a connection whose endpoint was closed. Neither the peer nor the application
  is obliged to close.

### Deadlock

`CHECK_DEADLOCK FALSE` in all configurations, because each modelled system really stops:
a finalized parser, peers that have sent all the bounds allow, a client that is gone.
That nobody waits for ever is stated as liveness instead.

## 5. Findings

1. *Unknown capsules beyond `usize`* (`UnknownAlwaysSkipped`). The docs of `CapsuleParser`
   (`capsule.rs`, 226) have unknown types skipped as RFC 9297 requires, and a test's comment
   (842) adds "regardless of length". `try_parse` converts the length and adds the header's
   (358 to 371) before it looks at the type (373): where `usize` is narrower than the 62 bits of
   a varint, on 32-bit targets, an unknown capsule whose length or end does not fit is refused,
   and with it the rest of the stream (`RefusalIsSticky`). On 64-bit targets there is no such
   length. `UsizeMax` = 7 stands for the narrow `usize`. `RefusesForCause` and `AbstractSpec`
   allow this refusal, and do not show that such capsules are skipped.
2. *An early error is lost* (`EarlyErrorReturned`). The docs of `close` promise to return
   an error that came before the signal. The biased `select!` looks at the signal first: if
   the task was not polled in between, `close` returns `Ok`.
3. *A requested close is reported as an error* (`OwnCloseIsGraceful`). On several threads
   the task may look at the signal just before it is sent and at the connection just after
   the endpoint was closed; `close` then returns `DriverClosed` for the close it asked for.
   On one thread this cannot happen (`GracefulOnOneThread`).

Seen, but without a run of its own:

* *Unused bits.* A base64 text may leave bits that belong to no octet, as the two characters
  and padding of `:Zh==:` do. RFC 8941, section 4.2.7, says that parsers should not fail if such
  bits are set. `is_valid_base64` (`capsule_protocol.rs`, 276 to 285) fails, and a test (517)
  wants it to, while the docs (31 to 33) say that unknown parameters are handled as RFC 8941
  requires. The RFC's is a recommendation, hence no finding; `AcceptsGrammar` says that this
  is the only difference between parser and grammar, and `GrammarsDiffer` names a text that
  the two grammars tell apart and the run parses.
* *Memory of a skipped capsule.* The docs (`capsule.rs`, 229 to 231) bound it by the header and
  one feed. The prefix that is consumed but not yet compacted, up to 1023 bytes of the
  skipped capsule's own header and value or of capsules before it, is left out of this.
  `BoundedBuffer` is the bound that holds.
* *Oversized payloads.* The same one is `InvalidConfig` for `encode_h3_datagram` and
  `PayloadTooLarge` for `encode_datagram_capsule`, as the docs of both say; `RefusedForCause`
  covers the two.

## 6. Proofs

Every safety invariant that the runs check is a theorem of its specification, and so are the three refinements and the
action properties of the parser and the sockets.
Each argument has the same shape: an inductive invariant that implies the property, one lemma
per action that the action preserves it, and the temporal rule for invariants.

The assumptions are the named ones of the modules, each a fact about the code or about how
its names are modelled:

* a frame's header has at least two bytes, a type and a length (`KindsAssumption`), and
  `MaxHeader`, which is 16 in the code, at least as many (`BoundsAssumption`);
* a byte can hold at least eight values (`ByteAssumption`), capsule types and stream ids are
  naturals, payloads are bytes, and a buffer is no longer than `usize` can count
  (`StreamAssumption`);
* `"none"`, `"nobody"` and `"client"` are not names of peers or associations, peers,
  associations and ports are finitely many, and there is a port (`ServerAssumption`,
  `SocketsAssumption`);
* the greatest varint is one below a multiple of four, as 2^62 - 1 is (`TunnelAssumption`);
* what a caller or a foreign client writes is UTF-8 unless it is percent-encoded, as a Rust
  string is, a request has at most one configuration, foreign URIs are made of tokens, and
  what is added to a field on the way is parameters of the grammar with no unused bit set
  (`HeadAssumption`);
* a decimal has no more digits before its point than an integer has in all, 12 and 15 in RFC
  8941 (`DigitsAssumption`);
* limits and counts are naturals, settings and protocols among those there are.

None bounds how many capsules, payloads, streams, peers, ports, repeats, bytes, characters or
parameters there are.

### `CapsuleParserProofs`

    Inv == TypeOK /\ Contiguous /\ Synchronised

`Synchronised` alone is not inductive: that consuming a header and a value brings the
parser to the next frame needs the frames to lie end to end (`Contiguous`), and that
`fed - buf + start` is a byte count needs the counters' types. Each step is either *quiet*
(nothing but `pc` and `last` change) or *consuming* (the cursor moves to where
`Synchronised` wants it); two lemmas handle the kinds, one lemma per action its case.
`ConsumeMovesCursor` shows compaction not to move the cursor; `HeaderAtCursor` that a
synchronised parser reads the header of the very next frame, never a made-up one.

* `TypeCorrect`: no counter underflows.
* `StaysSynchronised`: the parser looks at the byte it should.
* `DeliversExactly`: exactly the known values come out, in order, once.
* `BufferIsBounded`: with `start < CompactThreshold`, which compaction restores after each
  consumption. The bound is about the moments when the last call has returned `none`; while a
  caller leaves capsules undrained or feeds on after a refusal, the buffer grows as it likes.

Its second half adds, for the results of calls,

    RefinementInv == Inv, StandsAtRefused, SkipsEverything and FinalizeExact

with `StandsAtRefused`: after an error the parser still stands at the refused frame with
its header in the window, so any further call refuses it again; `SkipsEverything`:
a skip has consumed all that was fed.

* `RefusalsHaveCauses`, `RefusalIsFinal` (an action property), `FinalizeIsExact`.
* `ImplementsCapsuleStream`: every step of the parser is a step of `CapsuleStream` or
  leaves its variables alone.

### `NegotiationProofs`

    Inv == TypeOK /\ HoldsFirst(client) /\ HoldsFirst(proxy) /\ AssociationLags /\ OneProtocol

Agreement does not survive a step by itself: it depends on what an end has not recorded yet.
`HoldsFirst` says what a session can hold at all: of each advertisement nothing, or the
*first* value sent, however many follow and however many have been noted or heard.
`AssociationLags` says that the copy made at `bind` holds at most what its session holds.
A carrier in use then means the same four first values at both ends.

* `CarriersAgree`, `AssociationsAgree`.
* `ImplementsCarrierChoice`: a carrier once chosen stays, since a session only gains values,
  and no end chooses other than the end that chose before it.

### `UdpTunnelProofs`

`Inv` has twelve parts, for four ideas. Identities: each payload offered has its own
(`IdsOK`, `OwnIds`). Places: what is held, on a stream, in flight or delivered was offered on
*that* request, by an association that has the carrier enabled (`BoundOK`, `Placed`,
`FramesPlaced`). Order: what is held is younger than what is on the stream, that younger than
what came out, and a frame in flight has not come out (`InOrder`, `FramesNew`). Limits: what
`decode` lets through, `send` takes (`DeliveredFits`, `RefusedKnown`). The order of capsules
needs all of them: that no delivery reorders them rests on a request that uses capsules never
having a frame in flight, hence on what both sessions were told.

* `CapsulesComeInOrder`, `CapsulesAreAccounted`, `RefusalsHaveCauses`.
* `ImplementsUdpRelay`: offering is the relay's offering, the first delivery of a payload its
  delivery, and everything else leaves the relay alone.

### `UdpSocketsProofs`

`PortInv` is inductive as the run checks it, with the client's single port. For the echoes,
`NetInv` says that whatever is in flight was sent from the port it names, and that what the
server would echo now, the first `peer.size` bytes of its buffer, is what the peer sent; a
longer datagram from before lies behind these and is never read. `ReturnInv` and `ExitInv`
carry this to what callers get.

* `PortsNeverLeak`, `EchoesAreWhole`.
* `OwnersReceive` (an action property): from `PortInv`, since only the owner of a port is open,
  and only `FinishRecv` ends a `recv` with a datagram.

### `H3ServerProofs`

`Inv` joins `NoOrphanConnection` with where the call stands (`CallOK`: the connection it
carries is in the phase that the await stands for), that no connection is queued twice, what
a close leaves (`ClosedOK`) and who is asked for requests (`AnswerOK`). Without `ClosedOK` an
accept could fail on a connection that the server itself has ended.

* `AcceptLosesNoConnection`, `NoneOnlyWhenClosed`, `AcceptFailuresHaveCauses`.

### `H3ClientProofs`

`Inv` ties the phase of the application to what exists (`PhaseOK`: the connection, the signal,
the task's handle), the task's outcome to how the connection ended (`DriverOK`), and says
what one thread excludes (`SingleOK`): inside a poll the signal, once seen open, stays open,
so what the task blames on the connection came before. On several threads `SingleOK` says
nothing, and finding 3 is what happens.

* `OneThreadIsGraceful`, `FailuresHaveCauses`, `NoConnectionOrphaned`.

### `CodecProofs`

The codecs are functions, so most of this module is about operators.

* *Integers.* The bytes of a number, weighted by their places, add up to it, for a byte of any
  width (`Weight`, `Number`). This is an induction over the bytes. The induction theorems of the
  library take an operator, which the provers cannot instantiate; here induction is stated
  for a *set* that holds 0 and each successor (`Induct`), from the well-foundedness of `<`,
  and recursive functions are unfolded once (`WeightIs`). `IntegersAreReadBack`: `decode` of
  `encode(n)`, whatever follows it, is `n`.
* *Capsules.* `CapsulesAreDecoded`: the same for `Capsule::encode` and `decode`. It covers the
  two tables of lengths (`encode_to_array`, `varint_len`), which agree.
* *The stream.* `StreamInv == TypeOK /\ OnlyCapsules /\ HugeIsLast /\ ReadBack`. That the next
  `decode` is right needs the bytes from the reader's place on to be a capsule: `OnlyCapsules`
  says that the stream is the capsules written end to end, in headers of any form, which
  appending keeps. A capsule of a length that no `usize` holds has no end to write
  behind, so it comes last. `CapsulesAreReadBack`.
* *Missing bytes.* Cut anywhere, a header or value is reported as incomplete, and as nothing
  else; whole, it is never (`MoreIsAskedExactly`).
* *Errors.* All errors of `decode` have at most two layers; on those `Equal` decides `Display`,
  `Debug` and whether to wait (`EqualErrorsAreAlike`). For this `IsError` says that a chain of
  causes is a sequence of what occurs in it.
* *Datagrams.* `FramesArePreserved`: the quarter id times four is the stream id, and none past
  the greatest is taken.

### `RequestHeadProofs`

`RequestHead` compares parsers with definitions of what they should accept, and a sender with
a receiver. The properties are about texts of any length, so each rests on inductions over
them. As in `CodecProofs`, an induction is stated for a set: of numbers (`Induct`, `Descend`)
or of sequences, one element longer at a time (`SeqInduct`).

*The field.* For each parser there are two lemmas. `...Parsed`: where it ends, a text of the
grammar ends. `...Read`: a text of the grammar, if another parameter or nothing follows, is
read to its end. Three need an argument of their own:

* base64: `is_valid_base64` restores the padding that was left out and tests the bits that a
  last group does not use; modulo four, that is what the grammar asks for (`RestoredUnused`,
  `Base64Facts`);
* strings: the grammar says that *some* set of backslashes escapes; the parser's is the only
  one there can be, so that a string has one end (`StringParsed`, `StringRead`);
* parameters: both the loop of `parse_parameters` and `IsField` are about the places from which
  steps lead to the end of the text (`Reaches`). A turn of the loop takes a step of the
  grammar (`StepParsed`); one of the grammar from which others go on is taken in a turn
  (`StepRead`); so the places are the same (`SamePlaces`).

`CapsuleProtocolParsed` joins them: the parser and the grammar whose unused bits are zero agree on
every text, and `ZeroedIsField` says that every text of this grammar is one of RFC 8941's. The invariant,

    FieldInv == the field is a text, and one that was sent is of the grammar and holds the flag

needs that appended parameters keep a field one (`FieldExtended`).

* `FieldsAcceptedAreTheGrammars`, `FlagIsPreserved`.

*The URI.* `ReadAllIs`: the loop of `from_uri` ends well exactly if every part is empty or sets
a key and no two set the same, and then holds what they set; an induction over the parts.
From it `TemplateIsAccepted`, for any URI at all. For what a sender means,

    RequestInv == the request is the first sender's, it is valid, and a URI on the way carries it

`Carries` says of the parts of a query that each key of the request is set once, to its value,
and nothing else is. That every step keeps it takes these facts:

* `to_uri` establishes it (`Sent`): an encoded value has no delimiter left in it
  (`EncodeFacts`), so splitting the query gives back the parts it was put together from
  (`QueryFacts`), and five digits without their leading zeros stand for the port
  (`PortDigits`);
* rewriting keeps it (`RewrittenOk`): the parts afterwards are those of before, each once
  (`Relabels`), or say the same in other tokens (`Same`);
* what `from_uri` returns for a URI that carries a request is that request
  (`CarriedAccepted`), and what it returns for anyone's URI is a request that `new` could have
  made (`UnderstoodOk`), so that it may be sent on. This needs `ForeignInv`: whatever was
  decoded is text again.

The length is not part of `UriOk`: a rewritten URI may have become too long, which is why
`RequestPreserved` allows that refusal.

* `RequestsAcceptedAreTheTemplates`, `RequestIsPreserved`.

### Model-checked only

* Liveness: `EventuallyEmitted`, `CarrierConverges`, `CloseTerminates`, `DriverTerminates`,
  `CloseEndsRequests`, `QueueMovesOn`, `ClientEnds`. Fairness and `ENABLED`
  are beyond the prover.
* The findings, which are counterexamples.

## 7. Plan

The model covers what the crate does, and all of its safety properties are proved. What could
still be done:

1. UTF-8 and hexadecimal digits in `decode_query_value` as their own module, in place of the
   characters `%` and `ff`, and the grammar of authorities.
2. The two sequence libraries of `CodecProofs` and `RequestHeadProofs` (induction, parts of a
   sequence) in one module that both extend.
3. A relay loop over `UdpSockets` and `UdpTunnel`, if the crate ever gets one.

## 8. Not modelled

* `xtask`: it runs cargo, once per task, and keeps no state.
* `tls.rs` beyond `generate_self_signed_cert`: a verifier that accepts any certificate and a
  client configuration around it, both for tests, that only forward to rustls.
* UTF-8 and hexadecimal digits, the grammar of authorities, IP literals and socket addresses,
  white space other than spaces and tabs;
  memory exhaustion and lengths near `usize::MAX` in encoders (no buffer is that long); the
  wording of errors, of which only the fields shown are kept.
* The trait `DatagramPayload`: a contract for other crates, with no implementation here.
* `H3Client::send_request`, `H3Server::local_addr` and other getters: they keep no state.
* What quinn, h3, tokio and the kernel do inside; they are actions marked external, as far as
  this code depends on them.
* IPv6 jumbograms and the Windows error for datagrams that do not fit a buffer.
