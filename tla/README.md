# xtransport in TLA+

Specifications, model-checking configurations and machine-checked proofs for
[xtransport](../src): TCP, WebSocket and QUIC sockets behind one interface, an
MQTT 3.1.1 packet codec, and the broker that exercises the whole stack.

`PROJECT.json` is the index: components, runs, the lines every definition
stands for, findings, hazards and theorems. This file explains them.

## 1. The system

| component | state | operations | what is hard |
|---|---|---|---|
| **Socket contract** (`src/socket.go`) | – | `Recv`, `Send`, `Close`, `SetTimeOut` | `Send` from many goroutines, each packet atomic on the wire |
| **tcp socket** (`transports/tcp/socket.go`) | `timeout`, `wmu`, `closeOnce`, `closed`, the connection with two deadlines and a lazy TLS handshake | `Recv`, `Send`, `SetTimeOut`, `Close` | failure halfway through a write; `Close` against blocked and queued calls; deadlines set from three places; a handshake inside `Send` |
| **ws socket** (`transports/ws/socket.go`) | the same, a pipe, the read loop's position in a message, the cause of the close | the read loop, control replies, `Recv`, `Send`, `SetTimeOut`, `closeWithCause` | the loop is one more writer; it must not block behind a `Send`; which arrivals count as activity; the end of the stream against data in the pipe |
| **quic socket** (`transports/quic/socket.go`) | as tcp, on a stream | as tcp; `Close` queues a FIN, cancels reading, and tears down after 3 s | `Close` runs concurrently with `Write`; what was accepted must get its chance to drain, and a blocked `Recv` must not wait for that; errors the socket provokes itself must not be shown |
| **listeners** (`transports/*/listener.go`) | accept loop, back-off, context, `http.Server` | `Accept`, `Close` | transient errors, handler panics, connections that never become sockets, `Close` before `Accept`, bytes that arrive with the handshake |
| **transports, options** (`transports/*/transport.go`, `dial.go`, `options.go`, ...) | options | `Dial`, `Listen` | one step of several failing with something open; bytes that arrive with the handshake |
| **marshalling** (`io.go`) | – | `Write` | a `WriterTo` may fail or panic between two writes |
| **session context** (`context.go`) | a map under an RWMutex | `Set`, `Get...` | – |
| **MQTT codec** (`packets/mqtt/*.go`) | – | `WriteTo`, `Unpack`, `ReadPacketLimit` | boundaries of the variable-length field; telling an orderly end, a truncation and a malformed packet apart; staying in step |
| **MQTT validation** (`packets/mqtt/utils.go`, `Validate`) | – | `ValidatePattern`, `ValidateTopic`, `Validate`, `StrictValidate` | what is accepted must be safe to pass on |
| **broker** (`interop/broker.go`) | clients, per client subscriptions, packet ids and QoS 2 messages | one handler per connection: CONNECT, dispatch, `deliver`; `Broker.Close` | fan-out over a snapshot while clients come and go; duplicates of QoS 2; id wrap; `Close` against a handler that is registering |
| **broker command, samples, tests** | – | – | – |

Interaction: a listener makes a socket per connection and starts the handler on
it. The broker's handler calls `Recv` with `ReadPacketLimit` as the callback and
`Send` with packets of the codec. Handlers call `Send` on each other's sockets,
which is what makes `Send` concurrent; the broker's `Close` and the handler's
deferred one make `Close` concurrent; `SetTimeOut` comes from the handler after
CONNECT. `Broker.mu` and `client.mu` are held for short sections only, never
both, never across a call on a socket.

What makes each correct:

* sockets: packets never interleave and nothing is written behind a packet that
  was cut short; `Send` returning nil means the packet was written; `Close` and
  a timeout in force end every call; the idle deadline ends exactly the idle
  connections; io.EOF loses no data; what `Recv` reports is what ended the
  session, not an echo of it;
* listeners and `Dial`: what was begun ends as a socket somebody owns or is
  closed, whatever clients do (but for a request's body that never comes, see
  Fairness); the accept loop waits for no client; no port and no byte is lost;
* codec: what is written is read; the three kinds of end are told apart; the
  reader never loses its place after a packet it refuses;
* validation: what is accepted can be written again; matching is MQTT 4.7;
* broker: an acknowledged subscriber gets every later message, QoS 2 once, with
  valid ids; `Close` leaves no client of the table connected and no goroutine
  behind, but that of a ws client which stalls before its CONNECT.

## 2. Modules

| module | models | lines of thought |
|---|---|---|
| `PacketWire` | what `Send` promises | abstract: the only variable is the last unit on the wire |
| `TcpSocket` | the tcp socket and its callers | implements `PacketWire` |
| `WsSocket` | the ws socket, its read loop, its callers, the peer, time | implements `PacketWire` until a frame is torn |
| `QuicSocket` | the quic socket, its callers, the network | implements `PacketWire` unless a marshaler panics between two writes |
| `Establish` | the three listeners, `Dial` and `Listen`, clients of every kind | what comes before a socket module starts |
| `Broker` | the broker and its clients, over the Socket contract | |
| `MqttTopics` | topic rules and `MatchFilter` | operators, with a reference definition |
| `MqttCodec` | writer, byte stream and reader of packets | extends `MqttTopics` |
| `TcpSocket_proofs`, `WsSocket_proofs`, `QuicSocket_proofs`, `Establish_proofs`, `Broker_proofs`, `MqttTopics_proofs`, `MqttCodec_proofs` | – | the theorems about the module of that name, see section 4 |
| `MqttPackets_proofs` | – | what one packet's encoding promises, for `MqttCodec_proofs` |
| `MC*` | – | constants for TLC |

Conventions. A goroutine is a thread with a program counter; one action is what
the code does between two points where another goroutine can interfere (an
atomic, a lock, a `sync.Once`, a call on the connection, the pipe). Names of
fields and functions are the source's; actions are named after the call and the
step in it (`SendLock`, `WriteFail`, `CloseFlag`). A definition preceded by
"Mutant:" is a plausible wrong version of the one that follows it, kept to show
that a property can fail.

**TcpSocket.** `closed`, `once`, `timeout`, `wmu` are the fields of the same
name (`once` is `closeOnce`: `CloseAgain` waits until it is "done", as
`sync.Once` does). `open`, `rdl`, `wdl`, `hs`, `broken`, `wire` are the
connection. A deadline is the interval it was armed with; a call with a deadline
may fail at any moment, one without fails only when the connection is closed.
`Send` is `SendCall` (closed?), `SendLock`, the handshake (`ShakeDone`,
`ShakeFail`; an expired handshake context closes the connection under the
socket, as crypto/tls does), `SendArm`, `WriteSome` per byte, and `WriteDone`,
`WriteFail` or `WritePanic`. On a TLS connection a failed write makes every
later one fail (`broken`). Buffering of reads is left out: no property on what `Recv` returns. One wait is left out: while a `Recv` drives the TLS
handshake, `ConnectionState` (`:109`) blocks on the handshake mutex of
crypto/tls, so that a `Send` is held up there under the deadline of the `Recv`,
before its own handshake timeout starts; the model has such a `Send` at "shake"
at once. With one duration in force, as `TimeoutBoundsCalls` assumes, both are
bounded by it. A marshaler's error before the first byte is counted as a failed
write on TLS (`broken`), which only makes later writes fail that need not.

**WsSocket.** The loop is a thread of its own: "arm"/"armset" is
`armReadDeadline`, "frame" waits for a frame header, "body" is
`progressReader.Read`, "pipe" the blocked pipe write, "try" and "write" a
control reply. The peer's bytes are items (a header, a payload byte, a control
frame, the end); a data frame carries at most one byte, and a longer payload is
a fragmented message, so every byte is a place where something can happen. A
header is one item; a stream that ends within one is the item "bad". An
unsolicited pong (`:193`) is no item: the loop reads and drops it, as it does a
ping while a `Send` holds `wmu`. `PeerItems` says which items a run has.
`Tick` lets time pass only while the loop waits. `quiet` counts ticks without a
data byte and is not advanced while the application is slow.

A failing operation of the connection fails with its own error, or with "self"
when this socket had closed the connection before (`ConnError`).

**QuicSocket.** Fields and callers are those of `TcpSocket`. The stream is
quic-go's, and the model relies on this much of it: setting a deadline never
fails; `Close` lets a `Write` in progress go on and refuses the next one;
`CancelRead` fails a `Read` in progress; data accepted by `Write` is in `wire`
and the network moves it to `delivered` one unit at a time; a reset by the peer
ends writing, `CloseWithError` or the loss of the connection ends everything.
`Send` may make several `Write` calls ("write" between them, "writing" inside
one), so `Close` can come between any two bytes. The five steps inside
`closeOnce` follow `CloseOrder`. `grace` is the goroutine `Close` starts:
`GraceFire` is its timer, `TearDown` the `CloseWithError`. `atClose` and `late`
are history: what had been accepted when `Close` finished the stream, and
whether the timer found some of it undelivered.

**Establish.** `kind` and `opts` (Secure, TLSConfig) are chosen at the start;
both sides are built from the same options. `srv[c]` follows the connection of
client `c` through the server: "backlog" (kernel, quic-go), "setup" (the
`http.Server` reads the request, or `AcceptStream` waits), "answered" with an
HTTP error, "draining" (that error waits for the rest of the request's body),
"handler", "owned" by the application after the handler returned, "ended" when
the handler has closed its socket, or "closed". A `Dial` whose response is on its
way still succeeds when the handler has ended. `loop` is "returned" when Accept
reported a Close and "failed" when it returned a permanent error. `Timed` are
the connections whose timers fire; a timer of another is taken to be longer than
anyone waits, which shows what does not depend on it. `dial[c]` follows the client, `cend[c]` says whether its end is open.
A client that is `raw` does not use `Dial`: it may stay silent, break off,
pipeline behind its request, or fail the upgrade. Bytes are numbered; those that
arrived in one piece with the handshake (any number `k` of them) go to `extra`,
the rest stays in `flight`. `tempDelay` is in units of `FirstDelay`. External
are the backlog, the `http.Server` (its own back-off included; it closes what it
has not handed over when it is closed), the release of the port by Close (for tcp
and ws the kernel frees it although accepted connections live on; that quic-go
does so is assumed, its source is not in the repository) and the ws dialer, which closes its
connection when it fails. `Dial` is given a timeout greater than 0; a raw client
makes one request per connection, since one that goes on asking is not idle.

**Broker.** A handler is at "connect", "reply" (sending to its own client),
"register", "loop", "deliver"/"fan"/"send" (inside `deliver`), "leave" or
"close". Receiving is any packet a client that follows the protocol may send
next, repetitions of QoS 2 PUBLISH and PUBREL included. `held`, `released`,
`acked` and `owed` are history: what the clients have sent and seen, and what
the broker therefore owes. There is one topic, and filters either match it or do
not (`Matching`), because what `MatchFilter` decides is the business of
`MqttTopics`. `Stalling` are connections on a ws listener whose client may renew
the idle timeout for ever (see Fairness).

**MqttCodec.** Strings and bodies are sequences of bytes. The base of the
remaining length (128), its number of digits (4), the longest field (65535) and
the length limit are constants, so that packets of a few bytes reach every
boundary; the continuation bit is 128 as in the code. `End(k)` cuts the stream
after any byte. The two protocol names are one byte each, and bytes from 128 on
stand for ill-formed UTF-8. An unknown packet type and wrong flags are reported
under one name. `NewHeader` is the header `NewControlPacket` gives a packet.
`IsPacket` says which packets an application writes: any content, under the
header of `NewControlPacket` with the flags that the type leaves free (QoS, DUP
and RETAIN of PUBLISH, DUP of PUBREL, SUBSCRIBE and UNSUBSCRIBE); a CONNECT has
the strings its flags announce. Two fields that WriteTo does not write are as
`NewControlPacket` leaves them: the reserved bit of CONNECT, and the packet id of
a PUBLISH at QoS 0. `ConnectChecks` lists the checks of `ConnectPacket.Validate`
in their order, each with its refusal code.

## 3. Runs

All pass, with TLC on two workers, within three minutes each, except the three
that document a finding.

| run | checks | bounds, and why they are enough |
|---|---|---|
| `tcp_framing` | `TypeOK`, `AckedWhole`, `WriteOwnership`, `Framing` | two senders, packets of 0, 2 and 3 bytes, one of the senders also the reader, one goroutine that sets timeouts and closes, plain TCP: a write can fail before, within and after a packet while another Send is queued and a Close is under way. 506 thousand states. |
| `tcp_liveness` | `CloseReleasesAll`, `TimeoutBoundsCalls` | two senders, a reader, a closer, TLS with a pending handshake, packets of 1 and 2 bytes, marshalers that may panic: one Send in the handshake, one queued, and a Recv that drives the same handshake. |
| `ws_read` | `TypeOK`, `EofAfterAllData`, `IdleBounded`, `BackpressureNotCharged` | a timeout of 2 ticks, 2 items in flight, up to 10 quiet ticks: enough for a deadline to be renewed five times. Peers that send empty messages are left to `ws_empty`. 1.2 million states. |
| `ws_write` | `CauseIsOriginal`, `FramingUntilTorn`, `CloseReleasesAll`, `PeerEndClosesSocket` | two senders, the loop's replies and a closer, no timeout, so that nothing but a close frees a blocked Send; a peer that sends data messages, pings and a close; an application that may stop reading, so that the loop is blocked on the pipe when someone closes. Fragments are left to `ws_read`. 483 thousand states. |
| `quic` | `TypeOK`, `GraceDrains`, `OwnErrorHidden`, `Framing`, `CloseUnblocksRecv`, `CloseReleasesAll` | two senders, one of them also the reader and the setter of timeouts, one closer, two packets, timeouts 0 and 1: a Close comes before, between and within the Writes of a Send while another is queued and a Recv is blocked, and a failing Send calls Close itself. 324 thousand states. |
| `establish` | `TypeOK`, `PortReleased`, `BackoffFollowsErrors`, `FirstBytesKept`, `EverySetupEnds` | each of the three transports with each setting of the two options, two clients, one that talks (two bytes up, one down) and one that never does; delays 1, 2 and the cap 3, three errors in a row: the cap cuts a doubling off, and a silent client can stand before a talking one at every point. The timers of the silent one do not fire, so the other's acceptance does not wait for them. 338 thousand states. |
| `broker` | `TypeOK`, `AckedSubscribersServed`, `Qos2OnlyOnce`, `PacketIdValid`, `ClosedMeansDisconnected` | two connections, symmetric; one message at QoS 1 and one at QoS 2, granted 0 or 2, and ids that wrap after 1. 2.8 million states. |
| `broker_close` | `CloseEndsHandlers` | two connections, one QoS 0 message, a matching and another filter; one of the clients may stall before its CONNECT. 123 thousand states. |
| `mqtt_codec` | `TypeOK`, `RoundTrip`, `EofIsBoundary`, `InSync`, `ValidCanBeWritten`, `FilterSemantics` | every sequence of two frames out of 30 written and 12 foreign ones, cut at every byte; base 4 and three digits, so bodies of 3/4, 15/16 and 63/64 bytes are on either side of a boundary (64 cannot be written); fields up to 3 bytes, limit 23; a topic and a filter with an empty level. Two frames suffice for a packet after a refused one and for a filter and a topic. 266 thousand states. |
| `ws_torn`, `ws_empty`, `tcp_settimeout` | one property each, violated | see section 5 |

Deadlock is checked for the sockets. It is off for the broker, whose handlers
all end, the codec, whose stream ends, and `establish`, where everything may
come to an end.

**Fairness.** Only the liveness runs assume any. Goroutines that can take a step
by themselves do (the Go scheduler; `sync.Mutex` hands over to a waiter after a
millisecond, so weak fairness of the step that takes it, together with holders
that let go for good, is enough). A call on a closed connection fails, and one
with a deadline eventually does (runtime timers). The application owes nothing
either: a `Recv` in progress goes on, but nobody has to call it again, and where
a property depends on that it says so (`PeerEndClosesSocket` excepts a loop that
waits on the pipe for an application that does not read). The peer is never
assumed to send, read or finish a handshake. In `QuicSocket` not
even the grace timer has to fire: `CloseUnblocksRecv` does without it, and
`CloseReleasesAll` says what happens once it has.

In `Establish` the accept loop runs, the timers of the `Timed` connections fire
(`ReadHeaderTimeout` and `IdleTimeout` of the `http.Server`, the wait for a
stream, the dial timeout), and the server is told when a client has left. No
client and no handler has to do anything. There is one wait without a timer, and
no fairness for it: the `http.Server` reads the rest of a request's body before
it answers a request that is no upgrade, and has neither a `ReadTimeout` nor
another bound for that (`transports/ws/transport.go:131-139`). A raw client that
withholds the body keeps that connection until it leaves or the listener is
closed; `EverySetupEnds` excepts it. Transient accept errors come at most
`MaxErrors` in a row, without which no accept loop makes progress.

In the broker a Send before the CONNACK is sent is bounded by the 30 s timeout
set at `src/interop/broker.go:95`. The wait for CONNECT is bounded by it on tcp
and quic, where it is a deadline for the whole packet. On a ws listener it is an
idle timeout, which empty messages renew (section 5, second finding), so
there is no fairness for the handlers of `Stalling` clients that wait for
CONNECT, and `CloseEndsHandlers` excepts them. After CONNECT nothing is bounded,
since keep alive 0 switches the timeout off.

## 4. Proofs

Every safety property of section 3 is proved for all values of the constants,
under the hypotheses that follow. Each module has one theorem per property, on
top of an inductive invariant that is proved with one step per action. The
invariants were checked with TLC on small instances before they were proved.

**What is assumed.** The `ASSUME`s of the modules (constants have their types;
the listed sizes and bounds are positive; TLC evaluates them on every run), and:

* `~MarshalerPanics`, in two theorems about tcp: Send recovers from a panic of a
  marshaler between two writes (`WritePanic`) and leaves the cut packet on an
  open connection (section 5);
* `Durations = {T}`, in the two theorems about idle time of the ws socket: while
  a new timeout is stored and not yet armed, the old one is in force, so "the
  timeout" is only one number if there is one (this is the third finding);
* `~EmptyMessages`, for `IdlePeerIsCutOff`: with empty messages the property is
  false (the second finding);
* laws of exponentiation: `2^k` is positive and doubles with `k`, and the same
  for `Base^k` (`PowerLaws`). They are arithmetic, but none of the provers knows
  any law of `^`, so they are hypotheses where they are used (`BackoffExact`, and
  the theorems of the codec that depend on the remaining length);
* `128 % Base = 0` for the codec (`CodecConstants`): the continuation bit must
  not disturb the digit below it, as 128 % 128 = 0 in the code. `MaxFieldType`:
  a field's length fits in two bytes. `FramesType` says what the given frames
  are: an application's packets are `IsPacket` (section 2); a foreign frame is
  any bytes, with a length that either is encoded canonically or is malformed
  (a length in more digits than it needs, which the reader accepts, is left out);
* `MaxField = 65535`, for `ValidIsForwarded`. Validate does not look at the
  length of a will message or of a protocol name; what was read fits because two
  bytes cannot say more than 65535, which a smaller `MaxField` would contradict.

**Framing: `TcpKeepsFraming`, `QuicKeepsFraming`, `WsFramingUntilTorn`.** Each
socket implements `PacketWire` under `tail <-` the last unit it has written.
`Framing` is not inductive: that the next byte continues the packet the wire
stops in depends on who wrote the last one. Two invariants say it. `Writers`:
who writes holds `wmu`, and what it has written so far is the end of the wire.
`CutIsOwned`: as long as writing is possible, a wire that stops inside a packet
belongs to the holder of `wmu`, which is writing that packet or is inside the
`Close` it called for it; and `once = "done"` implies that the connection (for
quic: the stream's sending side) is closed. The second half carries the case of a
failing Send that finds another Close under way: it may leave `wmu` only after
the other has finished, so whoever locks next can write nothing. The ws socket
unlocks before it closes, so there the invariant holds only until `torn`.
For tcp the two invariants together are the checked property `WriteOwnership`.
`AckedPacketsWhole` needs `Writers` only.

**Closing: `OwnErrorsHidden`, `GraceDrainsAccepted`, `CauseStaysOriginal`.** The
invariants (`CloseInv`) order the steps inside `closeOnce`: one goroutine runs
them; for quic, what `Close` has cancelled or ended implies `closed`, so the
error of a `Recv` is replaced, and an ended connection implies a timer that fired
and a `late` that recorded what it found; for ws, an error of our own closing is
met only once `closeOnce` is done and the pipe has its cause.

**The ws read loop.** `EofLosesNothing` rests on `PipeInv` (the bytes not yet
returned are those in flight and the one the loop holds out to the pipe) and on
`EofInv` (an end of the peer is the last item in flight, and whoever is about to
close with io.EOF has nothing left in flight or in the pipe). `TimeNotCharged` rests on `IdleInv`: the deadline
in force is at least a timeout away from the last data byte.
`IdlePeerIsCutOff` has the longest argument. `Grammar` and `LoopInv` describe the
items in flight together with the loop's position: a message is never empty, so
an empty last fragment belongs to a message in which a byte has come. Hence
between two data bytes the deadline can be armed at most three times (the tail of
the old message, the header of the next, the first Read of it), plus one reply
that outlasts a deadline. `QuietInv` counts this: quiet time plus the time to the
deadline is at most the time spent so far (`Spent`) plus one timeout, which gives
the bound of four timeouts.

**Establish.** `PortIsReleased` is inductive as it stands. `NoByteLost` needs
`AllNumbered` (the bytes behind the handshake and those in flight are, together,
1, 2, 3, ... up to the number sent) and `Fresh` (nothing is set aside before the
handshake is over); the hijack may cut this sequence anywhere (`NumberedSplit`).

**Broker.** `HandlerInv` ties the message a handler is working on to its program
counter. `Qos2DeliveredOnce` follows the message: it belongs to nobody while it
is fresh, then to the one client that stored it (`Stored`, `OneOwner`), then to
the one handler that delivers it (`Pending`: who is still to be served has
nothing yet), and then to nobody again. `SubscribersServed` needs `AckedInv` (a
client with its SUBACK, or about to get it, is subscribed) and `OwedInv` (whoever
is owed the message is in the snapshot still to be served, or was served).
`CloseDisconnects` needs `CloseInv`: the flag goes up with the snapshot, so a
handler that registers later sees it and does not stay, and an open client of the
snapshot is one that `Close` has yet to close.

**MQTT.** `MatchFilterCorrect`: for every pair of strings that pass
`ValidatePattern` and `ValidateTopic`, the early-exit loop of `MatchFilter`, with
`strings.Split` and the rule for "$", decides what section 4.7 defines;
`FiltersDecided` applies it to what the reader returns. The argument: in a valid
filter "#" is the last level (`HashIsLast`), so the loop leaves at "#" only there
(`OpenFilter`) or never (`ClosedFilter`); `MatchLevelsCorrect` and
`PlainFilterExact` are the parts about levels. `Split` is defined by counting
slashes, not by recursion, so that it can be reasoned about (`SplitFacts`).

`ReaderInSync`, `EndIsTold` and `TypeCorrect` of the codec rest on `SyncInv`:
there are offsets `off` such that frame `i` of those written occupies the bytes
from `off[i]` to `off[i+1]` (`Chain`, `OnWire`), and the reader is inside the
frame that follows those it has returned, with as many digits of its length, and
the value they have so far, as the position says (`InFrame`). That the digits
read give the length that was written, with the continuation bit on all but the
last, is `LengthEncoded` and `DigitRead`, by induction over the number of
digits; the induction is over the statement itself, from the least number
principle (`Least`, `Induction`), since the library's induction theorems cannot
be used. `VerdictsInvariant` adds that an end inside a frame is told from one
between frames.

`PacketsComeBack` and `ValidIsForwarded` are about what the packets hold. On the
side of the stream, `OnWire` says of every byte on the wire which byte of which
frame it is, so the bytes the reader takes for a body are the body (`BodyBytes`).
`HeaderTaken` and `Answers` are the invariant: the header in hand is that of the
frame the reader is in, and the i-th verdict is an end of the stream or what the
i-th frame asks for (`FramesAnswered`).

On the side of the packets (`MqttPackets_proofs`), `PacketRead` says that
`Unpack` undoes `Body`, for every type. The header byte is the sum of disjoint
bits (`HeaderReads`), and so are the flags of CONNECT; a string or a number in
front of anything is read back as it is, with the rest left. For lists this is
lifted by induction over their length: `Body` concatenates chunks with
`FlattenSeq` (`FlattenRun` unfolds it from the left), and `Items` reads as many
strings as there are, or until nothing is left. The other direction is
`PacketWrite`: whatever `Unpack` accepts is a packet whose fields fit in their
two bytes and whose encoding is not longer than the body it came from.
`ValidForward` adds what the checks
of `Validate` exclude: an empty or uneven list, a will QoS of 3, the reserved bit
that would be lost. Then WriteTo does not refuse the packet and `PacketRead`
applies to it.

The proof found the one place where Valid does not imply StrictValid: a SUBSCRIBE
or UNSUBSCRIBE with the DUP bit, which the fixed header tolerates
(`src/packets/mqtt/packets.go:373-376`) and StrictValidate refuses.
`ValidCanBeWritten` says exactly that, and the run has such a frame.

**Only model-checked: liveness.** `CloseReleasesAll` of the three sockets,
`TimeoutBoundsCalls`, `PeerEndClosesSocket`, `CloseUnblocksRecv`,
`EverySetupEnds` and `CloseEndsHandlers` depend on fairness, and fairness on
`ENABLED`, which the prover cannot handle.

## 5. Findings

* **A frame behind a torn one** (`ws_torn`, `transports/ws/socket.go:284`).
  `writeFrame` unlocks `wmu` on return; only then does `Send` call
  `closeWithCause`. A Send that was waiting for `wmu` writes its frame behind
  the cut one. The tcp and quic sockets close while they hold `wmu`, and the
  proof above shows that this is what matters.
* **Empty messages count as activity** (`ws_empty`, `:109`). A progressReader
  starts with `progressed: true`, so the first Read of every message arms the
  deadline. The comments at `:73` and `:120` say otherwise. The broker
  inherits it: on its ws listener the "bounded window to present its CONNECT"
  (`interop/broker.go:91-95`) has no bound for a client that sends empty messages
  instead, and `Broker.Close` does not end that handler, which is not in the table
  yet.
* **SetTimeOut can be overtaken** (`tcp_settimeout`,
  `transports/tcp/socket.go:80`). A Recv that has loaded the old interval sets
  it after SetTimeOut has set the new one, and blocks under the old one. Same
  in quic and in the ws read loop. The broker is not affected: there the
  goroutine that calls Recv also calls SetTimeOut.

Observed, without a run of their own:

* Send of the tcp and quic sockets recovers from a panic between two writes and
  does not close the torn connection (`transports/tcp/socket.go:93`,
  `transports/quic/socket.go:86`). Only a `WriterTo` that writes more than once
  and panics in between gets there; none in the repository does. With
  `MarshalerPanics = TRUE` TLC shows `Framing` of `TcpSocket` violated.
* A ws client whose request is no upgrade and whose body never comes holds its
  connection without limit (`transports/ws/transport.go:131-139`, under Fairness
  above); the comment there names only trickled headers.
* `Secure` without a `TLSConfig` makes every `Listen` fail (`ListenRefused`),
  while the comment of the option in `options.go` speaks of a best-effort
  self-signed certificate.

## 6. Plan, and what is not modelled

The modules of the system are written, and the safety properties that the runs
check are proved. What a later change would have to redo: an edit of a socket's
`Close` touches `CutIsOwned` or `CloseInv` of its module; a new packet type needs
a case of `PacketRead` and of `PacketWrite`; everything about the stream is
independent of what packets hold.

Not modelled: the session context (a map under an RWMutex with typed getters:
every operation is one critical section and nothing relates two of them), the
command (starts one broker on two listeners and exits with the first error),
samples and benchmarks, addresses and the remaining options (subprotocols, ALPN,
keepalive and idle settings are handed to the libraries as they are), which Go
type `Write` marshals how, `String` and `Details` methods, buffer pools, and the
wire formats of TLS, WebSocket and QUIC, which belong to the libraries.
