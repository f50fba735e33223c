# A formal model of videotoolbox_remote

TLA+ modules that model the remote encoder and decoder of this repository: the
FFmpeg client (`src/ffmpeg/libavcodec/vtremote_*`), libavcodec's loops around it,
and the macOS daemon `vtremoted` (`src/vtremoted/Sources/VTRemotedCore`). TLC
checks them on small instances, and TLAPS proves the most important facts for
every value of the constants. `PROJECT.json` holds the machine-readable part: the
source lines behind every definition, the runs, the mutants (a plausible bug for
each property, which makes TLC find the property violated), the hazards and the
findings.

## 1. The system

A client sends raw frames (encode) or packets (decode) over one TCP connection and
gets packets or frames back. A connection is one session: HELLO, HELLO_ACK,
CONFIGURE, CONFIGURE_ACK, then FRAME/PACKET messages both ways, FLUSH from the
client, DONE from the server, and both close.

| Component | State | Operations | Talks to |
|---|---|---|---|
| Encode client, `vtremote_enc_common.c` | `inflight_frames`, the packet ring, `flushing`, `done`, counters, the socket | `ff_vtremote_encode`: drain what can be read, return a queued packet or send the frame or wait; FLUSH; close | libavcodec above, the socket below |
| libavcodec's encode loop, `encode.c` | `draining`, `draining_done`, the frame held | `avcodec_send_frame`, `avcodec_receive_packet` | calls the client; its results reach the application |
| Decode client, `vtremote_dec_common.c` | `flushing`, `done`, the socket | `ff_vtremote_decode`: send a packet (or FLUSH once), then read one message | libavcodec above, the socket below |
| libavcodec's decode loop, `decode.c` | `draining_started`, `draining_done`, `nb_draining_errors` | `avcodec_send_packet`, `avcodec_receive_frame` | as above |
| The wire, `POSIXIO.swift`, `VTRWireConnection.swift`, `write_full`/`read_full` | two byte streams, socket buffers, timeouts, the send lock | write and read one message; close; reset | both sides |
| `VTRServer` | listening socket, a thread per connection | accept, run a handler, close | the handler |
| `VTRClientHandler` | phase of the session, `ClientStats` | `handshake`, `configure`, `mainLoop` | the wire, the codec session |
| `VideoToolboxCodecSession`, encode | compression session, `warmupPending`, `forceKeyframeNext`, semaphore, `encoderExtradata`, the tracker | `configure` (with `warmup`), `handleFrameMessage`, `flush`, `shutdown`, the output callback | VideoToolbox, which calls back on threads of its own; sends PACKET from there |
| `VideoToolboxCodecSession`, decode | decompression session | `handlePacketMessage`, `flush`, `shutdown`, the output callback | the same; sends FRAME |
| `TimestampTracker` | last PTS and DTS, a lock | `process`, `reset` | called by the output callback |
| `LatencyTracker`, `ClientStats` | a ring of times, counters | submit, output, report | reader thread and callback threads, no lock |
| The process, `main.swift` and launchd | up, killed, exited after `--once` | run, die, start again | every connection it holds |
| `BufferPool` | a free list, a lock | get, return | reader and callbacks |
| Pure functions | none | `Timebase`, `AnnexB`, message coding, LZ4/Zstd | the above |
| `StubCodecSession` | counters | the same interface as the VideoToolbox session | tests |

**Where it is hard.** The client is one thread, but every call of it interleaves with
the server's reader thread, VideoToolbox's callbacks and two socket buffers. Flow
control is spread over three counters on the client; what a call does with a frame
and what libavcodec believes it did differ on several paths; the end of the stream
is signalled in three ways (DONE, a closed socket, an error) that can overtake the
packets still queued; callbacks run concurrently and change shared state partly
under a lock, partly not; waits give up after timeouts while what they waited for
still happens. The "hazards" of `PROJECT.json` list each one at its line.

**What makes each part correct.**
*Encode session*: never more than the limit in flight, every packet delivered once
and in order, every accepted frame transmitted, a packet for every frame by DONE,
calls return, sessions end.
*Decode session*: frames in packet order, none missing at the end of the stream,
sessions end.
*Tracker*: DTS ≤ PTS, DTS increasing, no timestamp lost, valid input untouched.
*Callbacks*: DONE after the last packet, packets in the tracker's order, counts right.
*Warm-up*: the blank frame never reaches the client, the stream starts with a key
frame, no frame of the client is lost to it; callbacks of the client's frames may run
while the blank one is late.
*Handshake and connections*: no media before both sides agree, a client that is
refused learns why, a connection accepted is served as long as no client holds a
handler, one client cannot end the sessions of others.
*Framing*: after any partial read or write, what is read is a message that was sent;
a loss is seen as an error by somebody.
*Latency ring*: it is the queue of submission times.
*Timebase*: a timestamp survives its way to VideoToolbox and back.

## 2. The modules

| Module | Models | State and actions |
|---|---|---|
| `TimestampTracker` | `TimestampTracker.process`, `reset` | `lastPts`, `lastDts`; `SkipSample`, `EmitSample`, `CorrectedDts` |
| `TrackerSession` | a session seen by its tracker, for a chosen workload (any pairs; display order; valid decode order) | histories `input`, `output` |
| `Timebase` | ticks to CMTime and back | none: operators `Time`, `TicksOf`, `RoundTrip` |
| `Framing` | one direction of a connection at the grain of partial reads and writes, with each side's timeouts | `wire` (units in transit), the writer's `out`, the reader's `head`, `need`, `got`; `WriteUnit`, `ReadUnit`, one action per timeout |
| `Wire` | messages on a TCP connection after the handshake, whole but for one that the client's send timeout cuts | `c2s`, `s2c`, how each direction ended, the client's sending side, `torn`; send, failed send, reading behind a cut message, close, reset |
| `EncClient` | `ff_vtremote_encode` and libavcodec's encode loop; extends `Wire` | one action per socket operation of a call; `pc` says how far it is |
| `EncServer` | `mainLoop` of an encode session, VideoToolbox, the output callback, the death of the process; extends `Wire` and `TimestampTracker` | `ReadFrame`, `ReadFlush`, `ReadGarbled`, `ReadBroken`, `SendDone`, `Shutdown`, `Crash`, `EmitPacket`, `SkipPacket`, ... |
| `EncSession` | composes client, server and wire; all properties of an encode session | |
| `EncodeService` | abstract: what a remote encoder promises, and what is left of it once the stream of frames is torn | `accepted`, `output`, `ended`, `torn`; implemented by `EncSession` |
| `EncCallbacks` | output callbacks on several threads, at the grain of their locks | `step[s]` per sample; refines `TrackerSession` |
| `EncWarmup` | warm-up and forced key frame: the handler's thread and output callbacks, several at a time | the handler's `hpc`, `at[f]` for each frame (in the encoder, at a statement of its callback, over), the three flags and the semaphore |
| `DecodeService` | abstract: what a remote decoder promises | `accepted`, `output`, `ended`; implemented by `DecSession` |
| `DecSession` | decode client, libavcodec's decode loop, server; extends `Wire` | as for encoding, one message per call |
| `Daemon` | the process, the accept loop, a handler per connection, HELLO and CONFIGURE on both sides, clients that stop inside a message or do not read | `srv[c]`, `cli[c]`, `partly[c]` per connection, `peer[c]` for the state of its socket, `queue` of blocks GCD has not started |
| `LatencyTracker` | the ring of submission times, at the grain of loads and stores | `times`, `head`, `count`; steps of `submit` on the reader's thread and of `output` in callbacks |
| `TrackerProofs`, `EncSessionProofs`, `CallbackProofs`, `WarmupProofs`, `DecSessionProofs`, `FramingProofs`, `DaemonProofs`, `LatencyProofs` | theorems, see section 5 | |
| `MC...` | values of constants for TLC | |

How the models correspond to the code:

* A call of the encoder is split at every read or write of the socket, because the
  server can run in between. `pc` names the place: `drain` is
  `vtremote_drain_available_packets`, `submit` the code after it, `limit` and `recv`
  the two calls of `ff_vtremote_common_receive_packet`, `resend` the second
  `ff_vtremote_common_send_frame` after the wait, `flush` the one with a NULL frame.
* The packet ring is the sequence it stands for. Its bound is not assumed:
  `FlowControl` implies that it never fills. The branch of `receive_packet` that pops
  the ring before reading is shown unreachable by `QueueEmptyWhenBlocked` and has no
  action.
* A frame is its number, a PACKET carries the frame it encodes and its DTS. `ord` in
  messages, and `sent`, `emitted`, `answered`, `processed`, `overlapped`, `mishaps`,
  `torn`, `cutShort`, `lost`, `killers`, `accepted`, `fifo`, `starts`, `flaws` are history: no
  guard of a modelled operation reads them.
* A send that finds the socket full is not enabled, and fails when the send timeout
  expires. A send to a closed peer succeeds until the reset it provokes is back. In
  `Daemon` the write after that raises SIGPIPE, which the daemon does not ignore, and
  is the one way its process is killed there; the sessions have the death itself as
  the fault "crash", which can come at any moment.
* A send timeout can also leave a part of a message on the wire (`PartWritten`), and the
  client goes on: `encode.c:515` keeps the EAGAIN to itself. The server reads what
  follows as the rest of that message. What it makes of it depends on lengths and bytes
  the model does not have, so all outcomes are possible: the part and one or more
  messages behind it pass for one FRAME or for a message that is dropped
  (`ReadSpliced`, `ReadGarbled`), the border then found again or lost inside the
  last of them, or `readMessage` throws (`ReadBroken`). The history `torn` says that it
  has come to this. A FRAME made of two can be answered with a packet, so that flow
  control and the accounting of frames are exact only while `~torn`; the properties
  say so one by one, and `PacketsInOrder`, `QueueEmptyWhenBlocked` and the first part of
  `OneFrameResent` hold in any case. A decoder does not go on after a failed send of its
  own, since libavcodec aborts (`decode_stall`); only a PONG can be cut under it.
* EOF from any call of the encoder ends the stream for libavcodec (`encode.c:375`), with
  a frame in hand too: the encoder is not called again.
* VideoToolbox is external. What the models rely on: frames come out through one
  callback each; `EncodeFrame` blocks when too many are pending; `CompleteFrames`
  and `WaitForAsynchronousFrames` return after all callbacks; the encoder keeps back
  at most `EncoderDelay` frames (`MaxFrameDelayCount`).
* `EncServer.RawDts` is the PTS: without B-frames VideoToolbox gives no DTS, or the PTS.
  The branch for a DTS of its own (`VideoToolboxCodecSession.swift:749`) is left out
  there, since nothing that is checked of a session with B-frames is about the DTS;
  `TrackerSession` has every DTS there can be. `DecSession.ReadFrame` leaves out the
  errors behind a FRAME that has been read (`vtremote_dec_common.c:668-686`): frames of
  `vtremoted` are well formed, and memory is taken to suffice.
* `EncServer` has the callback as one step. `EncCallbacks` opens that step up and shows
  (`WireInOutputOrder`) that only callbacks that overlap make a difference.
* The action of libavcodec's that returns EOF without calling the codec again
  (`draining_done`) makes the first test of `ff_vtremote_decode` unreachable.
* In the map from `EncSession` to `EncodeService` a frame goes in when it is
  transmitted, a packet comes out when the call that delivers it returns, and the
  stream ends when the application sees the end. A call can do the first two at once
  (`Exchange`).
* `Framing` cuts a message into units: the four fields of the header (magic, version,
  type, length) and as many units of payload as `Payload` says. When borders are lost,
  the bytes read as a header are checked for magic and version as the code does; a
  length that is not a length can be any of `Garbage`. One thing is assumed: no
  payload contains the six bytes of a magic and a version.
* `LatencyTracker` splits `submit` and `output` at every load and store of `head`,
  `count` and the array, since two threads run them without a lock. Swift leaves such
  a race undefined; the model has the interleavings of the loads and stores, a
  subscript that traps, and an array freed under a reader.
* `EncWarmup` has the callback at the grain of its statements up to the end of the discard,
  for up to `MaxCallbacks` at once ("VideoToolbox callbacks can fire concurrently",
  `TimestampTracker.swift:5`). `mishaps` gets "race" when a callback overtakes that of an
  older frame at the test of `warmupPending`, or finds the flag set although another has
  passed the test already.
* In `Daemon` a handler waits 10 s for the first byte of a message, and without limit for
  the rest (`Stuck`) and for room in the sockets of a client that does not read
  (`Written`).
* `Wire` does not extend `Framing`. What the first takes for granted is what the second
  shows: an accepted message was sent, in order, unless its own send had failed
  (`AcceptedAreSent`), and a loss is reported (`LossIsReported`). What happens behind a
  send that failed in the middle of a message `Wire` has itself.

## 3. What the runs check

| Run | Question | States |
|---|---|---|
| `tracker` | every session of 4 samples over 5 ticks, the "unset" mark included, in three workloads; and the two theorems on `Timebase` over a small integer type | 409 000 |
| `session_faults` | an encode session of four frames with every fault at once, cut messages and the death of the daemon included, a repeated timestamp, limit 2; refinement of `EncodeService` | 3 502 000 |
| `session_live` | the same without faults but with B-frames, limit 4, on a fair scheduler: calls return, the session ends, DONE means complete | 32 000 |
| `callbacks` | three callbacks at once with all timings over two ticks; refinement of `TrackerSession` | 74 000 |
| `warmup` | four frames, one asked to be a key frame, three callbacks at once, all faults | 147 000 |
| `decode` | four packets, all faults; refinement of `DecodeService`; the session ends | 84 000 |
| `framing` | four messages of 0 to 4 units of payload, written and read in pieces, in either direction, every timeout | 132 000 |
| `daemon` | two clients on one process, with and without `--once`, right and wrong tokens, clients that leave at any moment, stop inside a message or do not read | 89 000 |
| `latency` | four frames on a ring that starts with two entries, two callbacks and the reader at once | 497 000 |
| `session_dup`, `session_eof`, `decode_stall` | section 4 | |

The properties, with what they exclude:

* `FlowControl`, `InflightExact`, `QueueEmptyWhenBlocked`: the three counters of the
  client agree, the first two until a message is cut. If they did not, libavcodec would free frames unsent, the ring
  would be overwritten, or `receive_packet` would report the end with packets queued.
* `OneFrameResent`: no frame is transmitted a third time, a second time only directly
  after the first, and, until a message is cut, a session has at most one FRAME more than
  frames handed over.
  Without stalled sends that means that one frame is sent twice (finding `session_dup`):
  the duplicate keeps its slot. A send that stalls can leave a slot free, so that another
  frame fills the limit once more.
* `EncodesInOrder`: an encode session is an `EncodeService`: the application gets no
  packet for a frame that was not sent, no frame and no timestamp twice although a
  frame goes over the wire twice, DTS increase and are at most PTS, nothing follows the
  end, whatever fails. Once a message has been cut, only this is left: what has come out
  stays, and nothing follows the end.
* `PacketsInOrder`: what was delivered, what is queued and what is in transit is
  exactly what was emitted; after a loss, a prefix of it. It holds behind a cut message too.
* `SuccessMeansSent`: an action property; a call that returns 0 has transmitted its
  frame, or its connection is dead, stalled, or has taken a part of it only.
* `DoneMeansComplete`, `DoneMeansDrained`, `DoneIsLast`: DONE follows everything.
* `CallsReturn`, `SessionEnds`: no deadlock between a client that blocks on a full
  socket, a reader that blocks in `EncodeFrame` and a callback that blocks on a full
  socket; no wait for a packet that will not come.
* `WireInOutputOrder`, `SerialTracker`: what survives concurrent callbacks.
* `BlankNeverSent`, `KeysAskedPlusOne`, `EveryFrameHasPacket`: what the warm-up may cost.
  Unless callbacks race on `warmupPending`, the discard hits the blank frame and no
  other, also when it is late, and one key frame more is made at most; every key
  frame asked for is one even then. `DecodableFromStart`: the client's first frame is a
  key frame, and no race is possible, unless the wait gave up or a frame failed; and
  after an undisturbed warm-up CONFIGURE_ACK has the extradata.
* `CompleteAtEnd`, `DecodesInOrder`: the end of a decode session loses nothing, and
  the session is a `DecodeService`.
* `AcceptedAreSent`, `LossIsReported`: a send cut by its timeout spoils one message and
  no more; a receive timeout between a header and its payload, which drops the header
  without a word, is followed by an error before any later message is accepted.
* `WaitsForOwedBytes`, `ReaderEnds`: `vtremoted` polls before a header only and waits
  without limit inside a message; it does so only for bytes the client still owes, and
  the wait ends when the client closes.
* `ConnectedMeansAgreed`, `RefusedKnowsWhy`: a client whose `init` succeeded talks to a
  server that has a codec session for it; one with a wrong token gets EACCES, which
  the reset of a socket closed with unread bytes could have destroyed.
* `OnlyAbortsKill`: SIGPIPE can be provoked only by a client that leaves in mid-stream;
  the alternation of reads and writes in the handshake prevents it there. Traps that
  kill the process too (`LatencyTracker`, `Int32(den)`) are not in `Daemon`.
* `AcceptedIsServed`: clients that are silent between two messages cannot keep others
  waiting for ever, although handlers run on a pool of limited size and with `--once` one
  after the other. It is about the behaviours in which no client holds its handler for
  ever (`Holds`), by stopping in the middle of a message or by not reading: nothing
  limits the wait for such a client, and without that condition TLC finds a connection
  that is never served.
* `RingIsQueue`, `NeverUnderestimates`, `CrashExplained`: what is left of the latency
  ring's promise when nothing locks it and it grows by appending: exactly which
  events (`flaws`) can break it, and in which direction a report is then wrong.

**Bounds.** `NumFrames` 3 to 5, enough to fill the in-flight limit, the encoder and
both sockets, with frames left over. `C2SCap`, `S2CCap`: socket buffers of a few
messages, so that both block. In-flight limit 2 and 4. `EncoderDelay` below `EncoderCap`.
`MaxPings` and "one unanswered PING" bound a peer that pings. `MaxDrainErrors` is 1
instead of 21. `MinTicks` is -1 and stands for `Int64.min`: nothing but equality with
it and order matters. Ticks are unbounded integers in the tracker, so overflow in
`lastDts + 1` is not covered. `Timebase` is checked with `Int64.max` = 20, all
tick values of that type and timebases of 1 to 3 over 1 to 3, so that products saturate;
the theorems are for every size. `framing`: payloads of 2, 4, 0 and 1 units, so that an interrupted message
is completed by parts of one, of two and of three later ones; wrong lengths 1 (an
early end), 3 (the middle) and 20 (more than is ever sent); `MaxReports` 3 errors
before a caller gives up. `daemon`: two clients suffice for one to be cut off by the
other and for one to wait behind the other; `MaxWorkers` 2, `MaxMedia` 2 so that a
write can follow a reset, and `DownCap` 2 so that a client that reads nothing blocks its
handler before DONE. `warmup`: `MaxCallbacks` 3 and `EncoderCap` 3, so that callbacks of the
blank frame and of two frames of the client overlap. `session_faults` has four frames
against sockets of two and three messages, so that messages follow a cut one. `latency`: capacity 2 and 4 frames, so that the ring wraps,
fills and doubles during a callback; `MaxRunning` 2 callbacks, enough for a lost
decrement.

`session_live` needs two conditions, which are findings of a kind:
`Inflight` ≥ `EncoderDelay` + 2, plus one per frame whose PTS repeats, because a
frame the tracker skips keeps its in-flight slot for ever; and `Inflight` <
`C2SCap` + `EncoderCap` + `S2CCap`, or all three fill and everyone waits. The code
lets VideoToolbox keep back 8 frames and accepts any `vt_remote_inflight` from 1 to
128; neither side enforces such a relation.

**Fairness.** `session_live`: weak fairness of the client's call (one thread that goes
on), of the server's loop (another), of callbacks that are due (VideoToolbox delivers
what it owes), and of the application ending the stream and closing. None of
timeouts, resets, drops, new frames or a particular interleaving. `decode`: the same,
and the socket timeouts of a blocked call are part of the call, since
`vt_remote_timeout_ms` is at least 100 and cannot be turned off; without them a
decoder waits for ever for the frame of a packet that failed to decode. `framing`: weak
fairness of reading what is there and of noticing the end of the stream; none of
the writer and of timeouts. `daemon`: weak fairness of the accept loop, of each handler
(its 10 s poll for the first byte of a message is part of its read, so that a client
silent between messages ends it; reading the rest of a message and writing have no limit,
and are not enabled while the client does not go on), of each codec session's callbacks, and of GCD starting a block when none runs; that it runs two at
a time is not relied on. Nothing a client does is fair there. The other runs need none.
`CHECK_DEADLOCK FALSE` appears only for `tracker`, whose sessions stop at a bound; the
modules whose systems stop have a `Terminated` action with the condition under which
they may.

## 4. Where code and repository disagree

Three runs show a statement of the repository violated; the quotes are in
`PROJECT.json`.

* `session_dup`: the frame that takes the last in-flight slot is sent, and after the
  wait sent again as "the pending frame".
* `session_eof`: a draining call that reads the end of the server's stream returns it
  although packets wait in the ring; the application never gets them.
* `decode_stall`: a send timeout reaches libavcodec as EAGAIN, which it asserts a
  decoder never returns: the process aborts.

Seen while modelling, and not runs of their own:

* After the server gave up on an idle client, the call that reads the end of its stream
  loses its frame without an error (`encode.c:515` keeps the end to itself) and ends the
  stream for libavcodec (`encode.c:375`), which never calls the encoder again: one frame
  more is accepted and kept unsent, later ones are refused with EAGAIN, and
  `avcodec_receive_packet` returns EOF.
* A send timeout can cut a FRAME, and the application goes on as if it had been encoded.
  The server reads the next message as the rest of it, and can encode and answer a frame
  the client has not counted as sent (why `FlowControl`, `InflightExact` and others exclude `torn`).
* The tracker's lock is released before the send lock is taken, so overlapping
  callbacks can send in the opposite order (`VideoToolboxCodecSession.swift:754`, `:775`).
  `packetsOut` loses updates in the same way.
* If the blank frame of the warm-up takes more than a second, the flag that forces the
  next key frame can be cleared unseen: a stream without a key frame (why
  `DecodableFromStart` excludes a slow warm-up). Its callback then races with those of the
  client's first frames on `warmupPending`, which has no lock
  (`VideoToolboxCodecSession.swift:736`): one that overtakes it is discarded in its place and
  the blank frame is sent, or two are discarded and two key frames forced (why
  `BlankNeverSent`, `KeysAskedPlusOne` and `EveryFrameHasPacket` exclude "race"). When the
  blank frame ends with an error, the client's first frame is discarded in its place (why `EveryFrameHasPacket`
  excludes that fault).
* With `vt_remote_inflight` 1 the first frame is sent twice, of which the server answers
  one: the slot of the other is never given back, and the client starves after the first
  packet (`CallsReturn` fails with limit 1).
* With B-frames and no DTS from VideoToolbox, the tracker's last clamp lets the DTS go
  back (why `DisplayOrderKeepsDts` is about display order).
* A receive timeout ends a draining decoder early (why `CompleteAtEnd` mentions
  `cutShort`). Between a header and its payload it returns EAGAIN with the header
  consumed: the next bytes are read as a header, and the stream is lost, with an error
  one message later (why `LossIsReported` is not "every message is accepted").
* A client that stops in the middle of a message, or reads nothing, holds the thread of
  its handler as long as the connection lives: `readExact` and `writev` have no limit
  (`POSIXIO.swift:12`, `:57`). Enough of them and a connection accepted is never served
  (why `AcceptedIsServed` has `Holds`).
* A client that leaves in mid-stream can end the daemon, and with it every other
  session: SIGPIPE is not ignored (why `RefusedKnowsWhy` has `lost`).
* The latency ring grows by appending, with its head wherever it is, so that entries
  that had wrapped are read out of order; frames without a packet leave their times in
  it, since `discardOne` has no caller; two callbacks at once can leave `count` negative,
  and the next subscript traps.
* `vtremoted/README.md:30` documents `--max-sessions`, which `Arguments.swift` does not
  parse; nothing limits the sessions. `protocol.md` gives error codes for a failed
  authentication and an unsupported configuration that the code does not use for them.

## 5. What is proved

Checked by TLAPS for all values of the constants, under the assumptions the modules
state (`WireAssumption`, `InflightAssumption`, `ServerAssumption`, `TicksAssumption`,
...: types, non-empty buffers, limit in 1..128, delay below capacity).

* `TrackerProofs`: type correctness; DTS ≤ PTS; strictly increasing DTS in display
  order; no timestamp lost; a valid decode order untouched. Three lemmas about
  `CorrectedDts` carry them. Display order needs the strengthening that the last
  DTS is at most the last PTS and every emitted DTS at most the last one, and that
  the last PTS is the largest handed over; the other two relate the last fields to
  the histories.
* `TrackerProofs`, on `Timebase`, for an integer type of any size: `RoundTripExact`, a
  timestamp comes back from VideoToolbox unchanged when ticks·num·den fits the type, so
  that no precision is lost by the two truncating divisions; `RoundTripMonotone`, and
  even when products saturate the order of timestamps is kept, which is what the tracker
  needs. The lemmas are that a product divided again gives the factor, that truncating
  division is monotone, and that saturation is.
* `EncSessionProofs`: every safety property of an encode session, with all faults, cut
  messages and the death of the daemon included. `TypeOK` has one lemma per group of
  actions; the rest is in layers, each inductive together with those below it. A layer
  that follows frames into the server is an implication from `~torn`; as `torn` stays
  once it is set (`TornStays`), a step that ends with `~torn` began with it, and is one on
  whole messages (`WholeInv`). `BaseInv` is what needs no such condition: the types, and
  what is known of packets and of the ring (`PassInv`).
  * `IInv` carries `FlowControl`, `InflightExact`, `QueueEmptyWhenBlocked`, which are not
    inductive: a decrement of `inflight_frames` is harmless only because no PACKET comes
    without a FRAME, which is a fact about both directions and the server. It adds to
    the types that a call that will send holds a frame (`HasFrame`), and `FlowInv`:
    packets received, in transit and emitted, frames read, held and sent account for one
    another (`Accounting`); the ordinals of FRAMEs in `c2s` and of PACKETs in `s2c` are
    increasing and in the range the counters say (`FrameOrds`, `PacketOrds`); and what
    each `pc` implies for `inflight` and the ring (`FlowAtPc`). The ordinals let the
    count of messages in a sequence be replaced by a range, which needs no induction.
  * `CallsInv` carries `OneFrameResent` and `SuccessMeansSent`: which frame a call is about
    at each `pc` (`CallInv`), that the frames transmitted are those before it and
    perhaps it, repeats adjacent (`SentInv`), and how many FRAMEs that can have made
    (`CountInv`). Trying to prove an earlier form of `OneFrameResent`, "one frame at most
    is sent twice", showed that it held only within the bounds of its run; the run now
    has a frame more, and the property says what is true.
  * `PacketInv` carries `PacketsInOrder`: the packets delivered, queued and in transit
    are a stream without a gap, complete while the connection is sound (`Stream`,
    `EndsInv`), each the one emitted under its number (`Received`).
  * `OrderInv` carries the refinement `EncodesInOrder`: every packet is that of a frame
    transmitted, wherever it is now (`OriginInv`), and without B-frames both are in line
    from the socket to the tracker and the timestamps rise (`LineInv`, `Rising`). A send
    maps to `Accept`, the return of a packet to `Output`, a call that does both to
    `Exchange`, the end of the stream to `End`, all else to a stutter; the step that cuts a
    message and all after it map to `Torn`. The theorem
    assumes that the encoder reorders (then any timestamps will do) or that the
    timestamps are in display order, which is what an encoder without B-frames gets.
  * `CompleteInv` carries `DoneMeansComplete`: where each transmitted frame is until its
    packet is out (`WhereInv`), and that nothing is left behind FLUSH and DONE
    (`FlushInv`, `DoneInv`). The theorem assumes that VideoToolbox drops no frame; the
    property excludes a cut message.
* `CallbackProofs`: `TypeOK`, `DoneIsLast`, `WireInOutputOrder` and the refinement
  `SerialTracker` of `EncCallbacks`, for any number of callbacks at once. One part of the
  invariant per shared object: `LockInv` (each callback passes the tracker's lock once, and
  the PTS remembered is that of a sample let through), `WireInv` (each sample once,
  nothing after DONE), `CountInv` (updates of `packetsOut` may be lost, never invented),
  and `SerialInv` (what is serial as long as no two have overlapped). For the refinement
  only the steps under the tracker's lock are steps of `TrackerSession`, in the order of
  the lock; the history `emitted` is its output.
* `WarmupProofs`: all four properties of `EncWarmup`, for any number of frames and of
  callbacks at once and any depth of the encoder. `ThreadsInv` says what handler and
  callbacks know of each other without a lock, race or not. `PendingInv`: unless they
  have raced, one callback at most is between the test of `warmupPending` and its
  clearing, no older frame is behind it, and the flag is clear for good once one is past it.
  `BlankInv`: then the blank frame finds the flag set. `AskedInv` and `CostInv`: the one
  extra key frame is owed at one place at a time, the flag, the handler, the encoder or a
  callback. `WaitInv`, `FirstInv` and `AckInv` follow the semaphore, the first frame and
  the extradata, and `RowInv` says that no frame of the client is at the discard. No race
  can occur before the wait is over, nor after a wait that ended with the signal, since
  the flag is cleared before it.
* `DecSessionProofs`: `TypeOK` of a decode session, and `DecodesInOrder`: a session
  implements `DecodeService`, with all faults. `OrderInv` follows packets through four
  places, the client's direction, the decoder, the server's direction and the
  application: each of the two directions is in order (`StreamsInv`), each place is
  ahead of the next and all hold only packets that were transmitted (`PlacesInv`), a
  call's packet is newer than all transmitted (`TurnInv`), and no call runs after the
  end (`CallInv`). Transmitting maps to `Accept`, reading a FRAME to `Output`, what
  ends the stream to `End`, all else to a stutter. The step that needs the server's
  wait for VideoToolbox is `EmitFrameOrder`: the decoder holds one packet at most.
  `DoneMeansDrained` and `CompleteAtEnd` rest on `FramesInv`, that the frames delivered and
  in transit are the frames made without a gap, all of them while the connection is
  sound, and on `DrainInv`, what FLUSH, DONE and the end of the stream leave behind them.
  A cut PONG can swallow packets and FLUSH, nothing else (`UncutInv` has whole messages
  before it); only that every packet transmitted is settled by DONE needs `~torn`.
* `FramingProofs`: `AcceptedAreSent`, `LossIsReported`, `WaitsForOwedBytes`, for messages of
  every length, garbage of every length and timeouts at any place. The argument is about
  one line of units, from the first the reader holds to the next the writer writes
  (`LineInv`): k places behind a unit stands what the writer wrote k units later, within a
  message and right after it, unless its send failed. Reading moves the
  border between the two sides along the line, a timeout of the writer's skips the rest of a message at its end, and whatever makes the
  reader start over drops a stretch at its front. The distance is part of the statement,
  so that no induction over the stream is needed. `ReaderInv` says how far the
  reader is in its message, `AcceptedInv` that accepted messages are whole, ordered and
  before the line, and `SyncInv` that until an error is reported the reader stands at a
  border of messages or, after a receive timeout dropped a header, will not find one.
* `DaemonProofs`: the types, `ConnectedMeansAgreed`, `RefusedKnowsWhy`, `OnlyAbortsKill`, for
  any number of clients, handlers, crashes and restarts. One invariant carries all
  three. For each phase of the server it says how far the client can be and what can
  be between them: `AtHello` (the server has written nothing), `AtConfig` (one message at
  most is on its way, and while it is CONFIGURE nothing the server wrote has met a
  closed client), `AtWork` (a client that has left without media leaves at most DONE to
  write to it), `AfterWork` (an unknown client's answer is still there, or its loss is
  recorded); `AtClient` is the client's side, and `QueueInv` that no block GCD has yet to
  start belongs to a connection that has gone on. That a message may be there in part, or
  a write wait, only takes steps away from a phase. Most actions touch one connection
  (`LocalStep`); the end of the process touches all (`ProcessEndsInv`).

* `LatencyProofs`: `RingIsQueue`, `CrashExplained`, `NeverUnderestimates`, for every capacity,
  every number of frames and of callbacks. `SoloInv`: as long as no two operations have
  run at the same time, what one has loaded is what is there, the head that `output` loads
  a second time included. `QueueInv`: then, and as
  long as the ring has not grown with its head away from the front, its entries, counted
  from the head, are the queue, with one entry less while a callback has moved the head
  and not yet the count, and one more while `submit` has written and not yet counted.
  `AgeInv`: scrambled or not, entry i is no later than the i-th frame after those that
  have left, since growing puts only zeros in place of entries. `CrashInv`: the count is
  not negative until two callbacks overlap, and an array is replaced under a load only in a "grown" ring. The
  places of a ring and their modulo are dealt with in `SlotRules` once.

Of the properties of the runs that are not temporal, every one is stated by a theorem.
Only model-checked: the liveness properties (`CallsReturn`, `SessionEnds` of both
sessions, `ReaderEnds`, `AcceptedIsServed`), since neither fairness nor ENABLED is in this
prover's reach; and the properties of the three runs of section 4, which are violated.

## 6. What is not modelled, and why

* Field-by-field message coding, compression, pixel formats, `AnnexB`: pure functions on
  byte strings, without state, with unit tests over their inputs.
* `BufferPool`: a free list wholly under one lock, of values that are copied on write;
  no order of calls can go wrong.
* `StubCodecSession`: stands in for VideoToolbox in tests and keeps a counter.
* VideoToolbox properties and preflight, logging, the command line: tables, setters and
  text. `--once` is a variable of `Daemon`.
* The rest of FFmpeg is vendored upstream code; of it only libavcodec's encode and
  decode loops are modelled, as far as the wrappers meet them. The repository is for
  the most part that code, so the mapped share of all lines in it stays small; of
  the project's own client and daemon the stateful parts are mapped.
* PING and ERROR after the handshake are modelled as a peer's, since `vtremoted` sends
  neither there.

## 7. Plan

The order of work was the encode session and its flow control, the tracker, the decode
session, the daemon, then callbacks, warm-up, framing and the latency ring, each first
model-checked and then proved. What could still be added:

1. That `EncServer`, which has the output callback as one step, is what `EncCallbacks` is
   with callbacks that do not overlap, as a refinement between the two.
2. That `Wire` is what `Framing` delivers, in the same way: today the two meet in
   `AcceptedAreSent` and `LossIsReported` and in the prose of section 2.
3. The size of an overestimate in `LatencyTracker`: frames without a packet shift all
   later reports by as many entries.
