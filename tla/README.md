# Verification of the ambisonics conferencing system

TLA+ models of the multi-user conferencing unit (the Go program under `mcu/`),
of the browser client it talks to (`client/`), and of what lies between them.
TLC checks the models on small instances; TLAPS proves the most important
results for every value of the constants. `PROJECT.json` names, for every
definition, the lines of code it stands for.

## 1. The system

A client captures third-order ambisonics (16 channels, 48 kHz), encodes every
channel with an Opus encoder of its own and sends the packets over an unordered
DataChannel without retransmission. The MCU decodes them, puts them in a jitter
buffer per client, mixes once per frame period, and sends each client the mix of
everybody else.

    client A --uplink--> [handlePacket] --inbound--> [decodeLoop] --> JitterBuffer
                                                                          |
                                                  Room.mixClock <-- ReadInputFrame
                                                        |
                         SubmitMix --> mixCh --> [encodeDispatcher] --> jobs[w]
                                                                          |
    client A <--downlink-- [sendLoop] <--sendCh-- [encodeWorker w] <------+

(names in brackets are goroutines of one session; the mix clock is a goroutine
of the room). A call is set up over a WebSocket: the MCU's session offers, the
page's engine answers, and both trickle ICE candidates. `server.js` is the
signaling server of the two-party client: rooms with two roles, a relay between
them, and an HTTP endpoint for TURN credentials.

### Inventory

| Component | State | Operations | Interacts by | Hard part |
|---|---|---|---|---|
| `room/manager.go`, `room/room.go` | roster per room, map of rooms, `clockOn`, `done` | Join, Leave, Add, Remove, Close, the mix clock's tick | manager lock, room lock, calls into sessions without a lock | the tick's snapshot against leaving; teardown against rejoining |
| `audio/jitter.go` | ring, `initTs`, `readTs`, `writeTs`, `started` | WriteChannel, ReadFrame | one mutex; decode goroutine writes, mix clock reads | modular aliasing, partly late packets, the overflow snap |
| `session/pipeline.go`, downlink | frame pool, `mixCh`, worker channels, `sendCh`, reference counts | SubmitMix, dispatcher, workers, sendLoop | bounded channels with drop-oldest, atomic reference count | frames shared by pointer; three-step drop-oldest; shutdown |
| `session/pipeline.go`, pacing | `congested`, the SCTP buffer | sendLoop, OnBufferedAmountLow | a lone atomic flag | check and store are two steps |
| `session/session.go`, uplink | `inbound`, `decInTs` | handlePacket, decodeLoop | channel with drop-oldest | loss, reordering, duplicates, timestamp wrap |
| `session/session.go`, life cycle | `startOnce`, `closeOnce`, `done`, WaitGroup, pending ICE | New, Start, HandleAnswer, AddRemoteICE, Close | Pion callbacks, signaling goroutine | callbacks that arrive during Close |
| `proto/bundle.go`, `client/bundle.js` | none | PlanLayout, MarshalBundle, ParseBundle | wire format shared by both ends | R=2 redundancy, implicit last length, MTU |
| `proto/proto.go` | none | legacy packet, bitrate profiles | wire format | - |
| `codec/` | Opus state | Encode, Decode | called by one goroutine per channel | failure of one channel |
| `signaling/signaling.go` | one WebSocket per session | ServeHTTP loop, send | creates and closes sessions | replies after close |
| `turn/turn.go` | cached credentials | Refresh, Run, handler | timer, HTTP | expiry against failed refresh |
| `client/engine.js`, transmit | `_txBundleTs`, `_txBundleAccum`, encoders | _encodePlanarFrame, _onEncoderOutput, _flushBundle | encoder callbacks | outputs of 16 encoders interleave |
| `client/engine.js`, receive | frame slots, sequence windows, decoder FIFOs, playback worklet | _onBundle, _acquireFrameSlot, _flushFrame, _dispatchFrame | decoder callbacks, worklet messages | partial frames, late outputs, slot reuse |
| `client/engine.js`, negotiation | peer connection, pending ICE, `_connected` | initWebRTC, _handleSigMessage, _tryStartNegotiation, destroy | awaits | candidates and destroy during an await; a transport that comes and goes |
| `client/app-mcu.js` | buttons, the global engine, socket and AudioContext | connect, start, stop, record | awaits | continuations of an attempt that was stopped |
| `server.js` | rooms of roles, TURN cache | join, join_node, relay, close, GET credentials | WebSocket events, awaits | a replaced socket's close; overlapping requests |
| `bridges/*.py` | sample clock, client set, queue | audio callback, handler, broadcaster | thread to event loop | clock reset against callback |

What makes each component correct is in the properties of section 3 for the
modelled components; section 5 says why the others are not. The hazards, each at
its line, are listed in `PROJECT.json`.

## 2. The modules

**RoomLifecycle** - `manager.go`, `room.go`, `Session.Close` and the OnOpen
callback. Manager.Join and Manager.Leave hold the manager's lock from end to
end, so each is one step. A Room is an object, allocated by Join and forgotten
by Leave, while its clock goroutine may live on; the clock is modelled call by
call (`Tick` takes the snapshot, then one `ReadInputFrame` and one `SubmitMix`
per member). `Session.Close` is four statements, each a step. What its `wg.Wait`
waits for are the goroutines `startPipeline` launches: `wg` counts those whose
only waits are selects with a `done` case (decodeLoop, the dispatcher, the
workers, sendLoop; what the encode side has in hand meanwhile is in
EncodePipeline), and `stats` is statsLoop, which also waits for its writes to the
signaling connection. Such a write has no deadline, and `ServeHTTP` defers
`conn.Close` before `sess.Close`, so the connection is closed only when
`wg.Wait` has returned (`WaitReturns` is both): `SendReturns` is a step of the
environment.

**MixTick** - the arithmetic of one tick: `accumulate`, `subtractAndSaturate`,
the VAD gate, the reuse of input buffers by position. A frame is one sample of
channel 0, the channel the gate looks at.

**JitterBuffer** - `jitter.go`. A sample is abstracted to the absolute time it
was recorded for, so a slot that holds the wrong sample is seen to. The history
variable `live` remembers what was accepted and not yet passed by the reader.

**EncodePipeline** - the downlink of one session from SubmitMix to the packet
handed to `dc.Send`. A frame is an address that is pooled and passed on; its
contents (`frameTs`, `encoded`) change under whoever holds it. Each `select` is
a step, and so is a release with what follows it up to the next `select`; who
finishes a frame marshals its bundles one at a time, each when the one before
has been pushed, as `sendBundledFrame` does. PCM and payloads are abstracted to
the mix time they were made from.

**SendPacing** - `sendLoop` against the SCTP buffer and the callback that clears
the flag. The DataChannel is external: a send adds to the amount; the read that
takes it from above the low watermark to it or below calls the callback.

**UplinkFrames, TxBundle, UplinkDecode, Uplink** - one uplink. `TxBundle` is how
the browser gathers the outputs of its encoders into frames (`_accumulateBundle`,
`_flushBundle`); the page is single-threaded, so a callback is a step and only
the order of the outputs is open. `UplinkDecode` is the server's side, from the
network to the decoders: `handlePacket`, `pushInbound`, the gate of
`decodeLoop`. Frames are numbered at the client; the wire carries the number
times the frame size modulo the timestamp range. `Uplink` composes the two: what
the client flushes is what enters the network. `UplinkFrames` holds the constants
both agree on. By itself, `RxSpec` lets any packets be sent at any time, and the
composition is shown to implement it and `TxSpec`.

**FrameAssembly, Playback, ClientReceive** - the downlink at the client.
`FrameAssembly` is the page: packets of either wire format, the forward-only gate
and the FIFO of timestamps per channel, the decoders (external: each answers in
the order it was fed, when it likes), the ring of slots with a timer each, and
the three ways a frame's assembly ends (its last channel, its timer, another
frame that needs the cell). The page is single-threaded, so a callback is a step.
A frame is its number; a plane of a dispatched frame says whether it was decoded,
and from which packet, held or muted. `Playback` is the worklet's ring (a sample
is the time it was recorded for) and the page's loop that adapts its prebuffer.
`ClientReceive` joins them: what the page dispatches, the worklet writes. A
message between the two is delivered when it is posted; posting it later is the
same as delivering it later. The adaptation is that of the MCU client; the
scheme of the two-party page is its special case for a small jitter.

**BundleLayout, Downlink** - `BundleLayout` has `PlanLayout`, `MarshalBundle`,
`ParseBundle` as operators, and the packets of one frame after another that are
delivered or lost. Bytes are numbered by the channel they belong to. Its loops are
recursive functions on the number of the iteration (`Ascending`, `Joined`, `Ends`,
`Total`), so that the proofs can speak of them. `Downlink`
composes it with SendPacing: the packets sendLoop takes are those bundles, what
it queues in SCTP is their bytes, and a packet dropped by a congested sender is
lost like one the network lost.

**TrickleICE, Negotiation** - the call set-up between the engine and the MCU's
session. `TrickleICE` is the abstract promise of either end: no candidate is
applied before the remote description, and each one heard is applied in the end
unless the end is closed. `Negotiation` is the code: `Start`, `HandleAnswer` and
`AddRemoteICE`, which one goroutine of `ServeHTTP` calls in turn; Pion's
`OnICECandidate` beside it; and the client's message handler, which stops at each
`await` (the remote description, each pending candidate, createAnswer,
setLocalDescription) while other messages are handled and `destroy()` may run.
The WebSocket keeps order and loses what is under way when it breaks. The
transport is what the client's callbacks see of it: blips, recovery, failure, and
a channel that opens once. `Trickles` states that `Negotiation` implements
`TrickleICE`, under the mapping of the four variables by name (`heard` is a
history variable, `described` the remote description, `applied` what was passed
to addIceCandidate).

**ClientPage, ClientSession** - `ClientPage` is `app-mcu.js` with as much of the
engine as it drives. An attempt is a click on Connect; its continuations
(`fetchIceServers`, the socket's events, the race of the offer against five
seconds, the microphone) act on the page's globals, which another attempt may
own by then. An engine has the number of the attempt that created it. `ui` is
which buttons are enabled; a click is possible only on an enabled one.
`ClientSession` joins it with `Negotiation` as the client program: the page sees
an engine only by the states it reports, and no property relates the two, so a
behaviour lets one of the two work while the other rests.

**PeerSignaling, TurnCache, PeerServer** - `server.js`. In `PeerSignaling` a room
is an object with one property per role and a socket carries the place it joined
last, as in the code; between the moment a socket stops being OPEN and its close
event other events are handled. Both families of rooms are the same actions with
other role names; only `join_node` chooses the role. `TurnCache` is the
credentials endpoint, whose handlers overlap at the await; the provider dates
credentials from when it makes them. `PeerServer` is the program of the two,
which share no state.

`MC<module>` instantiates a module for TLC. Definitions with an underscore
suffix (`Snap_Never`, `Shares_OneShort`) are deviations: what the definition of
that name would be with a plausible mistake. Nothing uses them; each is there to
confirm that a property can tell the mistake from the code.

## 3. The runs

| Run | Question | Instance |
|---|---|---|
| `RoomLifecycle_rooms` | `LiveRooms`: does the manager name exactly the rooms with members, each open and clocked? `OneMixer`: is a session touched by one clock only? Does a closed room's clock stop, is a member offered mixes? `CloseReturns`: does Close go through with no goroutine left, if no send of the room stats is held up for good? | 2 sessions of one name, 2 Room objects, statsLoop for both sessions and one other goroutine |
| `RoomLifecycle_ghost` | refutes `ClosedSessionsAreOut` | as above |
| `JitterBuffer_ring` | Is latency bounded, reading aligned, and every accepted sample in place until it is read? | ring of 6, frame of 2, prebuffer 1, timestamps 0..9, two channels, packets of 1 or 2 samples |
| `EncodePipeline_frames` | Are pooled frames exclusive, packets whole, sends in order? Does SubmitMix return, do frames return to the pool, do all goroutines exit? | both wire formats, 2 workers, 2 channels (channel 0 in both bundles), 2 frames, 2 ticks, failing encodes |
| `MixTick_mix` | Does everybody hear the others, is the hangover exact, is mix time contiguous? | 3 participants, samples -3, 0, 1 with limit 3 and threshold 2, time modulo 5 |
| `SendPacing_resumes` | refutes `Resumes` | watermarks 10 and 4, packets up to 3 |
| `Uplink_order` | Is every payload that comes in time gathered under its frame, and none sent twice or filed under another, and every decoder fed forward? Is only what is late dropped, the newest packet kept? | 2 channels (channel 0 in both bundles), 3 frames, queue of 2, timestamps just below the wrap |
| `Uplink_stragglers` | refutes `StragglersDropped` | as above |
| `ClientReceive_play` | `DispatchForward`, `PlanesFiled`: do frames reach the worklet in order and made of their own channels' outputs? `LandsAhead`, `FramesIntact`: is everything written ahead of the reader, and still there when it comes? `DelayBounded`: does the delay stay below the cap? | 2 channels, both wire formats, frames 0, 1 and 3, 3 cells, timestamp queues of 2 beside decoders of 3, ring of 7 samples for frames of 2, prebuffer 2 or 3 |
| `Downlink_send` | `BufferBounded`: is the SCTP buffer bounded? `OneLossOneOrder`, `PayloadsExact`: what does the loss of one packet cost, and is what arrives what was encoded? | watermarks 16 and 6, packets up to 17 bytes, 6 frame sizes, 4 sets of failing encoders, payloads of uneven length, up to 2 losses per frame |
| `PeerServer_rooms` | `PairsIntroduced`, `DepartureTold`: does everybody learn that a peer came or went? `RelayedToPeer`: do messages stay between peers that were introduced? `RoomsReclaimed`: do emptied rooms go? `ServedWork`: do served credentials work? | 3 sockets, 3 joins each, one name in both families; 2 requests, credentials of 3 hours kept until 1 hour before the end, time to 8 |
| `ClientSession_flow` | `Trickles`: does the negotiation implement TrickleICE? `Answered`: does every offer get its answer? `FlagTracksTransport`: does the engine know whether it is connected? `UserCanAct`, `RecordReturns`: do the buttons come back? | 2 candidates at each end, 2 blips; 2 attempts, 2 recordings |

Each module also states its types (`TypeOK`, `SigTypeOK`, `TurnTypeOK`,
`NegTypeOK`, `PageTypeOK`, `PacingTypeOK`); they hold on the same instances and
are proved where a proof needs them, but no run lists them.

The instances are small because what can go wrong needs few actors: a second
Room object for a reused name, a ring of three frames for a packet to be partly
late, in the window and a lap ahead, two workers for frames to be finished out
of turn, a third socket to take over a place, a second attempt for a
continuation to be stale, a second candidate to be left behind, a queue of one or two for drop-oldest to race its consumer, two frames
that share a cell with one between them, a frame that laps the playback ring.
Two ticks and two frames are enough for a frame to be recycled with the payloads
of the tick before, and for two frames to be finished by different workers;
longer runs of the pipeline are covered by the proofs. In `RoomLifecycle_rooms`
only one session has a goroutine beside statsLoop: those return by themselves.
The bounds are the constants `MaxTicks`, `MaxFrames`, `MaxTs`, `MaxLost`,
`MaxPacket`, `MaxJoins`, `MaxTime`, `MaxBlips`, `MaxAttempts`, `MaxArms`, the capacities, `Backlog` (the chunks a decoder holds), the set
`Frames` of ClientReceive, and `Frames` of EncodePipeline (the pool grows on
demand in the code; here a SubmitMix waits when all are taken, which hides no
behaviour of the frames that exist). `CHECK_DEADLOCK FALSE` is
set where the bounded environment may end (all sessions closed, no tick,
frame, join or attempt left) and in SendPacing, where a session stuck with its flag up is what
`SendPacing_resumes` reports; `MixTick_mix` checks deadlock.

### Disagreements

Three runs end in a violation; each refutes a sentence of the code's own comments.

* `RoomLifecycle_ghost` - Pion runs OnOpen in a goroutine of its own. If
  `Close` runs `Leave` first and the callback's `Join` comes second, the closed
  session is in its room for good, and its room and clock are never destroyed.
* `SendPacing_resumes` - `BufferedAmount()` is read above the watermark, the
  buffer drains and the callback clears the flag, then the flag is stored: it
  stays up on an empty buffer, and no send will ever cause a callback again.
* `Uplink_stragglers` - an encoder output that comes after its frame was flushed
  ("stragglers of an already-flushed frame are dropped", engine.js:816-817) cuts
  short the frame being gathered, opens its own frame again and is sent with the
  next flush. `PayloadsAccountedFor` asks nothing of stragglers but that they are
  not counted twice (`late` remembers which they are), so it would hold of a code
  that drops them as well.

More were met while modelling and have no run of their own:

* "A channel that never arrived for this frame reads back as silence"
  (jitter.go:174): not after an overflow has skipped slots without clearing them.
  What plays then is old, never new (`NeverEarly`, proved).
* A tick under way goes on to read and submit to a session that has left
  ("Deregistering first ensures the room no longer calls ReadInputFrame/SubmitMix
  on this session", session.go:469), which harms nothing that is checked.
* "Stops the pipeline goroutines" (session.go:466): not one that is in a write
  to the signaling connection when the peer does not read. `s.send` has no
  deadline (signaling.go:148-152), Close waits for statsLoop, and the deferred
  `conn.Close()` that would end the write comes after Close (signaling.go:136,
  161). Without the premise `[]<>~HeldUp(s)` of `CloseReturns`, TLC finds the
  behaviour: Leave, close of `done`, `pc.Close`, and a send that never returns.
* The dispatcher waits for a worker that is two jobs behind ("small buffer so the
  dispatcher never blocks", session.go:244).
* Once the 32-bit timestamp of an uplink wraps (24.8 hours), the gate compares it
  as a plain number and drops every frame: `OnlyLateDropped` and
  `DecodersForward` are checked, and proved, below the wrap.
* `server.js`: the close of a socket whose place was taken over empties the place
  of its successor (`evicted` in PeerSignaling), and a socket that joins a second
  room stays behind in the first for good. `RelayedToPeer`, `RoomsReclaimed` and
  `DepartureTold` say what is still true in both cases.
* `app-mcu.js`: when the microphone is granted after the session was stopped and
  another begun, `connect()` is called on the other session's engine. An engine
  whose socket failed before it was connected stays global, and a later `failed`
  of it stops whichever session is current. A recording that ends as the
  session is stopped, or a stop during the second of arming, enables Record
  without an engine. All three are behaviours of ClientPage; `UserCanAct` and
  `RecordReturns` hold with them.
* `connect()` of the engine goes on to build encoders after a destroy() during
  its await (`PipelineBuilt`), and the channel's close leaves `_connected` as it
  is (`ChannelCloses`), so it is only `failed` or `disconnected` that lowers it.
* An offer that takes more than five seconds arrives after `connect()` and still
  sets the frame size, which "must be called before connect()" (engine.js:466).

### Fairness

Safety runs assume none. `FairSpec` of RoomLifecycle: a callback that was handed
over runs, `Close` goes on once it began, pipeline goroutines reach their
`select`, the clock's timer fires, and statsLoop's select, reached again and
again, takes its `done` case; nobody is assumed to connect, to open a
DataChannel or to leave. A send of the room stats is assumed to return only once
the connection is closed at this end; that others return is the premise of
`CloseReturns`, not an assumption of the model. EncodePipeline's
`PipelineFairness` gives every goroutine weak fairness, and strong fairness to
the `done` case of a select, since Go picks among the ready cases at random and
the select is reached again and again. `FairPacing` of SendPacing lets the
goroutine run, the network drain and the callback be called. `FairSpec` of
ClientSession gives weak fairness to the goroutine that reads the signaling
socket, to the client's handler, and to what the page has scheduled: timers, a
socket that opens or fails, the closing of a context, deferred calls. Nothing is
assumed of the user, the microphone, the bridge, the gathering of candidates, the
transport or the network; so `Answered` may also end with one side closed.
`Trickles` carries TrickleICE's fairness, which thereby is derived, not assumed.

## 4. The proofs

Every theorem is about the specification TLC runs, for all values of its
constants. The assumptions are the named ones of the modules; those a reader may
want to question are mentioned below.

* **RoomLifecycle_proofs** - `TypeCorrect`, `RoomsAreLive`, `MixersAreSingle`,
  for any sessions, names and objects. `LiveRooms` needs how `clockOn`, the
  clock's phase and the closed channel of an object go together (`ClockInv`),
  and that names are injective. `OneMixer` needs `Present`: whoever a clock
  touches was a member of that room, and can only be touched by another clock
  after a second Join, which `startOnce` forbids.
* **MixTick_proofs** - `EverybodyHearsTheOthers`, `GateHoldsExactly`,
  `EveryTickOnce`, `MixTyped`, for any participants, samples, clip limit,
  threshold, hangover and time modulus. `SnapshotInv`: a snapshot names each
  member once and has a buffer for each of its positions. `TimeInv`: the
  positions the submit loop has passed were given this tick's mix, the others
  the one before. `SumInv`: the buffers of the positions passed hold those
  members' contributions, whoever used the buffers before, and `acc` is their
  sum. A sum over a snapshot of any length is an induction over data; the proof
  has no induction of its own but carries the partial sums as the witness of
  `AddsUp`, which each step of the loop extends by one, so that the induction is
  the one over the steps.
* **JitterBuffer_proofs** - `LatencyBounded`, `ReadsAligned`, `SnapsForward`
  from the invariant on the pointers; `AcceptedSamplesSurvive` and
  `NothingPlaysEarly` from the invariant on the ring, which says of every
  occupied slot which lap its sample can be of. `SnapForward` and `NeverEarly` are
  stated for the proofs only, no run lists them. Assumed of the constants: what
  the constructor enforces (`SizesAssumption`), that the drain target is below
  the cap (`DrainAssumption`, true of the session's two-second ring), and that
  a packet is at most one frame long (`InputsAssumption`). The arithmetic of
  slots rests on a few lemmas about remainders at the head of the module.
* **Pipeline_proofs** - of EncodePipeline `TypeCorrect`, `FramesAreExclusive`,
  `PacketsAreWhole`, `PacketsLeaveInOrder`, in both wire formats, for any frames,
  workers, channels, layout, capacities and encode failures. Three invariants,
  each on top of the one before.
  - `FramesInv`: where each goroutine is tells what it has in hand
    (`ControlInv`); all lines a frame waits in are in the order of mix time
    (`ClockOrder`, `QueueOrder`, `DispOrder`, `JobsOrder`); and the reference
    count of a frame is the number of workers that still owe their release
    (`RefsInv`). None of these survives without the others: that the last
    release is the last holder's needs the count, that the count is right needs
    that no worker has the frame twice, and that needs the lines. `TurnOrder` says
    that a worker done with a frame another still has is done with all earlier
    ones, and so that frames are finished in the order of the ticks although
    different workers finish them.
  - `PacketInv`: a slot of a frame in use is empty or of that frame's tick
    (`SlotsFresh`), which is what clearing `encoded` in SubmitMix is for, and what
    a worker is pushing is whole and stamped with its frame (`HandsWhole`).
  - `OrderInv`: nothing was sent from a later tick than a frame that is still to
    come, from any frame in the bundled format, per channel in the other.
    Dropping the oldest packet cannot break this, whoever drops it.
  Of SendPacing `BufferStaysBounded`, for all watermarks `Low < High` and any
  packet size. The bound is not inductive: what is needed is `Headroom`, how
  much may be buffered at each point of the loop, with one packet less as long
  as a callback is still to come (a callback under way means the amount was at
  the low watermark when it was called). `DownlinkPaces`: Downlink implements
  SendPacing, since whatever is handed over is one of the bundles the layout
  makes of some frame (`FedBundles`) and none is heavier than `MaxPacket`; that
  is an assumption (`WeightAssumption`), which says what `MaxPacket` stands for
  and which TLC evaluates. With it the bound holds of the composition
  (`DownlinkBufferBounded`), and that is what the run checks.
  Of BundleLayout and Downlink, for channels grouped as the code groups them and
  for payloads of any length, the empty one included, any channels that failed to
  encode and any number of losses:
  - `ParsesBack`: `ParseBundle` gives back what `MarshalBundle` wrote. The header
    determines how many payloads follow and where each ends, and the byte ranges
    between consecutive ends are the payloads.
  - `PlanIsSound`: whatever the frame size, every channel is in a group of the
    layout, each channel of the base in two, and no group has channels of both
    higher orders. `GroupsFitBudget`: if one payload at the reference bitrate fits
    the budget, so does every group of them ("Packets never exceed the MTU budget",
    bundle.go; the larger payload of a channel that overshoots that rate is not
    what the code computes with, and not what is proved).
  - `ArrivesAsEncoded` and `LossCostsOneOrder` (`PayloadsExact`, `OneLossOneOrder`)
    from `ArrivalInv`: the packets of the frame being sent keep what the layout
    promises of its groups, less the channels that failed, and parse back to the
    payloads they were made from (`PacketsSound`); what is in hand is byte for byte
    what was encoded, and every packet that was settled and not lost is in hand.
    That a lost packet costs one order needs both: the layout says which channels
    the other packets carry, the wire format that they can be read.
  These are inductions over data, which the prover has no rule for that can be
  cited. They are done in first-order terms: `UpTo` says that a set of numbers that
  holds 0 and with each number the next holds all, and follows from the least
  element of the complement; `Recursion` says that a function with a given start
  and step exists. Each lemma on a loop (`AscendingSteps`, `EndsSteps`,
  `JoinedHolds`, ...) names the set of iterations after which its claim holds.
* **Uplink_proofs** - `NothingGoesAstray`, for any number of encoders and
  frames, from `GatherInv`: what has been sent was emitted, and an encoder's
  next output is neither sent nor pending. The invariant says more than the
  theorem (`Gathered`: stragglers are not lost either), since the code does more
  than the property asks. `EndsImplemented`: the composition
  implements `TxSpec` and `RxSpec`. For any channels, layout, queue capacity and
  number of frames, assuming `NoWrap` (the timestamps of the frames do not wrap):
  `FedForward`, `GateIsExact`, `NewestKept`, `FiledAsEncoded`. The invariant
  `GateInv` says that a decoder's gate stands at the timestamp of the last frame
  it was fed and that this is the newest; `OnlySent` says that whatever is in
  flight, in hand, queued or fed was sent by the client, so that what is proved
  of the client's history holds of it.
* **ClientReceive_proofs** - the five properties of `ClientReceive_play` and the types, for any
  channels, bundles, frames, queue, pool and ring sizes. `AsmInv` says that the
  last frame dispatched is the last flushed and, until a queue overflows, that
  the timestamps beside a decoder are those of the packets in it. `PlayInv` says
  that the ring, once anchored, is written up to the end of the last frame
  dispatched; so `LandsAhead` follows from `DispatchForward`, and with it that a
  new frame is less than a lap from any sample yet to be played, which is what
  `FramesIntact` needs. Assumed (`PlaybackAssumption`): the ring holds the
  deepest fill and a frame, true of the two-second ring for all frame sizes.
* **ClientSession_proofs** - for any candidates, blips, attempts and recordings;
  of the negotiation:
  `TricklesSafely`: the negotiation implements the safety half of `TrickleICE`
  (`ICE!Safety`), step by step: an answer, or the remote description at the
  client, is `Describe`; a candidate taken is `Hear`; an iteration of the drain
  loop is `Apply`; an end of either side is `Close`; everything else is a stutter.
  The hard part of a step is that a candidate is heard once, which is not in
  the code but in the wire: `Arrivals` says that the candidates under way to an
  end are distinct, were gathered by the other, and have not been heard.
  `CandidatesApplied` (`NothingForgotten`, stated with the proof): nothing is
  applied before the description, and an end past its drain has applied all it
  heard. It rests on `Holding`: what an end heard it has applied or keeps, and it
  keeps nothing once its handler is past the drain; the candidate that comes
  between two iterations of the client's loop is the case that makes it worth
  stating. `FlagFollowsTransport` is inductive by itself.
  Of the page, for any number of attempts and recordings, `PageTyped` and the two
  facts that `UserCanAct` rests on. `FormIsNeverStuck`: while Connect and Stop are
  both disabled, an attempt is before the point where it enables one of them, or
  an audio context is closing, whose end enables Connect. This is inductive only
  with `ClosedContextsAreNotUsed`: a stop that finds its context closed before
  resets nothing (close() rejects), and it can find it so only while the engine
  that had the context is still closing. That in turn needs to know where contexts
  come from (`ContextsTold`): a click of an attempt that began, or the engine
  itself. They are stated with the proof; what a run checks is `UserCanAct`
  (`ClientSession_flow`).
* **PeerServer_proofs** - for any sockets, rooms and number of joins:
  `EveryPairIntroduced`, `EveryDepartureTold`, `RelaysBetweenPeers`,
  `RoomsAreReclaimed`, `SignalingTyped`. The first is inductive once the places
  are typed, since a pair is completed only by a join, which introduces it in
  the same step. The others are inductive only together (`CallsInv`), with three
  facts about who is where: a place belongs to the socket that joined it last,
  or one that joined again (`Staying`); a live socket holds the place it joined
  last unless it was emptied under it (`Holding`); who met somebody as a member
  of a room is at that place of it unless it joined again (`MeetingPlaces`).
  They are why a close finds, at the opposite place, the peer that has to be
  told. `ServedCredentialsWork`, for any overlapping requests, any lifetime and
  any patience of the HTTP client below it (`TtlAssumption`): the invariant
  `Waiting` says that a request is given up before credentials made for it can
  expire, and that their expiry is counted from before they were made.

Every safety property of a passing run is proved. What is only model-checked is
liveness:

* `ClosedClockStops`, `MembersAreMixed` and `CloseReturns` of the rooms,
  `ClockNeverStalls`, `FramesReturn` and `AllExit` of the pipeline, `Answered`,
  `UserCanAct`, `RecordReturns`, and the other half of `Trickles`, that what is heard is
  applied in the end. Fairness and ENABLED are out of the prover's reach.

## 5. Not modelled

* Telemetry and logging; Opus itself (an encode or decode succeeds or fails);
  the DTLS/SCTP stack (external, by its documented callbacks); the MCU's command
  line. Go's and JavaScript's integers are unbounded in the models except for the
  32-bit timestamps, which are taken modulo `TsMod` where they are compared or
  advanced. A packet longer than the server's frame size, which a client using
  another frame size would send, is outside JitterBuffer's assumptions.
* `turn/turn.go`: one goroutine that sleeps, fetches and stores under a lock;
  nothing else depends on when it does.
* `worklet-sender.js` and the legacy transmit path: a buffer filled by one thread
  and a packet sent at once; no second actor and no state that outlives the call.
* The receiver's recording and the loss statistics of the client: they read what
  the receive path does and nothing waits for them.
* Decoders and encoders of the client that fail for good, and a frame size that
  changes after the pipeline was built: the code leaves the channel, or the
  session, broken, and promises nothing that could be stated.
* The offerer's half of the engine, which no page of the repository uses.
* Device lists, output routing, sliders, statistics and the report of the page.
* The Python bridges, which are a sound card's callback and a broadcaster; the
  page sees a source that may name a frame size.

## 6. Plan

Built: the room, the jitter buffer, the downlink pipeline, the tick's arithmetic,
pacing and the wire layout under it, the uplink from encoders to decoders, the
client's receive path, call set-up with its abstraction, the page, and the
two-party signaling server.

Proved: all safety properties of the rooms, the tick, the jitter buffer, the
encode pipeline, pacing, the wire format and the downlink, the uplink, the
client's receive path, the negotiation and the signaling server; of the page, the
state that its liveness rests on.

What could still be proved are the safety halves of what is only checked as
liveness: that a closed room's clock can take no step but its last ones, and that
once `done` is closed no send of the encode fan-out waits for a worker that has
exited.
