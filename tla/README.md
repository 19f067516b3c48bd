# xmedia: a TLA+ verification of its receive path and its network components

xmedia is a collection of real-time media programs. This directory models the parts
that carry its own logic, checks them with TLC on small instances and proves the
main properties of nine of them with TLAPS for instances of every size:

* the RTP receive path of `rtc-lab/src/NMedia`: packets are routed to flows, put back in
  order in a window, recovered by forward error correction, put together to frames and
  given a time;
* the signalling server and clients of `xmedia4j`, over UDP;
* the UDP bridge of `socktunnel`;
* the RTMP push client `evrtmp_client`.

All paths below are relative to `src/`. `PROJECT.json` maps every definition to the lines
it models and lists the hazards of the code, each with its line and the properties
aimed at it.

## 1. Inventory

| component | state | operations | interacts with |
|---|---|---|---|
| `NCircularBuffer` (NMedia/NCircularBuffer.hpp) | `head_`, `tail_`, `count_`, cells | push/pop at both ends, `shiftBack(n)`, `unshiftFront(n)`, `clear`, `traverse` | base class of the packet window and type of `feclist_` |
| `NRTPSeq` (NMedia/NRTPMap.hpp) | a 16-bit number | `+`, signed `distance` | everything that compares sequence numbers |
| packet window (NMedia/NRTPPacketWindow) | slots, `startSeq_`, `nextSeq_`, `lastSlot_` | `insertPacket`, `nextSlotInOrder` | filled by the receiver, pulled by the demuxer |
| ULPFEC window (same files) | the window and `feclist_` | `insertPacket(rtpd, codec)`, `addFEC`, `processFEC`, `recoverULPFEC` | writes recovered packets into the window's slots |
| recording demuxer `XSWTLVDemuxer` (Lab000-Demo.cpp) | vector of flows, first receive time and clocks of each | `processRTP`, `checkAddMediaFlow`, `processFlow`, `processFrame`, `process` | receiver → window → depacker → clocks → frame callback |
| VP8 depacker `NRTPDepackVP8` (NMedia/NRTPReceiver.hpp) | `expectKeyFrame_`, `firstPacket_`, `startPhase_`, `nextSeq_`, header, open frame | `depack` | takes frames from `NObjectPool`, hands them to a callback that may move them out |
| `NRTPReceiver` (same file) | sources, flows, remote SDP | `setRemoteSDP`, `inputRTP` (find media, RTX, RED), `inputRTCP` | inserts into the windows |
| RTP time (NMedia/NRTPTime) | last timestamp and time, last sender report | `input`, `convert`, `estimate` | one pair of clocks for each flow of the demuxer |
| SDP, RTP/RTCP parsing | none | pure functions | the receiver |
| signalling (xmedia4j/…/stun) | server: registered peers with active time; client: own and other peer, two threads | register, heartbeat, signal, punch, over UDP | datagrams that may be lost, late or doubled |
| socktunnel UDP bridge (socktunnel/…/main.cpp) | forwarders by sender, slots, preferred socket, check list | datagrams in both directions, failures, the manager's timer | event loop callbacks |
| socktunnel TCP bridge, sockets, ping | TCP links, bufferevents | accept, connect, receive, close | libevent |
| `evrtmp_client` (rtc-lab/src/libevrtmp) | connection, `connect_try`, timer, session, parameter sets | connect, close, send, libevent callbacks | RTMP library, the pushing loop of Lab034 |
| xctools, lab programs, recording, DTLS, Android | media I/O | | FFmpeg, SDL, OpenSSL |

What is hard in it. The receive path is one thread, so nothing interleaves inside it;
the difficulty is the order, loss and duplication of packets against state that is
never cleared (slots, pooled frames, header fields) and numbers that wrap. The bridge
and the RTMP client are driven by callbacks and timers that come in any order, and by
calls that fail. Signalling has threads, time-outs, processes that die and an
unreliable transport.

What makes each part correct: the buffer is a deque; the window neither loses nor
confuses what it accepted, and is read in order, once; what is recovered is what was
sent, in time; a frame handed to the decoder is whole and decodable, and frames that
could be handed out are; a packet reaches the window of its stream; audio and video
come together; two clients that signal each other end as each other's peer, and nobody
waits for ever without need; a forwarder lives as long as it is used; a picture never
goes out before the parameter sets it is coded with.

## 2. Modules

| module | models | notes |
|---|---|---|
| `CircularCursor` | the three cursor fields and every function that moves them | the bulk operations as closed forms |
| `CircularBuffer` | `NCircularBuffer`: a cursor and its cells, one action per member function | |
| `BoundedDeque` | what the buffer promises | refined by `CircularBuffer` (`ImplementsDeque`) |
| `SeqRing` | `NRTPSeq`; the ring has `2 * HalfRange` numbers | `HalfRange` is 32768 in the code |
| `PacketWindow` | `NRTPPacketWindow`: an action per branch of `insertPacket` and `nextSlotInOrder` | extends the two above |
| `RtpFlow` | one flow of the demuxer over its window | `processRTP`, `processForeign`, `EndOfFile`, `processFlow` |
| `RtpStream` | `RtpFlow` behind a network without loss | environment for gap freedom and liveness |
| `UlpfecWindow` | `NRTPUlpfecWindow` over `PacketWindow` | one step per iteration of `processFEC` |
| `UlpfecStream` | a sender of blocks with a FEC packet each, loss and reordering, and the demuxer that reads behind the window | |
| `Vp8Depack` | `NRTPDepackVP8` and the frame pool | |
| `Vp8Stream` | a sender of frames, loss, malformed and foreign packets, the consumer of frames | |
| `Receiver` | `setRemoteSDP`, `checkFindMedia`, `demuxRTP`, `inputRTP`, and the demuxer's vector of flows | what reaches which window, and when a flow is read; the loops over the lines of an SDP are recursive functions |
| `RtpTime` | `LocalNTP`, `RemoteNTP`, `estimate` for an audio and a video flow | sender reports are `updateNTP`; `TimeInit`, `TimeNext`, `TimeSpec` |
| `SimpleSignal` | server, clients (both threads), network, clock, killed processes | |
| `UDPBridge` | the bridge and its entry in the manager's check list | |
| `EvrtmpClient` | connection, retries, timer, handshake, parameter sets, sending | driven by a file of NAL units pushed over and over |
| `MC…` | TLC instances | |
| `CursorLemmas` | lemmas about remainders, the cursor, and induction on naturals (`NatInd`) | used by most of the next |
| `CircularBufferProofs`, `RtpFlowProofs`, `UlpfecProofs`, `DemuxerProofs`, `Vp8StreamProofs`, `SimpleSignalProofs`, `TransportProofs` | theorems | `RtpFlowProofs` is about `RtpStream` too, `DemuxerProofs` about `Receiver` and `RtpTime`, `TransportProofs` about `UDPBridge` and `EvrtmpClient` |

Definitions introduced as "Faulty variant" are plausible mistakes in the definition that
follows them. No specification uses them: put in its place, each one makes a property
fail, which shows that the property is about that code.

How the state corresponds to the code. Variables carry the names of the members
without the trailing underscore. `cur` is the record of `head_`, `tail_`, `count_`.
A slot is the sequence number and the payload it last stored; a default-constructed
one has number 0 and payload `None` (`payloadPtr == nullptr`). `state` is what the
last call returned, by the name of the enumerator; `Failure` are the negative ones.
A payload is a model value, with the set `Oversize` of those that do not fit a slot;
in `UlpfecWindow` it is the set of packets whose exclusive or it is, in what all packets have: the length and the
header, but for the ssrc, which recovery does not restore (NRTPPacketWindow.cpp:214) and the model leaves
out. `byte` is the same for one position of the slots' buffers that some packets, `Short`, do not
reach: `serialize` writes only as far as the packet goes and nothing clears a buffer, so a short packet leaves there what an older one
wrote or, in a new buffer, memory that was never written (`Memory`), and `recoveryAdd` adds it (line 189). In `Vp8Depack` a packet is what
`parsePacket` tells apart (`Kind`). In `SimpleSignal` a random `seq` is named by the
command and the client that made it, and time goes in seconds. In `UDPBridge` `time_` is
kept as its age. In `EvrtmpClient` a parameter set is known by its contents.

History variables, which no guard reads: `held` (accepted since the last reset and
in the window ever since), `pending` (held and not depacked), `depacked`, `out`, `calm`, `stale`,
`first`, `moved`, `idle` of a forwarder, `remote` and `cur` of the RTMP client, and in
`RtpTime` all from `start` on, but for the bound on `frames`.

Granularity. Each call of `insertPacket`, `nextSlotInOrder` or `depack` is one step, and so is
each callback of an event loop. `due`, whether the buffering time is up, is a free
choice for every packet but the flow's first, because the time stamps come from the
recording. A client of `SimpleSignal` has two threads: `start()`, whose `wait` is a step of its
own, and `workLoop`, of which each receive, time-out and sleep is a step. A second passes only
when nothing that is due is left undone, but for `world.late` packets.

How the models fit together. `Receiver` says which window each part of a packet is
handed to; `PacketWindow` and `UlpfecWindow` what the window makes of it; `RtpFlow` and
`UlpfecStream` how the demuxer reads it; `Vp8Depack` what becomes of what was read, and
`RtpTime` which time a frame gets. The interface between two of them is a packet or a
slot, passed in one direction. Signalling, the bridge and the RTMP client are programs
of their own.

## 3. Runs

| run | shows | bounds |
|---|---|---|
| `circular_buffer` | refinement of the deque; `tail_` is always the cell of the last element; closed forms equal the loops (`BulkIsLoop`) | capacity 3, bulk up to 4: bulk operations beyond the capacity and both wraps happen |
| `rtp_flow` | `WindowHolds`, `ReaderNear`, `PulledDry`, `NeverBackward`, `AtMostOnce` for any arrivals | capacity 3, ring of 20, twelve numbers around the wrap, each any number of times, two of them of packets that do not fit a slot and are reported as inserted: every branch of `insertPacket` and both kinds of reset are reached |
| `rtp_stream` | `GapFree`, `EventuallyDepacked` | capacity 3, packets overtaken by up to 2, one duplicate each, endless stream round the ring |
| `remain` | violation of a comment (section 5) | capacity 3, ring of 20, five numbers from 10 on, each any number of times: one may be lost in the middle |
| `ulpfec_stream` | `RecoveredRight`; null data is read only around number 0; the front of the list is worth waiting for; one loss per block leaves no gap for the reader (`LossesHidden`) | window 5, masks of 3, blocks of 2, 12 packets, late by up to 4: four blocks, so that slots are reused, the wrap lies inside and a packet lost after the window was full can slide out; the first block is of short packets, the last of a short and a long one, the other two, of which one contains number 0, of long ones, whose slots are reused |
| `vp8_stream` | see below | four frames of one to three packets (with two, a lost packet in the middle of a frame never happens), one foreign or broken packet, one frame at the consumer |
| `receiver` | `NullFlowOnlyForStrangers`, `RightWindow`, `RetransmissionFillsGap`, `BufferedUnlessMoved` | three SDPs (with a FID group, without any ssrc, with the video first), thirteen packets of five ssrcs, up to three flows, so that the vector moves the first ones; four time stamps, of which two are past the buffering time |
| `rtp_time` | `LocalClockTracks`, `RemoteTimeRight`, `SkewShrinks` | timestamps modulo 32, a unit of 1/16 s, rates 3 and 7 (neither divides the unit), steps back and forth, four frames a flow, enough for each to wrap |
| `signal_safety` | `PairingMutual`, `IdleStaysRegistered`, `NoMutualWait` | the code's times 2, 1, 6, 3 s; two clients that may both be killed with loss and duplication, three with loss, three of which one may be killed on a prompt network |
| `signal_liveness` | `WaiterWoken`, `SignallingCompletes` | two clients, one of which may be killed, with loss, or with one late packet; times 2, 1, 2, 2 s, which keep that a sleeper may expire and shorten the rest |
| `udp_bridge` | `PreferLentOnce`, `IdleBound`, `FreedOnlyIdle`, `RedirectedByOwnSocket` | three senders for two slots and one preferred socket, one stranger, time-out 3 s |
| `evrtmp_client` | `TimerWhileConnecting`, `VideoDecodable`, `ConnectEnds`, `VideoFlows` | three attempts as in the code; a file in which the SPS, the PPS and both change, in either order |

Symmetry is used in `signal_safety` only, where clients are told apart by nothing and only
invariants are checked. `CHECK_DEADLOCK FALSE` stands where the system may stop: a file
ends (`rtp_flow`, `remain`), the bounded sender has sent everything (`ulpfec_stream`, `vp8_stream`,
`rtp_time`), the recording is over (`receiver`), the bridge is closed, the RTMP client deleted. The first
sequence number is fixed next to the wrap; apart from number 0 in unused slots, which
`rtp_flow` and `ulpfec_stream` pass through, the model looks the same from any.

`vp8_stream`. `EndsWithWholeFrame`: what is handed out ends with all packets of the
frame that completed it. `ExactInStep`: it is exactly that frame if the depacker was
not waiting for a key frame when it began. `DeltaFollows`: a delta frame goes out only
right after its predecessor. `HeaderRight`: it carries its own header.
`KeyGetsThrough`: while waiting with no frame left open, a key frame that arrives
whole goes out. `LosslessDelivered`: without loss all frames from the first key frame
on go out.

Preconditions that are part of what the code guarantees; each was found by a
counterexample to the property without it.

* `rtp_stream` delivers in order until the window is full for the first time, because a
  young window turns an older packet down and is reset by one twice its size ahead; with
  reordering from the start neither property holds.
* `RecoveredRight` does not speak of the ssrc. It promises the bytes only of a packet whose block has no packet
  that ends before them (section 5); length and header it promises in any block. It excepts the block that contains number 0 and a window that went back behind
  its last reset (`stale`, section 5), and reordering is less than the
  window: a packet later than that can be prepended in front of slots of another lap. No number
  is used twice: a stream is at most half a turn long.
* `LossesHidden` is about packets that come in order, FEC packets that arrive, and one
  loss per block after the window was filled (section 5).
* `NoMutualWait` and `IdleStaysRegistered` are about a prompt network; `SignallingCompletes` excepts
  callers whom nobody can answer (`CannotAnswer`), `WaiterWoken` those who are called
  while they register and those whose registration is done before they wait.
* `BufferedUnlessMoved` excepts flows that the demuxer's vector has moved.
* `RemoteTimeRight` asks for a report less than half the range of timestamps away.
* In `Vp8Stream` what is lost or rejected in a row is less than a whole turn of the sequence
  numbers (`GapShort`): after exactly 65536 missing packets the depacker could not see the gap.
* The code takes a clock that reads 0 for one that was never set. `ClocksRun` says that no clock
  has come to read 0 by its steps; in the instance of `rtp_time` it is true in every state, and
  the two theorems that need it have it for a hypothesis.

Fairness, and why the code justifies it.

* `rtp_stream`: the sender keeps sending, the network delivers every packet in the end,
  and the single thread goes on in its loop. The first two say that the recording goes
  on. Nothing is assumed about duplicates or about `due`.
* `signal_liveness`: threads and clocks go on and what is not lost arrives (weak
  fairness); a `reg` that is sent for ever, which `doReg` does every 2 s, arrives at last
  (strong fairness, on the network). Nothing is assumed of `start()`'s own thread or of kills.
* `evrtmp_client`: the event loop calls the timers that are due, and a server that has
  accepted a connection answers its handshake. Nothing else would end that: the client
  has no timer for it. Nothing is assumed about connects, which may never be answered.

## 4. Proofs

For every capacity, ring (with `3 * Capacity < HalfRange`, which the code's 128
and 32768 satisfy), payload set, number of frames, packets, clients and senders, every rate,
unit, time-out, file and number of attempts:

* `CircularBufferProofs`: `BufferTailIsLast` (the cursor fields agree in every reachable state),
  `BulkAlwaysLoop` (the closed forms of the bulk operations are the loops of the code) and
  `BufferImplementsDeque` (the refinement of `BoundedDeque`).
* `RtpFlowProofs`: `TypeCorrect`, `WindowAlwaysHolds`, `ReaderAlwaysNear`,
  `AlwaysPulledDry` (invariants) and `ReaderNeverBackward`, `DepackedAtMostOnce`
  (action properties), for every sequence of packets; `StreamGapFree` for a stream
  without loss.
* `UlpfecProofs`: `FecTypeCorrect`, `FrontAlwaysUseful`, `NullAlwaysAtZero`, `AlwaysRecoveredRight`
  (invariants), for every window, mask, list, block and set of short packets, whatever is lost or late; `LossesAlwaysHidden` (action
  property).
* `Vp8StreamProofs`: `Vp8TypeCorrect`, `AlwaysEndsWithWholeFrame`, `AlwaysExactInStep`,
  `AlwaysHeaderRight` (invariants), `AlwaysDeltaFollows`, `AlwaysKeyGetsThrough`,
  `AlwaysLosslessDelivered` (action properties).
* `DemuxerProofs`: `NullFlowAlwaysForStrangers`, `AlwaysRightWindow`, `RetransmissionAlwaysFillsGap` and
  `AlwaysBufferedUnlessMoved` of `Receiver`, for every SDP and packet that `SdpAssumption` admits;
  `RemoteTimeAlwaysRight` of `RtpTime`, and `LocalClockAlwaysTracks` and `SkewAlwaysShrinks` as long
  as `ClocksRun`.
* `SimpleSignalProofs`: `SignalTypeCorrect`, `PairingMutualAlways`, `NoMutualWaitAlways`,
  `IdleStaysRegisteredAlways`.
* `TransportProofs`, the bridge: `BridgeTypeCorrect`, `CheckedAlways`, `PreferLentOnceAlways`, `IdleBoundAlways`
  (invariants), `FreedOnlyIdleAlways`, `RedirectedByOwnSocketAlways` (action properties).
* `TransportProofs`, the RTMP client: `ClientTypeCorrect`, `TimerAlways`, `VideoDecodableAlways` (invariants),
  `ClosedForGoodAlways` (action property).

What is assumed of the constants stands in a named `ASSUME` of the module that declares them and is
evaluated by every run of it: besides types, a bulk size above 0 (`CircularBuffer`); a sender that
overtakes by less than the window and packets that fit a slot (`RtpStream`, `UlpfecStream`); a stream of at most half a turn and
blocks that fit a mask and are shorter than the window (`UlpfecStream`; masks cover up to 48, the window has 128 slots); a range of timestamps
that is even, steps of less than half of it, positive rates and units (`RtpTime`); an SDP whose names are
unambiguous and times that are not 0 (`Receiver`, see below); a heartbeat no
rarer than the expiry (`SimpleSignal!HeartInTime`; 1 s and 3 s in the code); for `Vp8Stream` only types,
and `GapShort` (section 3) in its actions.

`CircularBufferProofs`. `BulkAlwaysLoop` is by induction on the number of iterations (`LoopsFrom`): in
one iteration a cursor that is linked moves its end by one cell and loses its first element only when it
is full. The elements are the cells from `head_` on. `BackAdds`, `FrontAdds` and
`Removes` say what a cursor operation does to that sequence, whatever the cells it uncovers
contain; `StepImplements` takes every member function to a step of the deque or to none.

`RtpFlowProofs`. Its first part establishes that `distance` is the
unique representative and adds up as long as the sum stays inside the half range;
`CursorLemmas` that positions name different cells and what the bulk operations do
to them. None of the invariants is inductive alone; `IInv` is:

* `TypeOK`;
* `Linked(cur)`: `tail_` is the last element's cell;
* `WindowHolds`;
* `ReaderBounds`: where `nextSeq` can be. Ahead of a window that is not full it is at
  most one past its end; behind a window it is only while a full one is being
  pulled, by at most the capacity. `ReaderNear` follows;
* `Behind`: what is held and not pending lies behind the reader, from which
  `AtMostOnce` follows;
* `PulledDry`: needed again for `ReaderBounds`, since only a window that was pulled dry
  can slide without leaving the reader further behind.

`ResetStep`, `PlaceStep`, `SlideStep` and `TurnedDownStep` treat the four things an insertion
may do, `PullMoves` what a pull may do; `NextIInv` puts them together, one step per
action.

Every step of `RtpStream` is one of `RtpFlow` or leaves the flow alone, so `IInv` holds there too. `StreamInv`
adds: what the network holds was sent within the last `MaxReorder + 1` packets (`NetInv`); before the first packet
arrives it is exactly the last ones sent (`Waiting`); afterwards what lies behind the window is
owed, what is owed lies ahead of the reader, and every place of the window is held or is owed and
has another packet in its slot (`Flowing`); until the window is full nothing is missing in it and the slots
beyond it are unused (`Filling`). Hence a filling window is only ever given its next packet (`YoungArrives`), and a
full one only packets less than a window behind its end (`FullPlaces`), so it is never reset; it slides
over places the reader has left, because the reader of a window that was pulled dry waits for an owed packet,
which is near the sender (the use of `PulledDry`). The packets pushed off were held, so a reused slot holds
a number one window older and is not taken for the new packet (`FullArrives`).

`UlpfecProofs`. In `Base`, the first invariant, numbers of packets stand for sequence numbers, since half a turn is never
exceeded. `WindowInv` says that the window ends with the latest packet and begins with `Front`; `SlotInv` that every slot,
also those outside of the window, holds the number of a packet that was sent, or 0 and no payload; `ListInv` that each FEC packet in the
list is one that came, with a mask that fits. `FrontStillUseful` and
`NullReadOnlyAtZero` are part of it. `RestartStep`, `SlideStep` and
`PrependStep` are the ways an insertion can move the window, `ProcessStep` is one iteration of `processFEC`.
The second invariant, `Right`, holds until the window goes back behind its last reset. `SlotsRight`: whatever slot holds a packet of
the window, or of less than a window before it, is that packet's place and has its payload. `FecsRight`: what a mask in the list does not miss is in its place, and so is
the FEC packet itself. The second part is what makes recovery right: `Addends` goes over all slots up to the end of the window, and
`BlockRun` shows that the ones whose number the mask covers are those of the block, all but one; `RecoveryAdds` and `XorMissing` that their
exclusive or with the FEC packet is the one that is missing (`RecoveryRight`). `Whole` adds to it what the buffers hold: `BytesRight`, for a packet of
a block without short ones the byte in its slot is its own, because arrival writes it and `RecoveryByte` computes it from packets of the same block only.
`StaleStep` says when old slots can come back.
The third, `HiddenInv`, has `Hidden` as long as `Recoverables` holds. A packet is `Here` when it arrived or a FEC packet
came after it, unless the front of the list is about to recover it (`Pending`). `There` and `Missing`: what is here is in its
place, and no slot of the array holds what is not, so that masks are exact and a lost packet is not taken for received; `OneFec`:
the list holds at most the FEC packet that came last, with the mask of what is missing of its block; `Reads`: the reader is in the window, and when it
was pulled dry and full it waits for a packet that can still be recovered. With one loss per block that packet is less than a
block behind the end (`NextFec`), so the window, longer than a block, does not slide over it (`OrderlyWindow`). `InOrder`
shows that such a stream moves the window by one or two places at a time, so it is never reset; `OrderlyMask` and
`ProcessOne` that one iteration recovers the packet.

`Vp8StreamProofs`. The depacker is in step (`InSeq`) when the packet sent next is the one it
expects. `IInv` has `TypeOK` and

* `Place`: where the sender is in its frame; `Starting`: what holds before the first packet was
  accepted;
* `Times`: no frame, open, pooled or at the consumer, has the time of a frame yet to be sent, so
  that the first packet of a frame is never taken for one of the open frame;
* `Between`: in step between two frames, none is open and the last one was handed out;
  `Within`: in step inside a frame, the open one ends with what was sent of it, and for a delta frame the
  one before was handed out;
* `KeyOpen`: a key frame that nothing was in the way of is being put together; `Perfect`: without a loss
  the depacker is in step since the first key frame; `Handed`: what was just handed out ends with the current frame.

`FirstStep`, `RestStep`, `NoiseStep` and `DropStep` treat the first packet of a frame, a later
one, a malformed or foreign one and a lost one, and give the action properties too.

`DemuxerProofs`, the receiver. The argument is about the sources that `setRemoteSDP` leaves, which it
makes in nested loops over the groups, the m-lines and the ssrcs of a line, over a map that is
searched before anything is added. `Partial` says of every intermediate map: each source
is one that some line names, with the codecs of that line and the number
of the ssrc it repairs if a FID group says so. `GroupsDone` and `MediasDone` keep it by induction on
the elements that are done, and show that every ssrc of them is in the map; `SourcesInv` is what follows for the
whole SDP, and `ReceiverInv` that every flow belongs to a source. From that `RightWindow` and
`RetransmissionFillsGap` follow for a packet of any kind, and a null flow only for an ssrc that no line names.
`BufferInv` adds to `BufferedUnlessMoved` that the first time of a flow is the one of the packet that made
it.

`DemuxerProofs`, the clocks. `TInv`: the timestamp of a flow is congruent to its first one plus all steps (`Steps`), and
a remote time is right to one unit (`Remote`). A step of less than half the range is recovered by
`DeltaTs` across the wrap (`DeltaTsRight`), each conversion loses less than a unit (`ClocksMove`), and
`QuarterLeaves` is the arithmetic of `estimate`.

`SimpleSignalProofs`. `SignalInv` is `PairInv`, whatever the network does, and `PromptInv` on a prompt one.
`PairInv` has `TypeOK` and `PairingMutual`, `ClientInv` (a peer is never given up) and `SigInv` (a `sig` is from a client to its peer, or
comes back to it with an error, and is a request or an answer to somebody whose peer is the answerer), without
which an answer could pair the wrong two. `PromptInv` has `RegInv` (a client registers once, and nobody has heard of it
before its `reg` is served), `OrderInv` (of two clients the server told only the later one of the other, so
they never call each other) and `IdleInv` (what the server counts since the last heartbeat and what is left until the
next is within one period, or the heartbeat is under way).

`TransportProofs`, the bridge. `IInv` is `TypeOK`, `Checked` (whoever has forwarders is on the check list),
`PreferInv` (the count is 0 and nobody has the preferred socket, or it is 1 and exactly the
forwarder its callback points to has it) and `IdleInv`. The last is the argument for the time-out:
`PhaseOK` says how idle a forwarder can be given its mark and whether its slot is the next
to be looked at; `Checked` is needed for it, because otherwise seconds would pass without a
look. The action properties follow from `IInv` action by action.

`TransportProofs`, the RTMP client. `ClientInv` adds to `ClientTypeOK`, `TimerWhileConnecting` and `VideoDecodable`: `SessionInv`
(connection and session come and go together), `FreshInv` (before the server accepts media
no parameter set is known and none was sent) and `MetaInv` (afterwards, the sets held are
the ones in force, and a complete pair is what the server was sent last), which is what makes
`VideoDecodable` inductive.

Induction. The induction theorems of the library take an operator, which the provers cannot instantiate.
`LeastNat` (`CursorLemmas`), that a nonempty set of naturals has a least element, can be cited, and so a
property of naturals that is written as the set of those that have it (`NatInd`).

Only model-checked. Liveness (`EventuallyDepacked`, `WaiterWoken`, `SignallingCompletes`, `ConnectEnds`,
`VideoFlows`), which is beyond the prover. Where a type invariant is proved the runs do not
repeat it.

## 5. What the checks found

One comment is refuted by a run (`remain`, quoted in `PROJECT.json`): `process()` says "process
remain packets" (Lab000-Demo.cpp:580), but at the end of the file it never gets past the first gap of a flow. In the run 10, 11 and 13 fill the
window, the reader takes 11 and stops at the gap, 14 arrives, and the file ends. The one call of
`nextSlotInOrder` with `skip_empty` skips the gap and moves the reader over 13, but returns
`kReachEmptySlot`, so that 13 is not depacked and the loop ends; 14 stays in the window. A reader that does
not stand at a gap when the file ends reads up to the first one and stops there.

Other comments and tests in the code that read differently from what the models,
translated from the code, do:

* `pushBack` "returns `false` if the addition caused overwriting"; it returns the number of
  overwritten elements.
* `insertPacket`: "too newer packet, never reach here" is reached, e.g. by a packet two ahead of
  the first one, and resets the window. In the start phase the test for "out of date"
  (NRTPPacketWindow.cpp:33) is the wrong way round: an older packet with room to spare is turned
  down, one without room is prepended at the expense of the newest packets.
* "it is sig ack" (SimpleSignalClient.java:187) is also reached by a call of another client.
* RED block offsets are added to the timestamp, though NRTPMap.cpp:1767 says subtracted.
* The target at main.cpp:684 of socktunnel is where a sender's datagrams go only until
  somebody else sends to the forwarder's socket, since `recv` overwrites `remoteAddr_`.

Behaviour that no comment contradicts, found while looking for properties that hold:

* **VP8.** A packet rejected in the middle of a frame leaves the frame open
  (NRTPReceiver.hpp:789). The first packet of the next key frame is added to the old data under
  the old time, the second is rejected; only a key frame of one packet gets
  through, with the old data in front. Hence the condition `wasFree` of `KeyGetsThrough`. The first
  packet after a gap is always rejected, also when it begins a key frame. A frame from the pool
  is not cleared while waiting for a key frame (line 818). `lastPicId_` is never assigned.
* **ULPFEC.** Recovery is right only among packets of one length. `recoveryAdd` (NRTPPacketWindow.cpp:189) takes
  `level.length + 12` bytes from every covered slot, whatever the length of the packet in it, and
  buffers are neither cleared nor padded, so that a shorter packet contributes the bytes of an older packet or
  memory that was never written. Without the precondition that no packet of the block is shorter TLC has the FEC packet 9 of the block
  7, 8, then 10, which is short, and the FEC packet 12 arrive: packet 11, which was lost, is recovered
  with the uninitialized byte of the slot of 10 in it. A recovered packet's ssrc is the exclusive or of those of
  the others, not its own ("TODO: recover ssrc", line 214). No code behind the window reads it. `verifyFEC`,
  which would compare a recovered payload with the packet, is never called. Late media packets update the masks of copies (NRTPPacketWindow.cpp:262), so
  a FEC packet that lacked two or more packets when it came never recovers anything
  and blocks those behind it until it has left the window. An unused slot counts as packet 0
  (lines 276, 364): wrong recovery and a read of a null pointer (line 190) for the FEC packet that
  covers 0. A full list loses its front to a FEC packet that does not parse (line 345). A packet
  put in front of a window after a reset brings slots from before the reset back into it, and recovery takes them for
  received: with window 14, blocks of 3 and arrivals 6, 7, 8, 11, 18 (a reset), 5 (put in front), 10, 12 (FEC) packet 9 is recovered as
  the exclusive or of 9 and 11. A recovered
  packet keeps the codec type its slot had (line 216). A lost FEC packet, which nothing recovers,
  leaves a hole at which the reader waits although no medium is missing; when a
  second loss makes the window slide by two, a media packet that did arrive is given up
  unread.
* **Receiver.** The first usable packet of an ssrc that the SDP does not name is put into a null
  flow (NRTPReceiver.hpp:1299). A packet before the SDP, and the flows left over by a second
  SDP, use pointers that are not valid (one SDP before the packets is assumed). All blocks of a RED
  packet have the same number, and `demuxRED` reads headers between the data of blocks. The
  move constructor of `MediaFlow` forgets `firstRecvTS` and the clocks, so adding a flow may restart
  the buffering and the time of the others. `removePadding` reads the padding from the data of the outer packet
  (NRTPMap.cpp:1672).
* **RTP time.** A report more than half the range of timestamps away gives a wrong remote
  time. A step of exactly half the range is excluded (`std::abs` of the least integer).
* **Signalling.** `start()` waits without looking at `selfP`: if the reading thread is first, it
  waits for good. An answer is sent once, and a repeated request is taken for an answer, so a lost
  answer leaves the caller waiting. Two clients that call each other wait for good (possible
  as soon as packets are late), and so does the third caller of a client that has a peer. A
  caller that waits sends no heartbeats, may expire, and then the answer to it is turned down.
  Packets that are skipped restart the receive time-out, and puns postpone heartbeats. The
  6 s sleep is longer than the 3 s to expiry, and that the heartbeat is refused is ignored.
* **UDP bridge.** A forwarder that borrows the preferred socket finds the `to_` of the last
  borrower, and the callback on a socket that was returned points to a freed forwarder
  until the next borrower sets it; libevent may still call it, which is not modelled.
* **RTMP client.** If the two pairs of parameter sets of a file have nothing in common, a
  client that starts between them waits for ever (so `VideoFlows` depends on the file). The
  attempts are never refilled, and `connect()` after giving up returns 0 and does nothing. A session closed
  by a status of the server closes the socket below the bufferevent and is not retried. After the
  connection is made there is no timer, so a silent server is waited for without end.
  An error in sending is treated as success.
* **TCP bridge** (read, not modelled). When one leg ends both are deleted at once, with what is
  still queued; a connect that fails inside `start()` deletes the pair `onAccept` goes on to use.

## 6. Not modelled, and the plan

Of the repository's lines most are third-party (srs_librtmp, stb, spdlog, rapidjson,
librtmp, aec) or programs around FFmpeg, SDL, OpenSSL and libvpx, whose control is in those libraries; the mapped lines are
therefore a small share of the whole: some 2,600 of 218,000, which are most of the control of the
components in section 2.

Left out for good: parsers of byte layouts (the models begin with what they return), lab
programs, recording, DTLS and Android code (media I/O and wrappers of libraries), the Kalman filter
experiments (floating point), vendored code. `traverseUntilEmpty`, `verifyFEC`, `pullRemainFrame`,
`addContinuousPacket` and the `insertPacket` overload for RED have no callers. In modelled components: reading
records from a file; a second SDP; receiving media over RTMP, chunking, and a handshake with a wrong version;
`SuperPuncher`, a stand-alone experiment.

Left, in this order:

1. `TCPBridge` of socktunnel with the part of XSocket it needs: accept, connect, receive, close of
   two legs, callbacks inside calls. No freed pair is used; what one leg received before it ended
   reaches the other.
2. The relay and the H.264 depacker of xctools; `XUDPPing`.
