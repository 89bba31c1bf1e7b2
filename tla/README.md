# DCTCP in ns-3: a TLA+ verification project

The repository is a demo implementation of DCTCP (`TcpDctcpMy`, RFC 8257)
inside a copy of the ns-3.35 network simulator. This directory holds TLA+
modules of the DCTCP congestion control and of the parts of ns-3's TCP that it
lives in, TLC configurations that check them, and TLAPS proofs. All paths below
are relative to `src/ns-3.35/src/`.

## 1. Inventory

| component | state it keeps | operations | what makes it correct |
|---|---|---|---|
| **DCTCP receiver** `internet/model/tcp-dctcp-my.cc` 133-221 | `CEState`, `holdingDelayedACK`, `seqDelayedACK`(`Valid`) | `CwndEvent` with four events, `FlushDelayedACK`, `UpdateDelayedACK`, `CEStateOn/Off` | ACKs tell the sender which bytes were marked; the flush never corrupts the receive position, never acknowledges what did not arrive, never loses a CE episode |
| **TCP receive path** `tcp-socket-base.cc` (`ForwardUp` ... `ReceivedData`, `DelAckTimeout`, `SendEmptyPacket`) | `m_ecnState`, `m_ecnCESeq`, `m_delAckCount`, `m_delAckEvent` | segment acceptance, ECN events, delayed ACKs | bounded delay of ACKs, every in-order byte eventually acknowledged, cumulative ACKs sound |
| **Receive buffer** `tcp-rx-buffer.cc` | stored packets, SACK list, position, FIN, occupancy | `Add`, `UpdateSackList`, `ClearSackList`, `Extract`, `SetFinSequence`, `MaxRxSequence` | a byte stream: what was acknowledged is read once and in order; the SACK list is true; the window is not taken back before the FIN |
| **DCTCP sender** `tcp-dctcp-my.cc` 229-276 | `alpha`, `bytesACKedAll`, `bytesACKedECE`, `seqNextSend`(`Valid`) | `PktsAcked`, `GetSsThresh` | 0 <= alpha <= 1, one update per window of data, bytes counted once |
| **Congestion state machine** `tcp-socket-base.cc` (`ReceivedAck`, `ProcessAck`, `DupAck`, `EnterCwr`, `EnterRecovery`, `ReTxTimeout`) | `m_congState`, `m_recover`(`Active`), `m_dupAckCount`, `m_ecnEchoSeq`, `m_ecnCWRSeq` | one handler per ACK kind, the timers | one reduction per window, every state left again, assertions hold |
| **Transmission scoreboard** `tcp-tx-buffer.cc` | sent list with `m_sacked`, `m_lost`, `m_retrans` and their totals | `Update`, `DiscardUpTo`, `NextSeg`, `MarkHeadAsLost`, `SetSentListLost`, ... | totals equal the flags they count, nothing SACKed is resent, something lost is resent |
| **Window algorithms** `tcp-linux-reno.cc`, `tcp-prr-recovery.cc`, `tcp-dctcp-my.cc` 266-276 | `m_cWnd`, `m_ssThresh`, `m_cWndCnt`, `m_prrDelivered`, `m_prrOut`, `m_recoveryFlightSize` | `SlowStart`, `CongestionAvoidance`, `GetSsThresh`, `DoRecovery` | a reduction reduces, what it delivers is counted without wrapping, data never waits for nothing |
| **Connection state machine** `tcp-socket-base.cc` (`ProcessListen` ... `TimeWait`), `tcp-l4-protocol.cc` | `m_state`, endpoint, `m_retxEvent`, `m_lastAckEvent`, `m_synCount`, `m_dataRetrCount` | handshake with ECN negotiation, close | both ends agree on ECN, a FIN taken as acknowledged was, attempts end |
| **RED queue** `traffic-control/model/red-queue-disc.cc` | `m_count`, `m_old`, the FIFO (the average is the length with `QW = 1`) | `DoEnqueue`, `DropEarly` | ECN-capable packets are marked, not dropped, below the limit |
| **Traffic-control layer, device queue, queue limits** `traffic-control/model`, `network/utils`, `point-to-point/model` | queue disc, its running flag and quota, two stop flags, the limits' counters, the transmitter | `Send`, `Run`, wake callbacks, `TransmitStart/Complete` | no packet waits for ever, the device stops in time, order kept |
| **Event scheduler** `core/model` | event queue, clock | `Schedule`, `Cancel`, `Run` | taken as given: one event at a time, in time order; a cancelled one never runs |
| the rest of ns-3 | wireless, routing, mobility, bindings, ... | | third-party; not part of DCTCP |

**Interaction.** Everything runs in one simulator thread: an event (a packet
arrival, a timer, an application call) runs to completion before the next.
Interleaving is therefore between handlers, never inside one, and a handler is
one action of the models. What makes the system hard is elsewhere:

* the two halves of a connection share one `TcpSocketState`: the receiver's echo
  state and the sender's ECE/CWR state are the same variable `m_ecnState`;
* congestion control and socket call each other back: a CE event makes the
  congestion control rewind the receive buffer, call the socket's
  `SendEmptyPacket` and restore it; `SendEmptyPacket` has side effects on the
  delayed-ACK timer and count the flush does not mention;
* segments and ACKs are lost, reordered and repeated by the network;
* three kinds of window reduction (ECE, fast retransmit, RTO) overlap;
* the traffic-control layer stops and wakes queue discs through callbacks that run
  in later events, so IP may send between the wake-up and the run it causes.

## 2. Plan

Done, in this order: the receiver (`DctcpReceiver`), the sender and its scoreboard
(`TcpTxBuffer`, `DctcpSender`), the outgoing interface (`RedQueueDisc`,
`DynamicQueueLimits`, `TrafficControl`), opening and closing (`TcpConnection`), the
window in bytes (`DctcpWindow`), the receive buffer in bytes (`TcpRxBuffer`). The
abstract specifications are `CumulativeAck`, `SlidingWindow`, `MarkingFifo` and
`ByteStream`.

Left:

1. a composition of sender, interface and receiver: a mark is eventually answered,
   a sender that is never marked never reduces for ECN. The product of the
   existing models is far beyond TLC even with three segments; it needs an
   abstraction of each half (`CumulativeAck` with the echo, `SlidingWindow` with
   the reaction) shown to be implemented first;
2. the persist timer and a peer whose window closes;
3. fast recovery's window (PRR with SACK blocks) on top of `DctcpWindow`;
4. theorems about the operators of `RedQueueDisc` alone (the gap between marks), and
   `ImplementsFifo` with device headers, which needs a `MarkingFifo` whose packets
   may be discarded on the device.

## 3. Modules

| module | models | role |
|---|---|---|
| `DctcpReceiver` | `tcp-dctcp-my.cc` 133-221, receive path of `tcp-socket-base.cc`, position of `tcp-rx-buffer.cc` | receiver |
| `CumulativeAck` | | what a delaying receiver promises |
| `DctcpReceiverProofs` | | theorems about the receiver |
| `TcpRxBuffer` | `tcp-rx-buffer.cc`, its callers in `tcp-socket-base.cc` | receive buffer in bytes |
| `ByteStream` | | what a receive buffer promises |
| `TcpRxBufferProofs` | | theorems about the receive buffer |
| `TcpTxBuffer` | `tcp-tx-buffer.cc` | operators on the scoreboard |
| `DctcpSender` | `tcp-dctcp-my.cc` 229-264, ACK path, retransmission and sending of `tcp-socket-base.cc` | sender |
| `SlidingWindow` | | what a window-based sender promises |
| `TcpTxBufferProofs`, `DctcpSenderProofs` | | theorems about the scoreboard and the sender |
| `DctcpWindow` | `tcp-linux-reno.cc`, `tcp-prr-recovery.cc`, `GetSsThresh`, the window's part of `tcp-socket-base.cc` | congestion window in bytes |
| `DctcpWindowProofs` | | theorems about the window |
| `TcpConnection` | `tcp-socket-base.cc` outside the data transfer, `tcp-l4-protocol.cc` without an endpoint, the applications' `StopApplication` | opening and closing |
| `TcpConnectionProofs` | | theorems about the connection |
| `RedQueueDisc` | `red-queue-disc.cc`, `Ipv4QueueDiscItem::Mark` | operators on the queue disc |
| `DynamicQueueLimits` | `dynamic-queue-limits.cc` | operators on the limits |
| `TrafficControl` | `TrafficControlLayer::Send`, `QueueDisc::Run`, `NetDeviceQueue`, transmit side of `point-to-point-net-device.cc` | one outgoing interface |
| `MarkingFifo` | | what an interface promises |
| `TrafficControlProofs` | | theorems about the interface |
| `MC...` | | instances for TLC |

The models have the same shape. A handler in the code is a pipeline of calls that
each change the state and call each other back, so the state of a socket is one
record and each C++ function is an operator from record to record with the
function's name; an action runs the whole pipeline of one event, in the order of
the calls. Where a handler sends, `out` holds what this event sends.

Next to some definitions stands a faulty variant (`...NoRestore`, `...Once`,
`...KeepsLost`): a plausible bug in that function. No specification uses them.
Each checked property is violated by at least one, which is what shows that the
property depends on the code at all (`mutants` in `PROJECT.json`).

### DctcpReceiver

Data is counted in segments; segment `s` occupies `[s, s + 1)`. State: the receive buffer (`received`, `nextRxSeq`), the congestion control's
`CEState`, `holdingDelayedACK`, `seqDelayedACK` (0 for "not valid"), the socket's
`ecnState`, `ecnCESeq`, `delAckCount` and `delAckEvent`. `acked` and
`unreported` are history: the highest acknowledgment number sent and whether
data accepted in CE state has not been echoed yet.

Actions: `ReceiveData` is `IsValidTcpSegment`, `ForwardUp` (the ECN event),
`DoForwardUp` (the CWR flag), `ReceivedAck` and `ReceivedData` of one segment;
`ReceiveStaleData` and `ReceivePureAck` are the paths of a socket that also sends;
`DelAckTimeout` is the timer; `SendData` is any data packet, which piggybacks an
ACK. The network is in the inputs: any segment of the window, or outside it, with
any code point and CWR flag, at any time and any number of times, so loss,
duplication and reordering need no channel.

`FlushDelayedACK` is the delicate part: it moves the receive buffer's next
sequence number back to `seqDelayedACK`, calls `SendEmptyPacket`, and restores it.
`SendEmptyPacket` also resets the delayed-ACK count and cancels the timer, which
the flush's author does not mention; most receiver properties are about what
survives that.

### TcpTxBuffer and DctcpSender

The scoreboard's flags (`m_sacked`, `m_lost`, `m_retrans` of every item) are sets
of segments; its totals are numbers changed by the same increments as in the
code, so that "the totals equal the flags" is a theorem and not an abbreviation.
`DctcpSender` adds the congestion state, the recovery point, the duplicate-ACK
count, DCTCP's byte counters and observation window, `m_ecnState` with the echo
and CWR sequence numbers, SND.NXT, the retransmission timer and its retries.
`fault` becomes true where the code dereferences the null item that
`CopyFromSequence` returns; `cwrPoint` is history (where the last ECE reduction
was made).

Actions: `Write` (`Send` and the `SendPendingData` it schedules), `ReceiveAck`
(`ReceivedAck` and everything it calls, in its order: SACK processing, discarding,
end of CWR, ECE, `ProcessAck`, `SendPendingData`), `ReTxTimeout`.

Abstractions:

* **Windows.** `m_cWnd`, `m_ssThresh` and pacing are not in the state. Where the
  code compares with the window, the model may send anything from nothing up to
  the advertised window, so its behaviours include those of every congestion
  window, of PRR and of Linux Reno. What holds here holds whatever the window
  arithmetic does; that arithmetic is `DctcpWindow`'s.
* **Alpha** is a weighted mean of fractions `bytesACKedECE / bytesACKedAll`; the
  model keeps the counters. That a fraction is at most 1 (`FractionIsFraction`)
  is what keeps alpha in [0, 1].
* **Assertions are not guards.** ns-3's debug build aborts where `NS_ASSERT` fails,
  an optimized build goes on; the model goes on.
* The peer only receives, so incoming segments carry no data and no CE mark. A
  peer never acknowledges as its next expected segment one it has SACKed, and
  reports as SACKed only what is above its acknowledgment and was sent.
* SACK is on (the default), so Reno's guessed SACKs do not occur; segments are not
  split or merged.

### DctcpWindow

Bytes of the transmission buffer in the order in flight, marked lost, not sent;
the congestion window, `ssThresh`, `m_cWndCnt` and PRR's three counters;
`toRecover` is `m_recover` relative to the head. Actions: `ReceiveAck` (discard,
end of CWR, ECE, `ProcessAck`, `NewAck`, `SendPendingData`), `Write` and the
`SendPendingEvent` it schedules, `ReTxTimeout`. Alpha is any multiple of
`1 / AlphaSteps` at every reduction. The application writes whole segments, the
peer advertises a constant window, and losses are at the end of what is outstanding,
so no ACK carries SACK blocks and the states are OPEN, CWR and LOSS. The product
in PRR wraps at `Word`, 2^32 in the code. `share` records a use of PRR's share that
was no reduction, `timedOut` that a timeout ever came.

The 32-bit product and the bytes of one reduction are where the numeric hazards
are. Details of the source that the model keeps because properties depend on
them: `EnterCwr` counts the bytes of the ACK that carries the echo and `DoRecovery`
counts them again; `m_recoveryFlightSize` is `UnAckDataCount`, not the bytes in
flight of `tcp-prr-recovery.h:89`; `SetSentListLost` clears `m_retrans` before
`IsHeadRetransmitted` asks for it, so every timeout lowers `ssThresh`, contrary to
the comment at `tcp-socket-base.cc:3722`.

### TcpRxBuffer

Stored packets are half-open ranges of bytes in the order of the map. `Add` cuts a
segment to the window, walks over the stored packets (`Trim`: an overlap at the
head or the tail cuts the segment, a packet embedded in it is erased), stores the
rest, updates the SACK list and moves the position (`Advance`, `Past` for the
FIN). The loops over the map are recursive functions (`Trimmed`, `WithNewest`,
`ClearSackList`, `Advanced`, `Taken`). `ReceivedData`, `PeerClose` and `Extract` are its callers. `edge` is the peer's: the
furthest end of a window it was offered, which bounds what it sends and nothing else.
History: `arrived`, the sequence numbers that segments brought, whatever the buffer did
with them (a segment refused as out of range counts; a FIN segment that `PeerClose`
ignores does not, section 6), and `truncated`, whether the list ever dropped a block.

`ByteStream` is mapped from `arrived` and the code's own `MaxRxSequence`. Given what has
arrived and what was read it leaves no freedom: what is stored, the position, the
window, the occupancy and the bytes to read all follow, so a buffer that drops a
segment it should keep, acknowledges past a hole or takes its window back does not
implement it.

The peer keeps inside the window it was offered and cuts its data
anew whenever it repeats it, as `TcpTxBuffer::GetTransmittedSegment` and the
persist probe of one byte do, so segments overlap in every way. The window is not
scaled, and a peer that runs over it is not modelled: with an empty buffer such a
segment is not cut (`tcp-rx-buffer.cc:150`) and the window of
`AdvertisedWindowSize` would be negative.

### TcpConnection

Both ends, the sink's listening socket, and a set of segments on the way to each
end from which a segment may be lost, or received and kept, so that copies arrive
as late and as often as they like; at most `NetSize` are on the way to an end (one
more is lost). Every handler of a state is an operator; `Receive` is one segment's
`ForwardUp`, `DoForwardUp` and handler. `retx` is the event `m_retxEvent` is bound to:
`SendEmptyPacket` of some flags, or `ReTxTimeout`. `CompleteFork` is scheduled for
the same instant by `ProcessListen` and is part of `Listen`. Initial sequence
numbers are 0, as in the code, so segments of an earlier socket of the server are
good for a later one. Both buffers are empty: no data, no marks. A simultaneous
open cannot happen between a `Connect` and a listening socket. The branch of
`PeerClose` for FIN_WAIT_1 needs data and cannot be reached here.

### RedQueueDisc, DynamicQueueLimits, TrafficControl

The disc is its FIFO with the state of `DropEarly`; probabilities are rationals with
the common denominator `Whole`, and the random variable is a choice wherever it can
decide either way. With `QW = 1`, as the scripts set it, the average is the
instantaneous length. `Run` sets `m_idle` nowhere when it sends the last packet,
which has no effect for this weight.

`Run` is the one place where the model takes a handler apart: the loop's body is
`RunStep`, and while `Running` nothing else is possible, which is one event of the
simulator seen in steps. A step moves one packet from the disc to the device, which
may stop the disc, and a dequeue schedules wake callbacks (`wakes`), which run
later: `Wake`. `Send` is IP handing over a packet at any moment between events.
`TransmitComplete` requires `wakes = 0`: callbacks are scheduled for now, and the end
of a transmission is later. With one transmission queue the flag that `Transmit`
tests is the one `DequeuePacket` has just tested, so a packet is never requeued.

The counters of the queue limits wrap at `Modulus`. `Posdiff` subtracts signed
numbers; where the difference overflows, which C++ leaves undefined, its sign is a
choice (`wraps`). Whether the hold time elapsed is a choice as well (`elapsed`).

## 4. Runs

| run | instance | what it shows |
|---|---|---|
| `receiver` | 8 segments, buffer of 4, delayed ACK after 3, ECT and CE, one-way | the receive position survives every flush, ACKs never cover what is missing, at most 3 segments wait for an ACK, the CE state kept twice agrees, no CE episode ends without an echo, everything in order is eventually acknowledged |
| `receiver_duplex` | 4 segments, buffer of 2, delayed ACK after 2, all code points, data in both directions | `CumulativeAck` is implemented also by a socket that sends |
| `sender` | 5 segments, window 4, 2 duplicate ACKs, 1 retry | scoreboard, recovery points, counters, timers, retransmissions, reductions, `SlidingWindow` |
| `sender_live` | 4 segments, window 3 | what is sent is acknowledged or the connection dropped |
| `window` | segments of 4 bytes, 5 in the buffer, peer's window of 4, alpha 0, 1/2 or 1, `Word` 128, window up to 20 bytes | PRR's share is only used to reduce, a reduction sends no more than leaves and a segment, and before a timeout data waits only for an ACK |
| `rx_buffer` | 8 bytes and a FIN, buffer of 7, 3 SACK blocks | stored packets stay disjoint, the SACK list is true, what has arrived and is not read is stored, the position is the first byte that has not arrived, and the window leaves room for the whole buffer until the FIN (`ByteStream`) |
| `connection` | 2 SYN retries, 1 FIN retry, 2 segments on the way to each end, ECN at both ends or at one that may refuse | ends agree on ECN, a FIN taken as acknowledged had been accepted, attempts end |
| `red_queue` | RED with thresholds 1 and 2, gentle, ECN, 5 packets; device queue of 2 packets, quota 2 | marking spares ECN-capable packets, the disc drains, `MarkingFifo` is implemented |
| `device_queue` | disc of 3 without early drops; device queue of 5 bytes, packets of 1 and 2 with a header of 1, queue limits of at most 3 bytes over counters modulo 12 | no lost wake-up, a stopped queue is busy, stops are in time, the limits count |
| `duplex_eventually_acked`, `segments_are_not_empty`, `window_stalls` | | counterexamples, section 6 |

The receiver's runs and `rx_buffer` check deadlock too: a segment can arrive in any
state. The others set `CHECK_DEADLOCK FALSE` because the system may stop: everything
acknowledged, the connection dropped, both sockets closed, the window at its bound.

**Why these bounds are enough to be interesting.** Receiver: the buffer is longer
than the delayed-ACK maximum, so a flush can happen with one and with two segments
held, with holes, and with the timer running; the sequence space is twice the
buffer, so the window moves past segments that a duplicate then names. Sender: a
window of four leaves room for a lost head, enough SACKed segments to enter
recovery with a duplicate-ACK threshold of two, a partial ACK, and new data during
recovery; the fifth segment makes the window limit bind, and one retry lets a
timeout happen and the retries run out. Window: the congestion window goes from a
fraction of a segment to beyond the peer's window; `Word` is small, and more than twice
the buffer, which the theorems assume (2^32 against 128 KiB in the code).
`rx_buffer`: seven bytes hold three separate blocks with holes between them, so
embedded packets, a full and a truncated SACK list, a FIN before its data and a
reader that moves the window all happen; the code's list has four blocks.
Connection: with two segments on the way to each end an old copy can overtake its
repetition in both directions. `red_queue`: the thresholds leave room for both
kinds of marks below the limit; a run of the disc ends because the disc is empty or
because the device is full. No instance uses up the quota with packets left: that
this cannot happen is what `NoPacketIsStranded` proves (section 5), and section 6 gives
an instance outside its assumptions where it does. `device_queue`: the counters wrap within a few
packets, and the limits are within `LimitsFit` (section 5): twice the largest limit
and a packet of 3 bytes fit below 12, and a quota of 3 packets of at least 2 bytes
is more than 3 bytes.

Bounds the code does not have: in the sender, `SendPendingData` sends at most two
segments per call (more are reached by more ACKs), and an ACK that brings nothing
new is not accepted once `bytesACKedAll` has reached `MaxBytes`, which bounds a
counter that repeated ACKs would drive up without end; in the window model an ACK that
would take the window beyond `MaxCwnd` is not accepted; `NetSize` in the connection.

**Fairness.** Nothing is assumed of the network, the peer, IP or the application. A
scheduled event that is not cancelled is run by the simulator: `DelAckTimeout`
(receiver), `ReTxTimeout` (sender), `RetxEvent` and `LastAckTimeout` (connection) are
weakly fair. In the interface `TransmitComplete` and `Wake` are strongly fair: each has
a fixed time, and what disables it in between (a run of the disc, a pending
callback) ends without moving that time. The loop in `Run` is weakly fair because
it is one event. For `EventuallyAcked` the work lies in whether the timer is
running at all; for `SentIsSettled`, in that and in the retries running out; for
`DiscDrains`, in the stop flags always being undone.

## 5. Proofs

TLAPS checks, for every value of the constants that meets the `ASSUME`s of the
modules (positive sizes; code points among the three; flags Boolean; a quota that
outlasts the room that wakes a disc, which 64 packets and 1500 bytes meet):

| module | theorem | property |
|---|---|---|
| `DctcpReceiverProofs` | `TypeCorrect` | `TypeOK` |
| | `NextRxSeqCorrect` | `RcvNxtIsFirstGap` |
| | `AcksAreTrue` | `AckedIsReceived` |
| | `DelayIsBounded` | `DelayBound` |
| | `ReceiverImplementsService` | `ImplementsService` |
| | `HeldIsTimed` | `HeldHasTimer`, data in one direction |
| | `CopiesAgree` | `CEStatesAgree`, data in one direction |
| | `EchoesMatch` | `EchoMatchesState`, data in one direction |
| | `EpisodesAreEchoed` | `EpisodeEchoed`, data in one direction |
| `TcpRxBufferProofs` | `ListsAreSound` | `ListsSound` |
| | `BufferImplementsStream` | `ImplementsStream` |
| `DctcpSenderProofs` | `TypeCorrect` | `TypeOK` |
| | `TotalsCorrect` | `CountersInSync` |
| | `ScoreboardCorrect` | `ScoreboardSound` |
| | `RecoveryPointCorrect` | `RecoveryPointAhead` |
| | `FractionCorrect` | `FractionIsFraction` |
| | `TimerRuns` | `OutstandingHasTimer` |
| | `ResendsCorrect` | `ResendsOnlyMissing` |
| | `ReductionsArePerWindow` | `ReducesOncePerWindow` |
| | `CwrIsPerWindow` | `CwrOncePerWindow` |
| | `SenderImplementsWindow` | `ImplementsWindow` |
| `DctcpWindowProofs` | `TypeCorrect` | `TypeOK` |
| | `ShareIsReduction` | `ShareReduces`, and `m_prrDelivered` stays below twice the buffer, if that is below `Word` |
| | `ReductionSendsWhatLeaves` | `SendsWhatLeaves`, likewise |
| | `WaitsForAnAck` | `WaitsBeforeTimeout`, likewise, and the peer's window holds a segment |
| `TcpConnectionProofs` | `TypeCorrect` | `TypeOK` |
| | `EcnIsAgreed` | `EcnAgreed`, if no client offers ECN to a server that has it off |
| | `FinIsAcked` | `FinAcked` |
| `TrafficControlProofs` | `TypeCorrect` | `TypeOK` |
| | `StopsAreUndone` | `StoppedIsBusy` |
| | `StopsInTime` | `StoppedWhenFull` |
| | `LimitsCount` | `LimitsCountQueue` |
| | `NoPacketIsStranded` | `NoLostWake`; with queue limits, if `LimitsFit` |
| | `CapableArrives` | `CapableIsKept` |
| | `MarksAreDeep` | `DeepIsMarked` |
| | `InterfaceIsFifo` | `ImplementsFifo`, without device headers |

**Receiver.** The inductive invariant is `Sound /\ Counted /\ Near`. `Sound`: the
receive position is the first gap, and neither the acknowledged point nor
`seqDelayedACK` is beyond it. `Counted`: at most `delAckCount + 1` segments are
unacknowledged, and none when the count has its initial value. These two are not
inductive: a flush resets the count to 0 while acknowledging only
`seqDelayedACK`. `Near` supplies what is missing: either at most one segment is
unacknowledged or `seqDelayedACK` is at most one behind the position, because every
data segment that is not out of the window first updates it. Each operator has a
lemma of what it preserves, and an action's proof chains them in call order.
`HeldIsTimed` and `CopiesAgree` add `Timed` and `Agree` to it. Both fail in the middle
of an event (a flush cancels the timer, `CEStateOn` changes one copy before the
other) and are restored by what `ReceivedData` does last, which is why they need
data in one direction: a pure ACK ends without `ReceivedData`. In a full-duplex
socket neither holds, which `duplex_eventually_acked` shows for the first.
`EchoesMatch` follows the acknowledgments of one event: `Told` says that those sent so
far match the CE state the event sets, the flush by saying the opposite, and every
operator that sends keeps it. `EpisodesAreEchoed` rests on `Pending`: marked data that
was not echoed yet is held in CE state with `seqDelayedACK` set, which is where
`CEStateOff` looks for it.

**Receive buffer.** The invariant `RInv` adds to the type what the two properties leave
out: with `Base` the first byte not read and `Position` the position before the FIN,
every byte from `Base` to `Position` is stored, `Position` is not, everything stored
is within the window offered, and `size` is the number of bytes stored. The loops of
the code are recursive functions over the blocks; `LoopExists` shows once that such
a function has the values it is written to have, `SetInduction` is induction up to a
bound stated on a set, and both follow from the least element of a set of naturals.
With them each loop has an invariant of its own: of the cut (`CutOK`: what stays stored is apart from what is left of the segment,
`m_size` follows; `TrimmedCovers`: a byte the segment lost is stored), of the position (`AdvanceOK`), of reading (`TakeOK`) and of the SACK
list (`WithNewestOK`, `ClearOK`). That the list never reports too much comes from the
byte at the position: it is not stored, so a block that ends beyond it begins beyond it
as well. A step of the buffer is an `Arrival` or a `Removal`.

For `ByteStream`, `ArrivedOK` says that what has arrived is what was read, what is stored
and the FIN. A segment that is taken adds to both sides alike, since nothing of it
inside the window is cut away unless it is stored already (`SegmentIsCovered`), and one
that is refused brings nothing new (`RefusedIsOld`), because the peer's `edge` is never
beyond the window that is open (`OpenWindow`). Then the position is the first number
missing from `arrived`, the FIN's among them (`MissingIs`), and `MaxRxSequence`, which
the code computes from the first stored packet, is always `Base` and the whole buffer
(`WindowIs`): `StreamState` states all of it of one state, and `Arrive` and `Read` follow.

**Sender.** The invariant (`IInv`) is about one record: its type, the scoreboard
predicate `BufferOK` (`Placed`, the flags describe the list of sent segments;
`Counted`, the totals are the cardinalities of the flag sets), the window limit,
`recover <= SND.NXT`, the order of the two byte counters, and a running timer while
anything is outstanding. `TcpTxBufferProofs` proves that each of the scoreboard's
operators keeps `BufferOK`; `MaxIsMember` and `MinIsMember` there are what `Update`
and `NextSeg` need. `Good(st, n)` extends the invariant to the middle of a handler:
`n` is SND.NXT at its start, and what has been sent so far is new segments from `n`
on, in order, and missing old ones. Two facts are less obvious. `DoRetransmit` falls
back to the head of the list, so it must never be called with nothing
outstanding: both callers know that something above the ACK was sent. And
a timeout stops the timer before it sends, so `TimerRuns` has to show that the send
cannot fail: with everything not SACKed marked lost, the totals say that nothing is
in flight (`ResendRestartsTimer`), which relies on `TotalsCorrect`.

`RecoveryPointCorrect` is proved on top of `IInv`: sending and counting leave the
point alone (`Stays`); an ACK first moves the head, possibly past the point
(`Passed`), and `ProcessAck` then leaves the episode or keeps the point ahead
(`Ahead`). `ReductionsArePerWindow` uses that point: in CWR it is where SND.NXT was at
the reduction, an ECE starts another one only outside CWR, and an echo that was
answered is at or below the head (`EchoReached`). `CwrIsPerWindow` follows the segment
that carries CWR through every operator that sends (`CwrOnce`).

**Window.** The invariant `Resting` is about the record between two events; `Before` and
`After` are what is left of it in an ACK, before and after the window is adapted.
The heart is that in CWR the bytes in flight are what was outstanding when the
reduction began and what was sent since (`NotLost`), so that all that is delivered in
one reduction is at most twice the buffer, and by `BufferFits` `m_prrDelivered` does not wrap.
The share is used only with a threshold below the flight size it divides by, which is
therefore not zero. The product in the share may wrap all the same (section 6); it is
then smaller, and the share no more than what was delivered either way (`ShareIsLess`),
which is why `ReductionSendsWhatLeaves` holds.

**Connection.** The type is proved handler by handler; no counter of retries passes
zero because `SendEmptyPacket` and `LastAckTimeout` give up first.
`EcnInv` says that for one value `on` both sockets and every segment in the network,
old copies included, say the same of the client's offer; it has to cover every state
because a SYN or a SYN|ACK can arrive in any. With a client that offers ECN and a
server that has it off the agreement does not hold (section 6).
`FinInv` is about the other half of the sequence numbers: the numbers of a socket suit
its state (`InOrder`), so an acknowledgment of 2 or more acknowledges a FIN and is
sent only by who accepted one; the network, old copies included, holds no other. Each
handler moves on to FIN_WAIT_2 or TIME_WAIT only for such a segment (`Earned`), which
takes a case for each of the ways a FIN and its acknowledgment can cross.

**Interface.** `DevOK` is the invariant of the device and `Accounts` of the wrapping
counters; the bytes in a queue are a recursive sum, and two lemmas say what
appending to it and taking from it do. That `Posdiff` may come out either way does not
matter for safety as long as the queue is within a bound the counters hold
(`Fits`, `NotOverdrawn`). `Awake` is why no wake-up is missing: a disc that still has
packets after its run was started by a callback (a run that IP starts on a device that
is not stopped has one packet to send), and it was woken with room for little more than
one packet of MTU size, which its quota outlasts. Without that (`QuotaAssumption`; a
quota of 1 in a queue counted in bytes breaks it) the `\todo` in `Run`, which
schedules nothing when the quota is used up, strands packets. With queue limits the
room a disc is woken with may be the whole limit, so the theorem assumes `LimitsFit`: a
quota of the smallest packets is more than the largest limit, and twice that limit and
a packet fit the counters. The second is true of 32-bit counters; the first is not of
the default limits (section 6).

**Only model-checked:** the liveness properties (`EventuallyAcked`, `SentIsSettled`,
`AttemptsEnd`, `DiscDrains`), because the prover does not reason about fairness and
`ENABLED`. Every invariant, action property and refinement of the passing runs is a theorem, four of
the receiver's for data in one direction, `ImplementsFifo` without device headers, and
the window's for buffers whose double fits the word.

## 6. Where the code departs from its own statements

With a run that ends in a counterexample (`findings` in `PROJECT.json` quotes the lines):

* `duplex_eventually_acked`: in a socket that also receives pure ACKs, a flush
  cancels the delayed-ACK timer and nothing starts it again; the segment
  received last is never acknowledged.
* `segments_are_not_empty`: with the advertised window exactly full, `NextSeg`
  succeeds with an empty range and `SendDataPacket` dereferences a null item. It
  needs a sent list as long as the window, of which SACKed or lost segments leave
  room in flight, with unsent data behind it and nothing lost left to resend.
* `window_stalls`: `GetSsThresh` has no floor of a segment, so after a timeout an echo
  can leave a window below one segment with everything acknowledged; data written
  then is never sent, because no timer runs and no ACK can come.

Met while modelling, and visible in the definitions; no run is kept for them:

* `FlushDelayedACK` acknowledges all held bytes except the last segment of the old
  CE state, not all of them (`tcp-dctcp-my.cc:166` and 187-188).
* A CE mark on a segment not above `m_ecnCESeq`, retransmitted or reordered, is
  handled as the absence of a mark (`tcp-socket-base.cc:1161`).
* An ACK that ends CWR and brings new SACK blocks enters DISORDER with duplicate
  ACKs counted in CWR; the assertion at `tcp-socket-base.cc:1685` fails.
* The comment, the assertion and a guard at `tcp-socket-base.cc:1711-1730` expect a sender
  in DISORDER with `m_recoverActive` set, after a timeout and an ACK below `m_recover`.
  In the code such an ACK leaves the sender in LOSS, and the ACK that ends an episode
  clears `m_recoverActive`: between two events an active point means RECOVERY, LOSS or
  CWR (`Ahead` in `DctcpSenderProofs`). DISORDER with an active point occurs only inside
  the ACK of the item before, when the CWR it ends began in a loss episode.
* The product `m_prrDelivered * m_ssThresh` (`tcp-prr-recovery.cc:94`) wraps in 32 bits with
  an ordinary buffer of 128 KiB (37400 * 115000 is more than 2^32); the share is then too
  small, and the window with it. The instance of `window` wraps as well (16 * 10 against
  128). No property excludes a share that is too small.
* `DupAck` asks whether the segment after the head is lost, where the comment wants
  the head (`tcp-socket-base.cc:1735-1739`).
* Retransmissions move SND.NXT back, and with it the end of DCTCP's next
  observation window (`tcp-dctcp-my.cc:260-262`).
* `m_highestSack` moves down when the segment just below it is SACKed later
  (`tcp-tx-buffer.cc:835`, `tcp-tx-buffer.h:611`).
* A loss episode after an ECE reduction allows another ECE reduction in the same
  window, although `tcp-socket-base.cc:1571` says "only once per window";
  `ReducesOncePerWindow` is stated with that exception.
* With ECN on at the client and off at the server, a delayed copy of the SYN, which
  carries CWR and ECE, turns ECN on at the server (`tcp-socket-base.cc:1289`).
* In LAST_ACK a repeated FIN of the peer reads FIN|ACK, as every FIN carries ACK
  (2680), and closes the socket although the peer's repetition shows that its own
  FIN was lost (`tcp-socket-base.cc:2543`, comment at 2539-2542).
* `PeerClose` ignores a FIN segment that begins below the position, with its new
  data (`tcp-socket-base.cc:2562`); `ProcessWait` sets the FIN's position without the
  size of the segment's data (2444), `PeerClose` with it (2568).
* The SACK list is not always one of isolated blocks (`tcp-rx-buffer.h:167`): a
  stored packet embedded in a new one leaves its block in the list beside the larger.
* A wake-up by the queue limits can leave room for more packets than `Run`'s quota: with
  a queue of 10 bytes, packets of 1 and 2, a limit of 6 and a quota of 2, TLC finds a disc
  with packets, not running, that nothing will start (`queue-disc.cc:967`, the `\todo`).
  The default largest limit, 1879048192 bytes (`dynamic-queue-limits.cc:35`), does not
  exclude it.
* The room test of the device queue leaves out the PPP header, so a queue counted in
  bytes accepts a packet of full size and then discards it
  (`net-device-queue-interface.h:356`).

## 7. Not modelled

* Of the modelled components: data together with opening and closing, simultaneous
  open, RST in ESTABLISHED, the persist timer, pacing, RTT estimation, window scaling,
  Reno's guessed SACKs, fast recovery's window, PRR's conservative bound, the
  option-space limit on SACK blocks, adaptive and nonlinear RED, several transmission
  queues and classes, and the receiving side of a device. Alpha is kept as the bounds
  on its fractions, since it is floating point. In FIN_WAIT_1 the FIN is repeated
  without a limit, so no property says that it ends.
* The composition of the two halves over the interface (section 2).
* The event scheduler is taken as given. IP, demultiplexing and the other TCP variants
  are third-party plumbing around the demo.
* `scratch/*.cc` and the tests configure topologies and print traces; they were read
  for how the code is used (reading on receive, delayed ACKs, RED in hard-marking mode).
* Python. By far most of the Python in the tree is generated binding tables
  (`*/bindings/modulegen__*.py`, `callbacks_list.py`), declarations of the C++ API with
  no states and no algorithm; the rest is the build system (`waf-tools`, `wscript`),
  documentation configuration, example scripts and the tools `test.py` (a job queue for
  test programs) and `visualizer` (a viewer). None of it runs in a simulation of DCTCP;
  the program's own logic is the C++ modelled here.
