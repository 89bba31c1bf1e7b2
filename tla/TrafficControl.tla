--------------------------- MODULE TrafficControl ---------------------------
(***************************************************************************)
(* One outgoing interface of a node: TrafficControlLayer::Send, the RED    *)
(* queue disc and QueueDisc::Run, the stop and wake protocol of            *)
(* NetDeviceQueue with its queue limits, and the transmit side of          *)
(* PointToPointNetDevice.                                                  *)
(*                                                                         *)
(* An event of the simulator runs to its end: while the disc runs, only    *)
(* RunStep, the body of the loop in Run, is possible.  The interface has   *)
(* one transmission queue, so the flag Transmit tests is the one           *)
(* DequeuePacket has just tested, and a packet is never requeued.          *)
(*                                                                         *)
(* Sizes are in the unit of the device queue.  In a queue counted in       *)
(* packets every size and Mtu are 1 and Header is 0; in one counted in     *)
(* bytes Header is what PPP adds, which the device's MTU leaves out.       *)
(***************************************************************************)
EXTENDS RedQueueDisc, DynamicQueueLimits

CONSTANTS
  Packets,  \* the packets IP sends: records of an ECN code point and a size
  MinSize,  \* of a packet
  Mtu,      \* NetDevice::GetMtu
  Header,   \* what the device's own header adds to a packet
  DevMax,   \* MaxSize of the device queue
  Quota,    \* m_quota
  Limited   \* queue limits are installed on the device queue

ASSUME PacketAssumption ==
  Packets \subseteq [ecn: {"NotECT", "ECT"}, size: MinSize .. Mtu]
ASSUME DeviceAssumption ==
  /\ MinSize \in Nat \ {0} /\ Mtu \in Nat \ {0} /\ Header \in Nat
  /\ DevMax \in Nat /\ Mtu + Header <= DevMax /\ DevMax < Modulus
  /\ Limited \in BOOLEAN
\* A quota of the smallest packets is as long as the room that makes the device
\* wake the disc: 64 packets and 1500 bytes in the code.
ASSUME QuotaAssumption ==
  Quota \in Nat \ {0} /\ Quota * (MinSize + Header) >= Mtu + 2 * Header

VARIABLES
  disc,   \* RedQueueDisc
  quota,  \* what is left of the quota in Run, 0 when the disc is not running
  dev,    \* the device queue and its NetDeviceQueue
  wire,   \* m_currentPkt, None when m_txMachineState is READY
  wakes   \* scheduled wake callbacks
vars == <<disc, quota, dev, wire, wakes>>

None == [ecn |-> "None", size |-> 0]
Queueable == [ecn: {"NotECT", "ECT", "CE"}, size: MinSize .. Mtu]

SizeInDevice(pkt) == pkt.size + Header
BytesIn(q) == LET sum[i \in 0 .. Len(q)] ==
                    IF i = 0 THEN 0 ELSE sum[i - 1] + SizeInDevice(q[i])
              IN  sum[Len(q)]

-----------------------------------------------------------------------------
(* NetDeviceQueue.  A handler maps the device to the device and the number of
   wake callbacks it schedules. *)

IsStopped(d) == d.byDevice \/ d.byLimits

PacketEnqueuedStopsLate(d, pkt) ==
  LET dql == IF Limited THEN Queued(d.dql, SizeInDevice(pkt)) ELSE d.dql
  IN  [d EXCEPT !.dql = dql,
                !.byLimits = @ \/ (Limited /\ Available(dql) < 0),
                !.byDevice = @ \/ BytesIn(d.q) >= DevMax]

\* PacketEnqueued, with NotifyQueuedBytes.
PacketEnqueued(d, pkt) ==
  LET dql == IF Limited THEN Queued(d.dql, SizeInDevice(pkt)) ELSE d.dql
  IN  [d EXCEPT !.dql = dql,
                !.byLimits = @ \/ (Limited /\ Available(dql) < 0),
                !.byDevice = @ \/ BytesIn(d.q) + Mtu > DevMax]

PacketDequeuedStarts(d, pkt, elapsed, wraps) ==
  LET dql == IF Limited THEN Completed(d.dql, SizeInDevice(pkt), elapsed, wraps)
             ELSE d.dql
      freed == Limited /\ Available(dql) >= 0
      room == BytesIn(d.q) + Mtu <= DevMax
  IN  [dev |-> [d EXCEPT !.dql = dql,
                         !.byLimits = @ /\ ~freed,
                         !.byDevice = @ /\ ~room],
       wakes |-> IF d.byLimits /\ freed THEN 1 ELSE 0]

PacketDequeuedKeepsLimit(d, pkt, elapsed, wraps) ==
  LET dql == IF Limited THEN Completed(d.dql, SizeInDevice(pkt), elapsed, wraps)
             ELSE d.dql
      room == BytesIn(d.q) + Mtu <= DevMax
  IN  [dev |-> [d EXCEPT !.dql = dql, !.byDevice = @ /\ ~room],
       wakes |-> IF d.byDevice /\ room THEN 1 ELSE 0]

\* PacketDequeued, with NotifyTransmittedBytes and Wake: d.q is the queue after
\* the packet left it.
PacketDequeued(d, pkt, elapsed, wraps) ==
  LET dql == IF Limited THEN Completed(d.dql, SizeInDevice(pkt), elapsed, wraps)
             ELSE d.dql
      freed == Limited /\ Available(dql) >= 0
      room == BytesIn(d.q) + Mtu <= DevMax
  IN  [dev |-> [d EXCEPT !.dql = dql,
                         !.byLimits = @ /\ ~freed,
                         !.byDevice = @ /\ ~room],
       wakes |-> (IF d.byLimits /\ freed THEN 1 ELSE 0)
                   + (IF d.byDevice /\ room THEN 1 ELSE 0)]

(* PointToPointNetDevice *)

\* Queue::Dequeue and TransmitStart, with the machine READY.
DequeueToWire(d, elapsed, wraps) ==
  /\ wire' = Head(d.q)
  /\ LET left == PacketDequeued([d EXCEPT !.q = Tail(@)], Head(d.q), elapsed, wraps)
     IN  dev' = left.dev /\ wakes' = wakes + left.wakes

\* Send: PacketDiscarded stops the queue when the packet does not fit.
DeviceSend(pkt, elapsed, wraps) ==
  IF BytesIn(dev.q) + SizeInDevice(pkt) > DevMax
  THEN /\ dev' = [dev EXCEPT !.byDevice = TRUE]
       /\ UNCHANGED <<wire, wakes>>
  ELSE LET queued == PacketEnqueued([dev EXCEPT !.q = Append(@, pkt)], pkt)
       IN  IF wire = None THEN DequeueToWire(queued, elapsed, wraps)
           ELSE dev' = queued /\ UNCHANGED <<wire, wakes>>

-----------------------------------------------------------------------------
(* Events *)

Running == quota > 0

\* TrafficControlLayer::Send: enqueue and run.
Send(pkt) ==
  /\ ~Running
  /\ disc' \in DoEnqueue(disc, pkt)
  /\ quota' = Quota
  /\ UNCHANGED <<dev, wire, wakes>>

RunStepDequeuesFirst(elapsed, wraps) ==
  /\ Running
  /\ IF disc.q = <<>>
     THEN quota' = 0 /\ UNCHANGED <<disc, dev, wire, wakes>>
     ELSE /\ disc' = [disc EXCEPT !.q = Tail(@)]
          /\ IF IsStopped(dev)
             THEN quota' = 0 /\ UNCHANGED <<dev, wire, wakes>>
             ELSE /\ DeviceSend(Head(disc.q), elapsed, wraps)
                  /\ quota' = IF disc'.q = <<>> \/ IsStopped(dev') THEN 0
                              ELSE quota - 1

\* QueueDisc::Restart: DequeuePacket and Transmit, and the test of the quota.
RunStep(elapsed, wraps) ==
  /\ Running
  /\ IF IsStopped(dev) \/ disc.q = <<>>
     THEN quota' = 0 /\ UNCHANGED <<disc, dev, wire, wakes>>
     ELSE /\ DeviceSend(Head(disc.q), elapsed, wraps)
          /\ disc' = [disc EXCEPT !.q = Tail(@)]
          /\ quota' = IF disc'.q = <<>> \/ IsStopped(dev') THEN 0 ELSE quota - 1

\* The wake callback, QueueDisc::Run.
Wake ==
  /\ ~Running
  /\ wakes > 0
  /\ wakes' = wakes - 1
  /\ quota' = Quota
  /\ UNCHANGED <<disc, dev, wire>>

\* Every wake callback was scheduled for the present and a transmission takes
\* time, so it ends with none pending.
TransmitComplete(elapsed, wraps) ==
  /\ ~Running
  /\ wire # None
  /\ wakes = 0
  /\ IF dev.q = <<>>
     THEN wire' = None /\ UNCHANGED <<dev, wakes>>
     ELSE DequeueToWire(dev, elapsed, wraps)
  /\ UNCHANGED <<disc, quota>>

Init ==
  /\ disc = EmptyDisc
  /\ quota = 0
  /\ dev = [q |-> <<>>, byDevice |-> FALSE, byLimits |-> FALSE, dql |-> Reset]
  /\ wire = None
  /\ wakes = 0

Next ==
  \/ \E pkt \in Packets : Send(pkt)
  \/ Wake
  \/ \E elapsed, wraps \in BOOLEAN :
       RunStep(elapsed, wraps) \/ TransmitComplete(elapsed, wraps)

Spec == Init /\ [][Next]_vars

\* Scheduled events run, and the loop in Run ends.  Nothing is assumed of IP.
FairSpec ==
  /\ Spec
  /\ SF_vars(Wake)
  /\ WF_vars(\E elapsed, wraps \in BOOLEAN : RunStep(elapsed, wraps))
  /\ SF_vars(\E elapsed, wraps \in BOOLEAN : TransmitComplete(elapsed, wraps))
-----------------------------------------------------------------------------
(* Properties *)

\* Every variable keeps its type; in particular at most two wake callbacks are
\* ever pending, one for each reason to stop.
TypeOK ==
  /\ disc.q \in Seq(Queueable) /\ Len(disc.q) <= MaxSize
  /\ disc.count \in 0 .. CountCap /\ disc.old \in BOOLEAN
  /\ quota \in 0 .. Quota
  /\ dev.q \in Seq(Queueable) /\ BytesIn(dev.q) <= DevMax
  /\ dev.byDevice \in BOOLEAN /\ dev.byLimits \in BOOLEAN
  /\ dev.dql \in Limits
  /\ wire \in Queueable \cup {None}
  /\ wakes \in 0 .. 2

\* A disc that ran for the last time with packets left was stopped by the device,
\* or a wake callback for it is on its way: no packet waits for the next one to
\* be sent.  The quota is why this is not obvious: Run gives up when it is used
\* up and schedules nothing (the \todo of QueueDisc::Run).
NoLostWake == ~Running /\ disc.q # <<>> => IsStopped(dev) \/ wakes > 0

\* A stopped device queue is woken by its own dequeues only, so it holds a packet
\* to dequeue, and the transmitter is busy with another: queue limits that close
\* on an empty queue would never open.
StoppedIsBusy == /\ IsStopped(dev) => dev.q # <<>>
                 /\ dev.q # <<>> => wire # None

\* The device stops itself whenever it has no room for a packet of MTU size, and
\* only when it has no room for one with its header: whatever was sent while the
\* wake callback was on its way, it neither runs over nor stops too early
\* (NetDeviceQueue::PacketEnqueued, PacketDequeued and PacketDiscarded).
StoppedWhenFull ==
  /\ BytesIn(dev.q) + Mtu > DevMax => dev.byDevice
  /\ dev.byDevice => BytesIn(dev.q) + Mtu + Header > DevMax

\* The queue limits count what is in the device queue, through the wrap of their
\* counters (the assertion of DynamicQueueLimits::Completed).
LimitsCountQueue == Limited => InProgress(dev.dql) = BytesIn(dev.q)

\* From the forced threshold on, no ECN-capable packet is admitted unmarked: what
\* lies that deep in the queue tells its sender so (RedQueueDisc::DoEnqueue).
DeepIsMarked ==
  UseEcn /\ ~UseHardDrop
    => \A i \in ForcedTh + 1 .. Len(disc.q) : i > 2 => disc.q[i].ecn # "ECT"

\* With ECN and no hard drop, an ECN-capable packet is lost to nothing but a full
\* queue: not to the early decision, not to the forced one (DoEnqueue).
CapableIsKept ==
  [][\A pkt \in Packets :
       UseEcn /\ ~UseHardDrop /\ pkt.ecn = "ECT" /\ Len(disc.q) < MaxSize /\ Send(pkt)
         => Len(disc'.q) = Len(disc.q) + 1]_vars

\* As long as there are packets in the disc they keep leaving it, whether or not
\* IP sends more (QueueDisc::Run and the wake callbacks).
DiscDrains == <>[](disc.q # <<>>) => []<><<Len(disc'.q) < Len(disc.q)>>_vars

\* The disc, the device queue and the transmitter together are one FIFO queue
\* that loses packets at its tail only, when no header is added: see MarkingFifo.
Fifo == INSTANCE MarkingFifo WITH
          fifo <- (IF wire = None THEN <<>> ELSE <<wire>>) \o dev.q \o disc.q
ImplementsFifo == Fifo!Spec
=============================================================================
