--------------------------- MODULE DctcpReceiver ---------------------------
(***************************************************************************)
(* The receiving half of an ESTABLISHED DCTCP socket: the receiver side of *)
(* TcpDctcpMy (tcp-dctcp-my.cc) together with the parts of TcpSocketBase   *)
(* and TcpRxBuffer it calls and is called by.                              *)
(*                                                                         *)
(* Data is counted in segments: segment s occupies [s, s + 1).  The        *)
(* application drains the buffer inside the receive callback, as PacketSink*)
(* and the repository's tests do, so every buffered segment above          *)
(* nextRxSeq is out of order.                                              *)
(*                                                                         *)
(* A handler is a pipeline of calls that each change the socket, so the    *)
(* socket is one record and every call is an operator from record to       *)
(* record; an action runs the whole pipeline of one event.                 *)
(***************************************************************************)
EXTENDS Integers, Sequences

CONSTANTS
  MaxSeq,          \* last data segment of the peer
  RcvBuf,          \* m_maxBuffer, in segments
  DelAckMaxCount,  \* m_delAckMaxCount
  CodePoints,      \* ECN code points the network delivers
  FullDuplex       \* the application at this end sends data too

ASSUME SeqAssumption == MaxSeq \in Nat \ {0}
ASSUME RcvBufAssumption == RcvBuf \in Nat \ {0}
ASSUME DelAckAssumption == DelAckMaxCount \in Nat \ {0}
ASSUME CodePointAssumption == CodePoints \subseteq {"NotECT", "ECT", "CE"}
ASSUME DuplexAssumption == FullDuplex \in BOOLEAN

VARIABLE rx
vars == <<rx>>

Seg == 1 .. MaxSeq
SeqNum == 1 .. MaxSeq + 1
\* Once ECN is negotiated AddSocketTags marks every data packet ECT; only a pure
\* ACK of a peer in classic ECN mode travels as Not-ECT.
DataCodePoints == CodePoints \ {"NotECT"}

NoSeq == 0          \* seqDelayedACKValid = false; also m_ecnCESeq before any CE

EcnStates == {"IDLE", "CE_RCVD", "SENDING_ECE", "ECE_RCVD", "CWR_SENT"}
Echoing == {"CE_RCVD", "SENDING_ECE"}

\* An acknowledgment leaving the socket, with the code that sent it.
Senders == {"flush", "data", "timer", "range", "piggyback"}
Acks == [by: Senders, ack: SeqNum, ece: BOOLEAN]

Socket ==
  [received: SUBSET Seg, nextRxSeq: SeqNum,
   CEState: BOOLEAN, holdingDelayedACK: BOOLEAN,
   seqDelayedACK: {NoSeq} \cup SeqNum,
   ecnState: EcnStates, ecnCESeq: {NoSeq} \cup SeqNum,
   delAckCount: 0 .. DelAckMaxCount, delAckEvent: BOOLEAN,
   out: Seq(Acks), acked: SeqNum, unreported: BOOLEAN]

(***************************************************************************)
(* TcpSocketBase::SendEmptyPacket with the ACK flag.  "acked" and          *)
(* "unreported" are history: the highest acknowledgment number sent, and   *)
(* whether data was accepted in CE state since the last ECE was sent.      *)
(***************************************************************************)
SendEmptyPacket(st, by, ece) ==
  [st EXCEPT !.delAckEvent = FALSE,
             !.delAckCount = 0,
             !.out = Append(@, [by |-> by, ack |-> st.nextRxSeq, ece |-> ece]),
             !.acked = IF @ < st.nextRxSeq THEN st.nextRxSeq ELSE @,
             !.unreported = @ /\ ~ece]

\* A data packet carries the ACK and cancels the delayed one in the same way,
\* but never has ECE.  cwr is the outcome of
\* m_ecnEchoSeq > m_ecnCWRSeq && !isRetransmission.
SendDataPacket(st, cwr) ==
  LET sent == SendEmptyPacket(st, "piggyback", FALSE)
  IN  IF cwr /\ st.ecnState = "ECE_RCVD"
      THEN [sent EXCEPT !.ecnState = "CWR_SENT"] ELSE sent

\* The ACK of ReceivedData and DelAckTimeout: with ECE while in an echoing state.
AckWithEcho(st, by) ==
  IF st.ecnState \in Echoing
  THEN [SendEmptyPacket(st, by, TRUE) EXCEPT !.ecnState = "SENDING_ECE"]
  ELSE SendEmptyPacket(st, by, FALSE)

-----------------------------------------------------------------------------
(* TcpDctcpMy, receiver side *)

\* Faulty variants of a definition, each written just before it, are what the
\* properties are measured against; nothing in the specification uses them.
FlushDelayedACKNoRestore(st, setECE) ==
  IF st.holdingDelayedACK /\ st.seqDelayedACK # NoSeq
  THEN SendEmptyPacket([st EXCEPT !.nextRxSeq = st.seqDelayedACK], "flush", setECE)
  ELSE st

FlushDelayedACK(st, setECE) ==
  IF st.holdingDelayedACK /\ st.seqDelayedACK # NoSeq
  THEN LET rewound == [st EXCEPT !.nextRxSeq = st.seqDelayedACK]
       IN  [SendEmptyPacket(rewound, "flush", setECE)
              EXCEPT !.nextRxSeq = st.nextRxSeq]
  ELSE st

UpdateDelayedACKPastPacket(st) == [st EXCEPT !.seqDelayedACK = st.nextRxSeq + 1]

UpdateDelayedACKOnce(st) ==
  IF st.seqDelayedACK = NoSeq THEN [st EXCEPT !.seqDelayedACK = st.nextRxSeq] ELSE st

UpdateDelayedACK(st) == [st EXCEPT !.seqDelayedACK = st.nextRxSeq]

CEStateOn(st) ==
  LET flushed == IF st.CEState THEN st ELSE FlushDelayedACK(st, FALSE)
  IN  [UpdateDelayedACK(flushed) EXCEPT !.CEState = TRUE, !.ecnState = "CE_RCVD"]

CEStateOffKeepsSending(st) ==
  LET flushed == IF st.CEState THEN FlushDelayedACK(st, TRUE) ELSE st
  IN  [UpdateDelayedACK(flushed)
         EXCEPT !.CEState = FALSE,
                !.ecnState = IF @ = "CE_RCVD" THEN "IDLE" ELSE @]

CEStateOffFlushesPlain(st) ==
  LET flushed == IF st.CEState THEN FlushDelayedACK(st, FALSE) ELSE st
  IN  [UpdateDelayedACK(flushed)
         EXCEPT !.CEState = FALSE,
                !.ecnState = IF @ \in Echoing THEN "IDLE" ELSE @]

CEStateOff(st) ==
  LET flushed == IF st.CEState THEN FlushDelayedACK(st, TRUE) ELSE st
  IN  [UpdateDelayedACK(flushed)
         EXCEPT !.CEState = FALSE,
                !.ecnState = IF @ \in Echoing THEN "IDLE" ELSE @]

CwndEvent(st, event) ==
  CASE event = "DELAYED_ACK"     -> [st EXCEPT !.holdingDelayedACK = TRUE]
    [] event = "NON_DELAYED_ACK" -> [st EXCEPT !.holdingDelayedACK = FALSE]
    [] event = "ECN_IS_CE"       -> CEStateOn(st)
    [] event = "ECN_NO_CE"       -> CEStateOff(st)

-----------------------------------------------------------------------------
(* TcpRxBuffer *)

\* The first sequence number at or after n that the buffer does not hold.
FirstGap(n, held) ==
  CHOOSE k \in n .. MaxSeq + 1 : k \notin held /\ n .. k - 1 \subseteq held

MaxRxSequence(st) == st.nextRxSeq + RcvBuf

\* Add returns false when nothing of the segment is left after trimming.
CanAdd(st, s) == s >= st.nextRxSeq /\ s \notin st.received

Add(st, s) ==
  [st EXCEPT !.received = @ \cup {s},
             !.nextRxSeq = FirstGap(@, st.received \cup {s}),
             !.unreported = @ \/ st.CEState]

-----------------------------------------------------------------------------
(* TcpSocketBase *)

OutOfRange(st, s) == s + 1 < st.nextRxSeq \/ MaxRxSequence(st) <= s

\* ForwardUp: the IP header's code point becomes a congestion event.
EcnEvent(st, s, cp) ==
  IF cp = "CE" /\ st.ecnCESeq < s
  THEN CwndEvent([st EXCEPT !.ecnCESeq = s, !.ecnState = "CE_RCVD"], "ECN_IS_CE")
  ELSE IF cp # "NotECT" THEN CwndEvent(st, "ECN_NO_CE") ELSE st

\* DoForwardUp: CWR ends the echo unless this very segment was marked.
CwrFlag(st, cwr) ==
  IF cwr /\ st.ecnState # "CE_RCVD" THEN [st EXCEPT !.ecnState = "IDLE"] ELSE st

\* ReceivedAck: what the acknowledgment in a segment does to the ECN state
\* this socket also uses as a receiver.
ReceivedAck(st, a) ==
  IF a.new /\ a.ece
  THEN [st EXCEPT !.ecnState = "ECE_RCVD"]
  ELSE IF st.ecnState = "ECE_RCVD" /\ ~a.ece
       THEN [st EXCEPT !.ecnState = "IDLE"] ELSE st

\* A gap in the buffer, or this segment filled one: acknowledge at once.
GapOrFilled(st, before) ==
  \/ \E k \in st.received : k > st.nextRxSeq
  \/ st.nextRxSeq > before.nextRxSeq + 1

ReceivedData(st, s) ==
  LET added == Add(st, s)
      count == added.delAckCount + 1
  IN  IF ~CanAdd(st, s)
      THEN AckWithEcho(st, "data")
      ELSE IF GapOrFilled(added, st)
      THEN AckWithEcho(CwndEvent(added, "NON_DELAYED_ACK"), "data")
      ELSE IF count >= DelAckMaxCount
      THEN AckWithEcho(CwndEvent([added EXCEPT !.delAckCount = 0,
                                               !.delAckEvent = FALSE],
                                 "NON_DELAYED_ACK"), "data")
      ELSE CwndEvent([added EXCEPT !.delAckCount = count, !.delAckEvent = TRUE],
                     "DELAYED_ACK")

\* SendPendingData at the end of ReceivedAck: zero or more data packets, and
\* only in a socket whose application sends.
SendPendingData(st) ==
  {st} \cup IF FullDuplex THEN {SendDataPacket(st, cwr) : cwr \in BOOLEAN} ELSE {}

\* DupAck and the partial ACK of ProcessAck may retransmit before ReceivedAck
\* looks at the segment's data; a retransmission never answers the echo.
DoRetransmit(st) ==
  {st} \cup IF FullDuplex THEN {SendDataPacket(st, FALSE)} ELSE {}

\* The acknowledgments a segment can carry, as ReceivedAck tells them apart.
AckInfo == IF FullDuplex THEN [new: BOOLEAN, ece: BOOLEAN]
                         ELSE {[new |-> FALSE, ece |-> FALSE]}
-----------------------------------------------------------------------------
\* Every handler starts with nothing sent yet.
Idle == [rx EXCEPT !.out = <<>>]

ReceiveDataEventLast(s, cp, cwr, a) ==
  IF OutOfRange(rx, s)
  THEN rx' = SendEmptyPacket(Idle, "range", FALSE)
  ELSE \E st \in DoRetransmit(ReceivedAck(Idle, a)) :
         rx' \in SendPendingData(CwrFlag(EcnEvent(ReceivedData(st, s), s, cp), cwr))

ReceiveData(s, cp, cwr, a) ==
  IF OutOfRange(rx, s)
  THEN rx' = SendEmptyPacket(Idle, "range", FALSE)
  ELSE LET seen == CwrFlag(EcnEvent(Idle, s, cp), cwr)
       IN  \E st \in DoRetransmit(ReceivedAck(seen, a)) :
             rx' \in SendPendingData(ReceivedData(st, s))

\* A data segment whose acknowledgment is below SND.UNA: ProcessEstablished
\* ignores all of it, after the ECN event.
ReceiveStaleData(s, cp, cwr) ==
  /\ FullDuplex
  /\ ~OutOfRange(rx, s)
  /\ rx' = CwrFlag(EcnEvent(Idle, s, cp), cwr)

\* A segment without payload; s is the peer's next sequence number.
ReceivePureAck(s, cp, a) ==
  /\ FullDuplex
  /\ rx' \in SendPendingData(ReceivedAck(EcnEvent(Idle, s, cp), a))

DelAckTimeout ==
  /\ rx.delAckEvent
  /\ rx' = AckWithEcho(CwndEvent([Idle EXCEPT !.delAckEvent = FALSE,
                                              !.delAckCount = 0],
                                 "DELAYED_ACK"), "timer")

\* The application writes, or a retransmission timer fires.
SendData(cwr) ==
  /\ FullDuplex
  /\ rx' = SendDataPacket(Idle, cwr)

\* After the handshake: this end opened actively (no ECN event was raised,
\* its ECN state was disabled), or passively, when the handshake's last ACK
\* (sequence number 1) was delivered as one of the code points.
AfterHandshake(ceState, seqDelayed, ecn, ceSeq) ==
  [received |-> {}, nextRxSeq |-> 1,
   CEState |-> ceState, holdingDelayedACK |-> FALSE, seqDelayedACK |-> seqDelayed,
   ecnState |-> ecn, ecnCESeq |-> ceSeq,
   delAckCount |-> DelAckMaxCount, delAckEvent |-> FALSE,
   out |-> <<>>, acked |-> 1, unreported |-> FALSE]

Init ==
  \/ rx = AfterHandshake(FALSE, NoSeq, "IDLE", NoSeq)
  \/ "ECT" \in CodePoints /\ rx = AfterHandshake(FALSE, 1, "IDLE", NoSeq)
  \/ "CE" \in CodePoints /\ rx = AfterHandshake(TRUE, 1, "CE_RCVD", 1)

Next ==
  \/ \E s \in Seg, cp \in DataCodePoints, cwr \in BOOLEAN, a \in AckInfo :
       ReceiveData(s, cp, cwr, a)
  \/ \E s \in Seg, cp \in DataCodePoints, cwr \in BOOLEAN :
       ReceiveStaleData(s, cp, cwr)
  \/ \E s \in SeqNum, cp \in CodePoints, a \in AckInfo : ReceivePureAck(s, cp, a)
  \/ DelAckTimeout
  \/ \E cwr \in BOOLEAN : SendData(cwr)

Spec == Init /\ [][Next]_vars

\* The simulator fires every scheduled event that is not cancelled.
FairSpec == Spec /\ WF_vars(DelAckTimeout)
-----------------------------------------------------------------------------
(* Properties *)

\* The socket record keeps its type; in particular seqDelayedACK never leaves
\* the sequence space and the delayed-ACK count never exceeds its maximum.
TypeOK == rx \in Socket

\* The flush acknowledges by moving the receive buffer's next sequence number
\* back and then restoring it; no event, in any order of arrivals, may leave it
\* anywhere but at the first byte that has not been received
\* (FlushDelayedACK, TcpRxBuffer::Add).
RcvNxtIsFirstGap ==
  rx.nextRxSeq \notin rx.received /\ 1 .. rx.nextRxSeq - 1 \subseteq rx.received

\* No acknowledgment ever covers a segment that did not arrive.
AckedIsReceived == 1 .. rx.acked - 1 \subseteq rx.received

\* The delayed-ACK rule survives the flush, which cancels the timer and resets
\* the count without acknowledging the segment received last: never more than
\* DelAckMaxCount segments are in order and unacknowledged ("Number of packets
\* to wait before sending a TCP ack"), under any pattern of marks.
DelayBound == rx.nextRxSeq - rx.acked <= DelAckMaxCount

\* Whatever is received in order and not acknowledged has a timer running for
\* it: the cancellation hidden in SendEmptyPacket never strands held data.
HeldHasTimer == rx.acked < rx.nextRxSeq => rx.delAckEvent

\* The two copies of the CE state, the congestion control's and the socket's,
\* agree between events (CEStateOn, CEStateOff, the CWR rule of DoForwardUp and
\* the ECN_SENDING_ECE assignments after each ACK).
CEStatesAgree == rx.CEState <=> rx.ecnState \in Echoing

\* A CE episode never ends silently: when CE state goes off with marked data not
\* yet echoed, the same event sends an ACK with ECE.
EpisodeEchoed ==
  [][rx.unreported /\ ~rx'.CEState
       => \E i \in DOMAIN rx'.out : rx'.out[i].ece]_vars

\* Every ACK of a data arrival or of the timer echoes the CE state the socket is
\* left in, and a flush the opposite one.
EchoMatchesState ==
  [][\A i \in DOMAIN rx'.out :
       LET sent == rx'.out[i]
       IN  /\ sent.by \in {"data", "timer"} => sent.ece = rx'.CEState
           /\ sent.by = "flush" => sent.ece # rx'.CEState]_vars

\* Everything received in order is eventually acknowledged, with no further help
\* from the peer.
EventuallyAcked == \A s \in Seg : rx.nextRxSeq > s ~> rx.acked > s

\* Seen from outside, the receiver is a delaying cumulative acknowledger: flushes,
\* rewound sequence numbers and ECN events are all stuttering or an advance of
\* the acknowledgment point.
Service == INSTANCE CumulativeAck WITH
             received <- rx.received, acked <- rx.acked, MaxDelayed <- DelAckMaxCount
ImplementsService == Service!Spec
=============================================================================
