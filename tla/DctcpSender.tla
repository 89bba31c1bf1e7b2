---------------------------- MODULE DctcpSender ----------------------------
(***************************************************************************)
(* The sending half of an ESTABLISHED DCTCP socket: the congestion state   *)
(* machine of TcpSocketBase, the counters of TcpDctcpMy::PktsAcked and the *)
(* scoreboard of TcpTxBuffer.  The peer only receives.                     *)
(*                                                                         *)
(* The windows are abstracted: how much SendPendingData sends is any       *)
(* number of segments the advertised window allows, so the behaviours here *)
(* include those of every congestion window.  Assertions are not guards:   *)
(* the model goes on where an assertion fails, as an optimized build does. *)
(*                                                                         *)
(* The network is one action: any ACK a peer can have sent arrives, with   *)
(* any SACK blocks and ECE, as often and as late as it likes.              *)
(***************************************************************************)
EXTENDS TcpTxBuffer, Sequences

CONSTANTS
  DataRetries,  \* m_dataRetries
  MaxBytes,     \* bound: bytesACKedAll is not driven higher by repeated ACKs
  Echoes        \* values of ECE on the ACKs that arrive

ASSUME RetriesAssumption == DataRetries \in Nat
ASSUME BytesAssumption == MaxBytes \in Nat \ {0}
ASSUME EchoAssumption == Echoes \subseteq BOOLEAN

VARIABLE tx
vars == <<tx>>

CongStates == {"OPEN", "DISORDER", "CWR", "RECOVERY", "LOSS"}
EcnStates == {"IDLE", "ECE_RCVD", "CWR_SENT"}

\* A data segment leaving the socket: whether it is a retransmission, and its CWR
\* flag.
Segments == [seq: Seg, retrans: BOOLEAN, cwr: BOOLEAN]

\* "fault" is the dereference of the null item CopyFromSequence returns for an
\* empty range; "cwrPoint" is history: m_highTxMark when EnterCwr last ran.
Socket ==
  [buf: Buffer,
   cong: CongStates, recover: {None} \cup SeqNum, recoverActive: BOOLEAN,
   dupAckCount: Nat, firstPartial: BOOLEAN,
   ecn: EcnStates, echoSeq: {None} \cup SeqNum, cwrSeq: {None} \cup Seg,
   nextTx: SeqNum, seqNextSend: {None} \cup SeqNum,
   bytesACKedAll: Nat, bytesACKedECE: Nat,
   retx: BOOLEAN, retries: 0 .. DataRetries, closed: BOOLEAN,
   out: Seq(Segments), fault: BOOLEAN, cwrPoint: {None} \cup SeqNum]

-----------------------------------------------------------------------------
(* Sending *)

\* Faulty variants, each written just before the definition it stands in for,
\* are what the properties are measured against.
SendDataPacketAlwaysCwr(st, seq) ==
  LET first == seq = st.buf.nxt
      cwr == first /\ st.ecn = "ECE_RCVD"
  IN  [st EXCEPT !.buf = CopyFromSequence(@, seq),
                 !.ecn = IF cwr THEN "CWR_SENT" ELSE @,
                 !.cwrSeq = IF cwr THEN seq ELSE @,
                 !.nextTx = seq,
                 !.retx = TRUE,
                 !.out = Append(@, [seq |-> seq, retrans |-> ~first, cwr |-> cwr])]

SendDataPacketTimesNewData(st, seq) ==
  LET first == seq = st.buf.nxt
      cwr == first /\ st.ecn = "ECE_RCVD" /\ st.echoSeq > st.cwrSeq
  IN  [st EXCEPT !.buf = CopyFromSequence(@, seq),
                 !.ecn = IF cwr THEN "CWR_SENT" ELSE @,
                 !.cwrSeq = IF cwr THEN seq ELSE @,
                 !.nextTx = seq,
                 !.retx = @ \/ first,
                 !.out = Append(@, [seq |-> seq, retrans |-> ~first, cwr |-> cwr])]

\* m_history, pacing, FIN and the delayed ACK that data cancels are left out.
SendDataPacket(st, seq) ==
  LET first == seq = st.buf.nxt
      cwr == first /\ st.ecn = "ECE_RCVD" /\ st.echoSeq > st.cwrSeq
  IN  [st EXCEPT !.buf = CopyFromSequence(@, seq),
                 !.ecn = IF cwr THEN "CWR_SENT" ELSE @,
                 !.cwrSeq = IF cwr THEN seq ELSE @,
                 !.nextTx = seq,
                 !.retx = TRUE,
                 !.out = Append(@, [seq |-> seq, retrans |-> ~first, cwr |-> cwr])]

DoRetransmit(st) ==
  LET next == NextSeg(st.buf, FALSE)
  IN  IF next = None THEN SendDataPacket(st, st.buf.una)
      ELSE IF SegLen(st.buf, next) = 0 THEN [st EXCEPT !.fault = TRUE]
      ELSE SendDataPacket(st, next)

\* One turn of SendPendingData's loop, with a window that allows it.
SendNext(st) ==
  LET next == NextSeg(st.buf, st.cong = "RECOVERY")
  IN  IF st.fault \/ Size(st.buf) = 0 \/ BytesInFlight(st.buf) >= RWnd \/ next = None
      THEN st
      ELSE IF SegLen(st.buf, next) = 0 THEN [st EXCEPT !.fault = TRUE]
      ELSE [SendDataPacket(st, next) EXCEPT !.nextTx = next + 1]

\* What SendPendingData can do.  Bound: it sends at most two segments per call.
SendPendingData(st) == {st, SendNext(st), SendNext(SendNext(st))}

-----------------------------------------------------------------------------
(* Congestion state *)

EnterCwrKeepsRecover(st) == [st EXCEPT !.cong = "CWR", !.cwrPoint = st.buf.nxt]

EnterCwr(st) ==
  [st EXCEPT !.cong = "CWR", !.recover = st.buf.nxt, !.cwrPoint = st.buf.nxt]

EnterRecovery(st) ==
  DoRetransmit([st EXCEPT !.buf = IF IsLost(@, @.una) THEN @ ELSE MarkHeadAsLost(@),
                          !.recover = st.buf.nxt,
                          !.recoverActive = TRUE,
                          !.cong = "RECOVERY"])

DupAck(st, a) ==
  LET counted == IF st.cong = "RECOVERY" THEN st ELSE [st EXCEPT !.dupAckCount = @ + 1]
      now == IF st.cong = "OPEN" THEN [counted EXCEPT !.cong = "DISORDER"] ELSE counted
      lossFound == \/ /\ now.dupAckCount = DupThresh
                      /\ a >= now.recover \/ ~now.recoverActive
                   \/ IsLost(now.buf, a + 1)
  IN  IF st.cong = "LOSS" THEN st
      ELSE IF now.cong = "DISORDER" /\ lossFound THEN EnterRecovery(now)
      ELSE now

PktsAckedKeepsEce(st, a, segs) ==
  LET all == st.bytesACKedAll + segs
      ece == st.bytesACKedECE + (IF st.ecn = "ECE_RCVD" THEN segs ELSE 0)
      end == IF st.seqNextSend = None THEN st.nextTx ELSE st.seqNextSend
  IN  IF a < end
      THEN [st EXCEPT !.bytesACKedAll = all, !.bytesACKedECE = ece, !.seqNextSend = end]
      ELSE [st EXCEPT !.bytesACKedAll = 0, !.bytesACKedECE = ece, !.seqNextSend = st.nextTx]

\* TcpDctcpMy::PktsAcked; m_lastAckedSeq = a.  alpha itself is not kept: it is a
\* weighted mean of fractions bytesACKedECE / bytesACKedAll.
PktsAcked(st, a, segs) ==
  LET all == st.bytesACKedAll + segs
      ece == st.bytesACKedECE + (IF st.ecn = "ECE_RCVD" THEN segs ELSE 0)
      end == IF st.seqNextSend = None THEN st.nextTx ELSE st.seqNextSend
  IN  IF a < end
      THEN [st EXCEPT !.bytesACKedAll = all, !.bytesACKedECE = ece, !.seqNextSend = end]
      ELSE [st EXCEPT !.bytesACKedAll = 0, !.bytesACKedECE = 0, !.seqNextSend = st.nextTx]

NewAck(st, a, resetRTO) ==
  [st EXCEPT !.retries = DataRetries,
             !.retx = Size(st.buf) # 0 /\ (resetRTO \/ @),
             !.nextTx = IF @ < a THEN a ELSE @]

-----------------------------------------------------------------------------
(* ReceivedAck, in the order of its steps *)

LeaveCwrAtOnce(st, a) == IF st.cong = "CWR" THEN [st EXCEPT !.cong = "OPEN"] ELSE st

LeaveCwr(st, a) ==
  IF st.cong = "CWR" /\ a > st.recover THEN [st EXCEPT !.cong = "OPEN"] ELSE st

EcnEcho(st, a, isNew, ece) ==
  IF isNew /\ ece
  THEN IF st.echoSeq >= a THEN st
       ELSE LET echo == [st EXCEPT !.echoSeq = a, !.ecn = "ECE_RCVD"]
            IN  IF st.cong = "CWR" THEN echo ELSE EnterCwr(echo)
  ELSE IF st.ecn = "ECE_RCVD" /\ ~ece THEN [st EXCEPT !.ecn = "IDLE"]
  ELSE st

\* ProcessAck below the recovery point: a partial ACK of a fast recovery.
PartialAck(st, a) ==
  LET resent == IF IsRetransmittedDataAcked(st.buf, a) THEN st ELSE DoRetransmit(st)
  IN  [NewAck(PktsAcked(resent, a, 1), a, st.firstPartial) EXCEPT !.firstPartial = FALSE]

LeaveRecovery(st, a, segs) ==
  [PktsAcked(st, a, segs)
     EXCEPT !.cong = "OPEN", !.dupAckCount = 0, !.firstPartial = TRUE]

LeaveLoss(st, a) ==
  [PktsAcked(st, a, a - st.recover) EXCEPT !.cong = "OPEN", !.firstPartial = TRUE]

\* In DISORDER each duplicate ACK has been counted as one segment already.
AckInDisorder(st, a, segs, oldDupAckCount, isDup) ==
  LET counted == IF segs >= oldDupAckCount
                 THEN PktsAcked(st, a, segs - oldDupAckCount) ELSE st
  IN  IF isDup THEN counted ELSE [counted EXCEPT !.cong = "OPEN"]

\* ProcessAck in OPEN and DISORDER, and the end of RECOVERY and LOSS.
\* oldDupAckCount is the count before this ACK.
CompleteAck(st, a, segs, oldDupAckCount, isDup) ==
  LET done ==
        CASE st.cong = "OPEN" -> PktsAcked(st, a, segs)
          [] st.cong = "DISORDER" -> AckInDisorder(st, a, segs, oldDupAckCount, isDup)
          [] st.cong = "RECOVERY" -> LeaveRecovery(st, a, segs)
          [] st.cong = "LOSS" -> LeaveLoss(st, a)
      point == [done EXCEPT !.recoverActive = @ /\ a < done.recover]
  IN  IF point.cong = "OPEN" THEN NewAck(point, a, TRUE) ELSE point

\* ProcessAck of an ACK that moves the head.
AdvanceAck(st, a, segs, oldDupAckCount, isDup) ==
  IF st.cong = "RECOVERY" /\ a < st.recover THEN PartialAck(st, a)
  ELSE IF st.cong = "CWR" \/ (st.cong = "LOSS" /\ a < st.recover)
  THEN NewAck(PktsAcked(st, a, segs), a, TRUE)
  ELSE CompleteAck(st, a, segs, oldDupAckCount, isDup)

ProcessAck(st, a, head, isDup) ==
  LET dup == IF isDup THEN DupAck(st, a) ELSE st
  IN  IF a > head
      THEN AdvanceAck(IF isDup THEN dup ELSE [dup EXCEPT !.dupAckCount = 0],
                      a, a - head, st.dupAckCount, isDup)
      ELSE IF a = dup.buf.nxt THEN dup
      ELSE PktsAcked(dup, a, 1)

ReceivedAck(st, a, blocks, ece) ==
  LET head == st.buf.una
      isDup == NewlySacked(st.buf, blocks) # {}
      scored == [st EXCEPT !.buf = DiscardUpTo(Update(@, blocks), a)]
      echoed == EcnEcho(LeaveCwr(scored, a), a, a > head, ece)
  IN  SendPendingData(ProcessAck(echoed, a, head, isDup))

-----------------------------------------------------------------------------
(* Actions *)

Running == ~tx.closed /\ ~tx.fault
Idle == [tx EXCEPT !.out = <<>>]

\* Send, and the SendPendingData event it schedules.
Write ==
  /\ Running
  /\ tx.buf.tail <= MaxSeq
  /\ tx' \in SendPendingData([Idle EXCEPT !.buf = Add(@)])

\* ProcessEstablished of a pure ACK.  One below the head is ignored; a peer never
\* acknowledges a segment it has SACKed as the next it expects.
ReceiveAck ==
  /\ Running
  /\ \E a \in (tx.buf.una .. tx.buf.nxt) \ tx.buf.sacked, ece \in Echoes :
       \E blocks \in SUBSET (a + 1 .. tx.buf.nxt - 1) :
         /\ tx.bytesACKedAll < MaxBytes \/ a > tx.buf.una \/ blocks \ tx.buf.sacked # {}
         /\ tx' \in ReceivedAck(Idle, a, blocks, ece)

\* What a timeout with retries left does before it sends.
Expire(st) ==
  [st EXCEPT !.retries = @ - 1,
             !.dupAckCount = 0,
             !.buf = SetSentListLost(@),
             !.recover = st.buf.nxt,
             !.recoverActive = TRUE,
             !.cong = "LOSS"]

ReTxTimeoutNeverGivesUp ==
  /\ Running
  /\ tx.retx
  /\ LET expired == [Idle EXCEPT !.retx = FALSE]
     IN  tx' = IF Size(tx.buf) = 0 THEN expired ELSE SendNext(Expire(expired))

\* Nothing is in flight after SetSentListLost, and the window is one segment.
ReTxTimeout ==
  /\ Running
  /\ tx.retx
  /\ LET expired == [Idle EXCEPT !.retx = FALSE]
     IN  tx' = IF Size(tx.buf) = 0 THEN expired
               ELSE IF tx.retries = 0 THEN [expired EXCEPT !.closed = TRUE]
               ELSE SendNext(Expire(expired))

Init ==
  tx = [buf |-> EmptyBuffer, cong |-> "OPEN", recover |-> None, recoverActive |-> FALSE,
        dupAckCount |-> 0, firstPartial |-> TRUE,
        ecn |-> "IDLE", echoSeq |-> None, cwrSeq |-> None,
        nextTx |-> 1, seqNextSend |-> None, bytesACKedAll |-> 0, bytesACKedECE |-> 0,
        retx |-> FALSE, retries |-> DataRetries, closed |-> FALSE,
        out |-> <<>>, fault |-> FALSE, cwrPoint |-> None]

Next == Write \/ ReceiveAck \/ ReTxTimeout

Spec == Init /\ [][Next]_vars

\* The retransmission timer is a scheduled event: the simulator runs it unless it
\* is cancelled or moved.  Nothing is assumed of the network or the application.
FairSpec == Spec /\ WF_vars(ReTxTimeout)

-----------------------------------------------------------------------------
(* Properties *)

\* Every field keeps its type; in particular every segment sent exists.
TypeOK == tx \in Socket

\* The totals BytesInFlight is computed from equal the flags they count, although
\* each is kept by increments spread over six functions.
CountersInSync ==
  /\ tx.buf.sackedOut = Cardinality(tx.buf.sacked)
  /\ tx.buf.lostOut = Cardinality(tx.buf.lost)
  /\ tx.buf.retransOut = Cardinality(tx.buf.retrans)

\* The scoreboard describes the list of sent segments: flags are only on listed
\* segments, no segment is both lost and SACKed, and the head is not SACKed
\* (TcpTxBuffer::ConsistencyCheck and the assertions of Update and DiscardUpTo).
ScoreboardSound ==
  /\ tx.buf.sacked \cup tx.buf.lost \cup tx.buf.retrans \subseteq Sent(tx.buf)
  /\ tx.buf.sacked \cap tx.buf.lost = {}
  /\ tx.buf.una \notin tx.buf.sacked
  /\ tx.buf.una <= tx.buf.nxt /\ tx.buf.nxt <= tx.buf.tail

\* m_recover says when the current episode ends: ahead of the head in a fast
\* recovery, not behind it in CWR and after a timeout, never beyond SND.NXT.  An
\* episode whose m_recover is left behind would never end or end at once.
RecoveryPointAhead ==
  /\ tx.cong = "RECOVERY" => tx.buf.una < tx.recover
  /\ tx.cong \in {"CWR", "LOSS"} => tx.buf.una <= tx.recover
  /\ tx.recover <= tx.buf.nxt

\* The fraction of marked bytes PktsAcked computes is at most one, so alpha stays
\* within [0, 1]: both counters are reset together, whatever happens to ecn.
FractionIsFraction == tx.bytesACKedECE <= tx.bytesACKedAll

\* While something is outstanding, the retransmission timer runs.
OutstandingHasTimer == Running /\ tx.buf.una < tx.buf.nxt => tx.retx

\* What the receiver reported as received is never sent again, in no congestion
\* state, and outside a fast recovery only what is marked lost is.
ResendsOnlyMissing ==
  [][\A i \in DOMAIN tx'.out :
       /\ tx'.out[i].seq \notin tx'.buf.sacked
       /\ tx'.out[i].retrans /\ tx'.cong # "RECOVERY" => tx'.out[i].seq \in tx'.buf.lost]_vars

\* An ECE reduces the window at most once per window of data: all that was
\* outstanding at the last reduction is acknowledged before the next one, unless
\* a loss episode came between (EnterCwr, and the "once per window" above it).
ReducesOncePerWindow ==
  [][tx.cong \in {"OPEN", "DISORDER"} /\ tx'.cong = "CWR" => tx'.buf.una > tx.cwrPoint]_vars

\* CWR is set on one segment per window, a new one: the segment that carried the
\* last CWR is acknowledged before the next is sent.
CwrOncePerWindow ==
  [][\A i \in DOMAIN tx'.out :
       tx'.out[i].cwr => ~tx'.out[i].retrans /\ tx'.buf.una > tx.cwrSeq]_vars

\* A segment that was sent is acknowledged or the connection is dropped: the timer
\* is restarted often enough and its retries run out.
SentIsSettled ==
  \A s \in Seg : (s \in Sent(tx.buf)) ~> (s < tx.buf.una \/ ~Running)

\* The sender is a window protocol: see SlidingWindow.
Window == INSTANCE SlidingWindow WITH una <- tx.buf.una, nxt <- tx.buf.nxt, out <- tx.out
ImplementsWindow == Window!Spec

\* tcp-socket-base.cc:3880: every packet has a size.
SegmentsAreNotEmpty == ~tx.fault
=============================================================================
