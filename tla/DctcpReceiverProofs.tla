------------------------ MODULE DctcpReceiverProofs ------------------------
(* Theorems about DctcpReceiver, for every value of its constants. *)
EXTENDS DctcpReceiver, TLAPS, WellFoundedInduction

-----------------------------------------------------------------------------
(* FirstGap is what its name says *)

LEMMA FirstGapExists ==
  ASSUME NEW held \in SUBSET Seg, NEW n \in SeqNum
  PROVE  \E k \in n .. MaxSeq + 1 : k \notin held /\ n .. k - 1 \subseteq held
<1> DEFINE T == {k \in Nat : k >= n /\ k \notin held}
<1>1. MaxSeq + 1 \in T
  BY SeqAssumption DEF Seg, SeqNum
<1>2. PICK k \in T : \A j \in T : <<j, k>> \notin OpToRel(<, Nat)
  BY <1>1, WFMin, NatLessThanWellFounded, Zenon
<1>3. \A j \in T : ~(j < k)
  BY <1>2, Zenon DEF OpToRel
<1> QED
  BY <1>1, <1>3, SeqAssumption DEF Seg, SeqNum

LEMMA FirstGapIsGap ==
  ASSUME NEW held \in SUBSET Seg, NEW n \in SeqNum
  PROVE  /\ FirstGap(n, held) \in n .. MaxSeq + 1
         /\ FirstGap(n, held) \in SeqNum
         /\ FirstGap(n, held) \notin held
         /\ n .. FirstGap(n, held) - 1 \subseteq held
<1>1. /\ FirstGap(n, held) \in n .. MaxSeq + 1
      /\ FirstGap(n, held) \notin held
      /\ n .. FirstGap(n, held) - 1 \subseteq held
  BY FirstGapExists DEF FirstGap
<1> QED
  BY <1>1, SeqAssumption DEF SeqNum

-----------------------------------------------------------------------------
(* Type correctness: every call takes a socket to a socket *)

LEMMA EcnStateUpdate ==
  ASSUME NEW st \in Socket, NEW e \in EcnStates
  PROVE  [st EXCEPT !.ecnState = e] \in Socket
BY DEF Socket

LEMMA DelayUpdate ==
  ASSUME NEW st \in Socket, NEW c \in 0 .. DelAckMaxCount, NEW b \in BOOLEAN
  PROVE  /\ [st EXCEPT !.delAckEvent = b, !.delAckCount = c] \in Socket
         /\ [st EXCEPT !.delAckCount = c, !.delAckEvent = b] \in Socket
BY DEF Socket

LEMMA HoldUpdate ==
  ASSUME NEW st \in Socket
  PROVE  /\ CwndEvent(st, "DELAYED_ACK") = [st EXCEPT !.holdingDelayedACK = TRUE]
         /\ CwndEvent(st, "NON_DELAYED_ACK") = [st EXCEPT !.holdingDelayedACK = FALSE]
         /\ CwndEvent(st, "DELAYED_ACK") \in Socket
         /\ CwndEvent(st, "NON_DELAYED_ACK") \in Socket
<1>1. /\ CwndEvent(st, "DELAYED_ACK") = [st EXCEPT !.holdingDelayedACK = TRUE]
      /\ CwndEvent(st, "NON_DELAYED_ACK") = [st EXCEPT !.holdingDelayedACK = FALSE]
  BY DEF CwndEvent
<1>2. \A b \in BOOLEAN : [st EXCEPT !.holdingDelayedACK = b] \in Socket
  BY DEF Socket
<1> QED
  BY <1>1, <1>2

LEMMA SendEmptyPacketType ==
  ASSUME NEW st \in Socket, NEW by \in Senders, NEW ece \in BOOLEAN
  PROVE  SendEmptyPacket(st, by, ece) \in Socket
<1>1. [by |-> by, ack |-> st.nextRxSeq, ece |-> ece] \in Acks
  BY DEF Acks, Socket
<1>2. Append(st.out, [by |-> by, ack |-> st.nextRxSeq, ece |-> ece]) \in Seq(Acks)
  BY <1>1 DEF Socket
<1>3. 0 \in 0 .. DelAckMaxCount
  BY DelAckAssumption
<1>4. (IF st.acked < st.nextRxSeq THEN st.nextRxSeq ELSE st.acked) \in SeqNum
  BY DEF Socket
<1>5. (st.unreported /\ ~ece) \in BOOLEAN
  OBVIOUS
<1> QED
  BY <1>2, <1>3, <1>4, <1>5 DEF SendEmptyPacket, Socket

LEMMA SendDataPacketType ==
  ASSUME NEW st \in Socket, NEW cwr \in BOOLEAN
  PROVE  SendDataPacket(st, cwr) \in Socket
<1> DEFINE sent == SendEmptyPacket(st, "piggyback", FALSE)
<1>1. sent \in Socket
  BY SendEmptyPacketType DEF Senders
<1>2. [sent EXCEPT !.ecnState = "CWR_SENT"] \in Socket
  BY <1>1, EcnStateUpdate DEF EcnStates
<1> QED
  BY <1>1, <1>2, Zenon DEF SendDataPacket

LEMMA AckWithEchoType ==
  ASSUME NEW st \in Socket, NEW by \in Senders
  PROVE  AckWithEcho(st, by) \in Socket
<1>1. SendEmptyPacket(st, by, TRUE) \in Socket /\ SendEmptyPacket(st, by, FALSE) \in Socket
  BY SendEmptyPacketType
<1>2. [SendEmptyPacket(st, by, TRUE) EXCEPT !.ecnState = "SENDING_ECE"] \in Socket
  BY <1>1, EcnStateUpdate DEF EcnStates
<1> QED
  BY <1>1, <1>2, Zenon DEF AckWithEcho

LEMMA FlushType ==
  ASSUME NEW st \in Socket, NEW setECE \in BOOLEAN
  PROVE  FlushDelayedACK(st, setECE) \in Socket
<1> DEFINE rewound == [st EXCEPT !.nextRxSeq = st.seqDelayedACK]
<1>1. CASE st.seqDelayedACK # NoSeq
  <2>1. rewound \in Socket
    BY <1>1 DEF Socket
  <2>2. SendEmptyPacket(rewound, "flush", setECE) \in Socket
    BY <2>1, SendEmptyPacketType DEF Senders
  <2>3. [SendEmptyPacket(rewound, "flush", setECE)
           EXCEPT !.nextRxSeq = st.nextRxSeq] \in Socket
    BY <2>2 DEF Socket
  <2> QED
    BY <2>3 DEF FlushDelayedACK
<1> QED
  BY <1>1 DEF FlushDelayedACK

LEMMA CEStateType ==
  ASSUME NEW st \in Socket
  PROVE  CEStateOn(st) \in Socket /\ CEStateOff(st) \in Socket
<1>1. \A f \in Socket : UpdateDelayedACK(f) \in Socket
  BY DEF UpdateDelayedACK, Socket
<1>2. \A u \in Socket, b \in BOOLEAN, e \in EcnStates :
        [u EXCEPT !.CEState = b, !.ecnState = e] \in Socket
  BY DEF Socket
<1>3. CEStateOn(st) \in Socket
  <2> DEFINE flushed == IF st.CEState THEN st ELSE FlushDelayedACK(st, FALSE)
  <2>1. flushed \in Socket
    BY FlushType, Zenon
  <2>2. UpdateDelayedACK(flushed) \in Socket
    BY <1>1, <2>1
  <2> HIDE DEF flushed
  <2>3. [UpdateDelayedACK(flushed) EXCEPT !.CEState = TRUE, !.ecnState = "CE_RCVD"]
          \in Socket
    BY <1>2, <2>2 DEF EcnStates
  <2> QED
    BY <2>3, Zenon DEF CEStateOn, flushed
<1>4. CEStateOff(st) \in Socket
  <2> DEFINE flushed == IF st.CEState THEN FlushDelayedACK(st, TRUE) ELSE st
             u == UpdateDelayedACK(flushed)
             e == IF u.ecnState \in Echoing THEN "IDLE" ELSE u.ecnState
  <2>1. flushed \in Socket
    BY FlushType, Zenon
  <2>2. u \in Socket
    BY <1>1, <2>1
  <2>3. e \in EcnStates
    BY <2>2 DEF Socket, EcnStates
  <2>4. CEStateOff(st) = [u EXCEPT !.CEState = FALSE, !.ecnState = e]
    BY DEF CEStateOff
  <2> HIDE DEF u, e
  <2> QED
    BY <1>2, <2>2, <2>3, <2>4
<1> QED
  BY <1>3, <1>4

LEMMA EcnEventType ==
  ASSUME NEW st \in Socket, NEW s \in SeqNum, NEW cp \in CodePoints
  PROVE  EcnEvent(st, s, cp) \in Socket
<1>1. [st EXCEPT !.ecnCESeq = s, !.ecnState = "CE_RCVD"] \in Socket
  BY DEF Socket, EcnStates
<1> QED
  BY <1>1, CEStateType DEF EcnEvent, CwndEvent

LEMMA CwrFlagType ==
  ASSUME NEW st \in Socket, NEW cwr \in BOOLEAN
  PROVE  CwrFlag(st, cwr) \in Socket
BY DEF CwrFlag, Socket, EcnStates

LEMMA ReceivedAckType ==
  ASSUME NEW st \in Socket, NEW a \in AckInfo
  PROVE  ReceivedAck(st, a) \in Socket
BY DEF ReceivedAck, Socket, EcnStates

LEMMA AddType ==
  ASSUME NEW st \in Socket, NEW s \in Seg
  PROVE  Add(st, s) \in Socket
<1>1. FirstGap(st.nextRxSeq, st.received \cup {s}) \in SeqNum
  BY FirstGapIsGap DEF Socket
<1> QED
  BY <1>1 DEF Add, Socket

LEMMA ReceivedDataType ==
  ASSUME NEW st \in Socket, NEW s \in Seg
  PROVE  ReceivedData(st, s) \in Socket
<1> DEFINE added == Add(st, s)
           count == added.delAckCount + 1
<1>1. added \in Socket
  BY AddType
<1>2. CwndEvent(added, "NON_DELAYED_ACK") \in Socket
  BY <1>1, HoldUpdate
<1>3. CwndEvent([added EXCEPT !.delAckCount = 0, !.delAckEvent = FALSE],
                "NON_DELAYED_ACK") \in Socket
  <2>1. 0 \in 0 .. DelAckMaxCount
    BY DelAckAssumption
  <2>2. [added EXCEPT !.delAckCount = 0, !.delAckEvent = FALSE] \in Socket
    BY <1>1, <2>1, DelayUpdate
  <2> QED
    BY <2>2, HoldUpdate
<1>4. ASSUME ~(count >= DelAckMaxCount)
      PROVE  CwndEvent([added EXCEPT !.delAckCount = count, !.delAckEvent = TRUE],
                       "DELAYED_ACK") \in Socket
  <2>1. count \in 0 .. DelAckMaxCount
    BY <1>1, <1>4, DelAckAssumption DEF Socket
  <2>2. [added EXCEPT !.delAckCount = count, !.delAckEvent = TRUE] \in Socket
    BY <1>1, <2>1, DelayUpdate
  <2> QED
    BY <2>2, HoldUpdate
<1> HIDE DEF added, count
<1> QED
  BY <1>2, <1>3, <1>4, AckWithEchoType DEF ReceivedData, Senders, added, count

LEMMA SendPendingDataType ==
  ASSUME NEW st \in Socket
  PROVE  SendPendingData(st) \subseteq Socket
BY SendDataPacketType DEF SendPendingData

LEMMA DoRetransmitType ==
  ASSUME NEW st \in Socket
  PROVE  DoRetransmit(st) \subseteq Socket
BY SendDataPacketType DEF DoRetransmit

LEMMA InitType == Init => TypeOK
<1>1. /\ 1 \in SeqNum /\ <<>> \in Seq(Acks)
      /\ DelAckMaxCount \in 0 .. DelAckMaxCount
  BY SeqAssumption, DelAckAssumption DEF SeqNum
<1>2. ASSUME NEW b \in BOOLEAN, NEW sd \in {NoSeq} \cup SeqNum, NEW e \in EcnStates,
             NEW ce \in {NoSeq} \cup SeqNum
      PROVE  AfterHandshake(b, sd, e, ce) \in Socket
  BY <1>1 DEF AfterHandshake, Socket
<1> QED
  BY <1>1, <1>2 DEF Init, TypeOK, EcnStates

THEOREM NextType == TypeOK /\ [Next]_vars => TypeOK'
<1> SUFFICES ASSUME TypeOK, [Next]_vars PROVE TypeOK'
  OBVIOUS
<1>0. Idle \in Socket
  <2>1. <<>> \in Seq(Acks)
    OBVIOUS
  <2> QED
    BY <2>1 DEF TypeOK, Idle, Socket
<1>1. ASSUME NEW s \in Seg, NEW cp \in DataCodePoints, NEW cwr \in BOOLEAN,
             NEW a \in AckInfo, ReceiveData(s, cp, cwr, a)
      PROVE  TypeOK'
  <2> DEFINE seen == CwrFlag(EcnEvent(Idle, s, cp), cwr)
  <2>1. SendEmptyPacket(Idle, "range", FALSE) \in Socket
    BY <1>0, SendEmptyPacketType DEF Senders
  <2>2. s \in SeqNum /\ cp \in CodePoints
    BY SeqAssumption DEF Seg, SeqNum, DataCodePoints
  <2>3. seen \in Socket
    BY <1>0, <2>2, EcnEventType, CwrFlagType
  <2>4. \A st \in DoRetransmit(ReceivedAck(seen, a)) :
          SendPendingData(ReceivedData(st, s)) \subseteq Socket
    BY <2>3, ReceivedAckType, DoRetransmitType, ReceivedDataType, SendPendingDataType
  <2> QED
    BY <1>1, <2>1, <2>4 DEF ReceiveData, TypeOK
<1>2. ASSUME NEW s \in Seg, NEW cp \in DataCodePoints, NEW cwr \in BOOLEAN,
             ReceiveStaleData(s, cp, cwr)
      PROVE  TypeOK'
  <2>1. s \in SeqNum /\ cp \in CodePoints
    BY SeqAssumption DEF Seg, SeqNum, DataCodePoints
  <2> QED
    BY <1>0, <1>2, <2>1, EcnEventType, CwrFlagType DEF ReceiveStaleData, TypeOK
<1>3. ASSUME NEW s \in SeqNum, NEW cp \in CodePoints, NEW a \in AckInfo,
             ReceivePureAck(s, cp, a)
      PROVE  TypeOK'
  <2>1. SendPendingData(ReceivedAck(EcnEvent(Idle, s, cp), a)) \subseteq Socket
    BY <1>0, EcnEventType, ReceivedAckType, SendPendingDataType
  <2> QED
    BY <1>3, <2>1 DEF ReceivePureAck, TypeOK
<1>4. CASE DelAckTimeout
  <2>1. [Idle EXCEPT !.delAckEvent = FALSE, !.delAckCount = 0] \in Socket
    <3>1. 0 \in 0 .. DelAckMaxCount
      BY DelAckAssumption
    <3> QED
      BY <1>0, <3>1, DelayUpdate
  <2>2. CwndEvent([Idle EXCEPT !.delAckEvent = FALSE, !.delAckCount = 0],
                  "DELAYED_ACK") \in Socket
    BY <2>1, HoldUpdate
  <2> QED
    BY <1>4, <2>2, AckWithEchoType DEF DelAckTimeout, TypeOK, Senders
<1>5. ASSUME NEW cwr \in BOOLEAN, SendData(cwr) PROVE TypeOK'
  BY <1>0, <1>5, SendDataPacketType DEF SendData, TypeOK
<1>6. CASE UNCHANGED vars
  BY <1>6 DEF TypeOK, vars
<1> QED
  BY <1>1, <1>2, <1>3, <1>4, <1>5, <1>6 DEF Next

\* The socket never leaves its type, whatever arrives in whatever order.
THEOREM TypeCorrect == Spec => []TypeOK
BY InitType, NextType, PTL DEF Spec

-----------------------------------------------------------------------------
(***************************************************************************)
(* The inductive invariant.  Sound alone is not enough for DelayBound: a   *)
(* flush resets the count, so Near has to say that what the flush leaves   *)
(* unacknowledged is at most the segment received last.                    *)
(***************************************************************************)

Sound(st) ==
  /\ st.nextRxSeq \notin st.received
  /\ 1 .. st.nextRxSeq - 1 \subseteq st.received
  /\ st.acked <= st.nextRxSeq
  /\ st.seqDelayedACK <= st.nextRxSeq

Counted(st) ==
  /\ st.nextRxSeq - st.acked <= st.delAckCount + 1
  /\ st.delAckCount = DelAckMaxCount => st.acked = st.nextRxSeq

Near(st) ==
  \/ st.nextRxSeq - st.acked <= 1
  \/ st.seqDelayedACK # NoSeq /\ st.nextRxSeq - st.seqDelayedACK <= 1

Inv(st) == Sound(st) /\ Counted(st) /\ Near(st)

\* An acknowledgment of nextRxSeq establishes the invariant from Sound alone.
LEMMA AckEstablishesInv ==
  ASSUME NEW st \in Socket, Sound(st), NEW by \in Senders, NEW ece \in BOOLEAN
  PROVE  /\ Inv(SendEmptyPacket(st, by, ece))
         /\ SendEmptyPacket(st, by, ece).nextRxSeq = st.nextRxSeq
         /\ SendEmptyPacket(st, by, ece).received = st.received
         /\ SendEmptyPacket(st, by, ece).acked = st.nextRxSeq
<1> DEFINE r == SendEmptyPacket(st, by, ece)
<1>1. /\ r.nextRxSeq = st.nextRxSeq /\ r.received = st.received
      /\ r.seqDelayedACK = st.seqDelayedACK /\ r.delAckCount = 0
      /\ r.acked = IF st.acked < st.nextRxSeq THEN st.nextRxSeq ELSE st.acked
  BY DEF SendEmptyPacket, Socket
<1>2. r.acked = st.nextRxSeq
  BY <1>1 DEF Sound, Socket, SeqNum
<1> HIDE DEF r
<1>3. Inv(r)
  BY <1>1, <1>2, DelAckAssumption DEF Inv, Sound, Counted, Near, Socket, SeqNum
<1> QED
  BY <1>1, <1>2, <1>3 DEF r

\* Changing only the ECN state keeps the invariant.
LEMMA EcnStateKeepsInv ==
  ASSUME NEW st \in Socket, NEW e \in EcnStates
  PROVE  LET r == [st EXCEPT !.ecnState = e]
         IN  /\ Inv(st) => Inv(r)
             /\ r.nextRxSeq = st.nextRxSeq /\ r.received = st.received
             /\ r.acked = st.acked /\ r.seqDelayedACK = st.seqDelayedACK
             /\ r.delAckCount = st.delAckCount /\ r.delAckEvent = st.delAckEvent
BY DEF Inv, Sound, Counted, Near, Socket

LEMMA AckWithEchoEstablishesInv ==
  ASSUME NEW st \in Socket, Sound(st), NEW by \in Senders
  PROVE  /\ Inv(AckWithEcho(st, by))
         /\ AckWithEcho(st, by).nextRxSeq = st.nextRxSeq
         /\ AckWithEcho(st, by).received = st.received
         /\ AckWithEcho(st, by).acked = st.nextRxSeq
<1> DEFINE r(ece) == SendEmptyPacket(st, by, ece)
<1>1. \A ece \in BOOLEAN :
        /\ r(ece) \in Socket /\ Inv(r(ece)) /\ r(ece).nextRxSeq = st.nextRxSeq
        /\ r(ece).received = st.received /\ r(ece).acked = st.nextRxSeq
  BY SendEmptyPacketType, AckEstablishesInv
<1>2. "SENDING_ECE" \in EcnStates
  BY DEF EcnStates
<1>3. LET q == [r(TRUE) EXCEPT !.ecnState = "SENDING_ECE"]
      IN  /\ Inv(q) /\ q.nextRxSeq = st.nextRxSeq
          /\ q.received = st.received /\ q.acked = st.nextRxSeq
  BY <1>1, <1>2, EcnStateKeepsInv
<1> QED
  BY <1>1, <1>3 DEF AckWithEcho

LEMMA SendDataPacketEstablishesInv ==
  ASSUME NEW st \in Socket, Sound(st), NEW cwr \in BOOLEAN
  PROVE  /\ Inv(SendDataPacket(st, cwr))
         /\ SendDataPacket(st, cwr).nextRxSeq = st.nextRxSeq
         /\ SendDataPacket(st, cwr).received = st.received
         /\ SendDataPacket(st, cwr).acked = st.nextRxSeq
<1> DEFINE r == SendEmptyPacket(st, "piggyback", FALSE)
<1>1. /\ r \in Socket /\ Inv(r) /\ r.nextRxSeq = st.nextRxSeq
      /\ r.received = st.received /\ r.acked = st.nextRxSeq
  BY SendEmptyPacketType, AckEstablishesInv DEF Senders
<1>2. "CWR_SENT" \in EcnStates
  BY DEF EcnStates
<1>3. LET q == [r EXCEPT !.ecnState = "CWR_SENT"]
      IN  /\ Inv(q) /\ q.nextRxSeq = st.nextRxSeq
          /\ q.received = st.received /\ q.acked = st.nextRxSeq
  BY <1>1, <1>2, EcnStateKeepsInv
<1> QED
  BY <1>1, <1>3 DEF SendDataPacket

LEMMA SendPendingDataKeepsInv ==
  ASSUME NEW st \in Socket, Inv(st), NEW r \in SendPendingData(st)
  PROVE  Inv(r) /\ r.received = st.received /\ r.acked \in {st.acked, st.nextRxSeq}
<1>1. CASE r = st
  BY <1>1
<1>2. CASE r # st
  <2>1. PICK cwr \in BOOLEAN : r = SendDataPacket(st, cwr)
    BY <1>2 DEF SendPendingData
  <2> QED
    BY <2>1, SendDataPacketEstablishesInv DEF Inv
<1> QED
  BY <1>1, <1>2

LEMMA DoRetransmitKeepsInv ==
  ASSUME NEW st \in Socket, Inv(st), NEW r \in DoRetransmit(st)
  PROVE  /\ Inv(r) /\ r.received = st.received /\ r.acked >= st.acked
         /\ r.nextRxSeq = st.nextRxSeq /\ r.seqDelayedACK = st.seqDelayedACK
<1>0. st.acked \in Int /\ st.nextRxSeq \in Int /\ st.acked <= st.nextRxSeq
  BY DEF Socket, SeqNum, Inv, Sound
<1>1. CASE r = st
  BY <1>0, <1>1
<1>2. CASE r # st
  <2>1. r = SendDataPacket(st, FALSE)
    BY <1>2 DEF DoRetransmit
  <2>2. r.seqDelayedACK = st.seqDelayedACK
    BY <2>1 DEF SendDataPacket, SendEmptyPacket, Socket
  <2> QED
    BY <1>0, <2>1, <2>2, SendDataPacketEstablishesInv DEF Inv
<1> QED
  BY <1>1, <1>2

\* The flush restores nextRxSeq and leaves unacknowledged only what came after
\* the previous event: with Near, at most one segment.
LEMMA FlushKeepsInv ==
  ASSUME NEW st \in Socket, Inv(st), NEW setECE \in BOOLEAN
  PROVE  LET r == FlushDelayedACK(st, setECE)
         IN  /\ Inv(r) /\ r.nextRxSeq = st.nextRxSeq /\ r.received = st.received
             /\ r.acked >= st.acked
<1>1. CASE st.holdingDelayedACK /\ st.seqDelayedACK # NoSeq
  <2> DEFINE rewound == [st EXCEPT !.nextRxSeq = st.seqDelayedACK]
             sent == SendEmptyPacket(rewound, "flush", setECE)
             r == [sent EXCEPT !.nextRxSeq = st.nextRxSeq]
  <2>1. rewound \in Socket
    BY <1>1 DEF Socket
  <2>2. sent \in Socket
    BY <2>1, SendEmptyPacketType DEF Senders
  <2>3. /\ sent.received = st.received /\ sent.seqDelayedACK = st.seqDelayedACK
        /\ sent.delAckCount = 0
        /\ sent.acked = IF st.acked < st.seqDelayedACK THEN st.seqDelayedACK ELSE st.acked
    BY <2>1 DEF SendEmptyPacket, Socket
  <2> HIDE DEF sent
  <2>4. /\ r.nextRxSeq = st.nextRxSeq /\ r.received = st.received
        /\ r.seqDelayedACK = st.seqDelayedACK /\ r.delAckCount = 0
        /\ r.acked = IF st.acked < st.seqDelayedACK THEN st.seqDelayedACK ELSE st.acked
    BY <2>2, <2>3 DEF Socket
  <2>5. FlushDelayedACK(st, setECE) = r
    BY <1>1, Zenon DEF FlushDelayedACK, sent
  <2> HIDE DEF r
  <2>6. Inv(r) /\ r.acked >= st.acked
    BY <1>1, <2>4, DelAckAssumption
    DEF Inv, Sound, Counted, Near, Socket, SeqNum, NoSeq
  <2> QED
    BY <2>4, <2>5, <2>6
<1>2. CASE ~(st.holdingDelayedACK /\ st.seqDelayedACK # NoSeq)
  <2>1. FlushDelayedACK(st, setECE) = st
    BY <1>2, Zenon DEF FlushDelayedACK
  <2> QED
    BY <2>1 DEF Socket, SeqNum
<1> QED
  BY <1>1, <1>2

LEMMA UpdateKeepsInv ==
  ASSUME NEW st \in Socket, Inv(st), NEW b \in BOOLEAN, NEW e \in EcnStates
  PROVE  LET r == [UpdateDelayedACK(st) EXCEPT !.CEState = b, !.ecnState = e]
         IN  /\ Inv(r) /\ r.nextRxSeq = st.nextRxSeq /\ r.received = st.received
             /\ r.acked = st.acked /\ r.seqDelayedACK = st.nextRxSeq
<1> DEFINE r == [UpdateDelayedACK(st) EXCEPT !.CEState = b, !.ecnState = e]
<1>1. /\ r.nextRxSeq = st.nextRxSeq /\ r.received = st.received
      /\ r.acked = st.acked /\ r.seqDelayedACK = st.nextRxSeq
      /\ r.delAckCount = st.delAckCount
  BY DEF UpdateDelayedACK, Socket
<1> HIDE DEF r
<1>2. Inv(r)
  BY <1>1 DEF Inv, Sound, Counted, Near, Socket, SeqNum, NoSeq
<1> QED
  BY <1>1, <1>2 DEF r

\* What a congestion event does, as the data path needs it: the invariant holds
\* and seqDelayedACK is the sequence number expected next.
AfterEvent(st, r) ==
  /\ Inv(r)
  /\ r.nextRxSeq = st.nextRxSeq /\ r.received = st.received
  /\ r.acked >= st.acked /\ r.seqDelayedACK = st.nextRxSeq

LEMMA CEStateOnInv ==
  ASSUME NEW st \in Socket, Inv(st)
  PROVE  AfterEvent(st, CEStateOn(st))
<1> DEFINE flushed == IF st.CEState THEN st ELSE FlushDelayedACK(st, FALSE)
<1>1. /\ flushed \in Socket /\ Inv(flushed) /\ flushed.nextRxSeq = st.nextRxSeq
      /\ flushed.received = st.received /\ flushed.acked >= st.acked
  <2>1. CASE st.CEState
    BY <2>1 DEF Socket, SeqNum
  <2>2. CASE ~st.CEState
    BY <2>2, FlushType, FlushKeepsInv
  <2> QED
    BY <2>1, <2>2
<1>2. CEStateOn(st) = [UpdateDelayedACK(flushed) EXCEPT !.CEState = TRUE,
                                                        !.ecnState = "CE_RCVD"]
  BY Zenon DEF CEStateOn
<1>3. "CE_RCVD" \in EcnStates
  BY DEF EcnStates
<1> HIDE DEF flushed
<1> DEFINE r == [UpdateDelayedACK(flushed) EXCEPT !.CEState = TRUE,
                                                  !.ecnState = "CE_RCVD"]
<1>4. /\ Inv(r) /\ r.nextRxSeq = flushed.nextRxSeq /\ r.received = flushed.received
      /\ r.acked = flushed.acked /\ r.seqDelayedACK = flushed.nextRxSeq
  BY <1>1, <1>3, UpdateKeepsInv
<1> HIDE DEF r
<1>5. AfterEvent(st, r)
  BY <1>1, <1>4 DEF AfterEvent
<1> QED
  BY <1>2, <1>5 DEF r

LEMMA CEStateOffInv ==
  ASSUME NEW st \in Socket, Inv(st)
  PROVE  AfterEvent(st, CEStateOff(st))
<1> DEFINE flushed == IF st.CEState THEN FlushDelayedACK(st, TRUE) ELSE st
           u == UpdateDelayedACK(flushed)
           e == IF u.ecnState \in Echoing THEN "IDLE" ELSE u.ecnState
<1>1. /\ flushed \in Socket /\ Inv(flushed) /\ flushed.nextRxSeq = st.nextRxSeq
      /\ flushed.received = st.received /\ flushed.acked >= st.acked
  <2>1. CASE st.CEState
    BY <2>1, FlushType, FlushKeepsInv
  <2>2. CASE ~st.CEState
    BY <2>2 DEF Socket, SeqNum
  <2> QED
    BY <2>1, <2>2
<1> HIDE DEF flushed
<1>2. CEStateOff(st) = [UpdateDelayedACK(flushed) EXCEPT !.CEState = FALSE, !.ecnState = e]
  BY DEF CEStateOff, flushed
<1>3. e \in EcnStates
  <2>1. u.ecnState = flushed.ecnState /\ flushed.ecnState \in EcnStates
    BY <1>1 DEF UpdateDelayedACK, Socket
  <2> HIDE DEF u
  <2> QED
    BY <2>1 DEF EcnStates
<1> HIDE DEF e
<1> DEFINE r == [UpdateDelayedACK(flushed) EXCEPT !.CEState = FALSE, !.ecnState = e]
<1>4. /\ Inv(r) /\ r.nextRxSeq = flushed.nextRxSeq /\ r.received = flushed.received
      /\ r.acked = flushed.acked /\ r.seqDelayedACK = flushed.nextRxSeq
  BY <1>1, <1>3, UpdateKeepsInv
<1> HIDE DEF r
<1>5. AfterEvent(st, r)
  BY <1>1, <1>4 DEF AfterEvent
<1> QED
  BY <1>2, <1>5 DEF r

LEMMA EcnEventInv ==
  ASSUME NEW st \in Socket, Inv(st), NEW s \in SeqNum, NEW cp \in CodePoints
  PROVE  IF cp = "NotECT" THEN EcnEvent(st, s, cp) = st
                          ELSE AfterEvent(st, EcnEvent(st, s, cp))
<1> DEFINE m == [st EXCEPT !.ecnCESeq = s, !.ecnState = "CE_RCVD"]
<1>1. /\ m \in Socket /\ m.nextRxSeq = st.nextRxSeq /\ m.received = st.received
      /\ m.acked = st.acked /\ m.seqDelayedACK = st.seqDelayedACK
      /\ m.delAckCount = st.delAckCount
  BY DEF Socket, EcnStates
<1> HIDE DEF m
<1>2. Inv(m)
  BY <1>1 DEF Inv, Sound, Counted, Near
<1>3. AfterEvent(st, CEStateOn(m))
  <2>1. AfterEvent(m, CEStateOn(m))
    BY <1>1, <1>2, CEStateOnInv
  <2> QED
    BY <1>1, <2>1 DEF AfterEvent
<1>4. AfterEvent(st, CEStateOff(st))
  BY CEStateOffInv
<1>5. EcnEvent(st, s, cp) = IF cp = "CE" /\ st.ecnCESeq < s THEN CEStateOn(m)
                            ELSE IF cp # "NotECT" THEN CEStateOff(st) ELSE st
  BY DEF EcnEvent, CwndEvent, m
<1> QED
  BY <1>3, <1>4, <1>5

\* The CWR rule and the acknowledgment carried by a segment touch ecnState only.
OnlyEcn(st, r) ==
  /\ Inv(st) => Inv(r)
  /\ r.nextRxSeq = st.nextRxSeq /\ r.received = st.received
  /\ r.acked = st.acked /\ r.seqDelayedACK = st.seqDelayedACK

LEMMA CwrFlagInv ==
  ASSUME NEW st \in Socket, NEW cwr \in BOOLEAN
  PROVE  OnlyEcn(st, CwrFlag(st, cwr))
BY EcnStateKeepsInv DEF CwrFlag, EcnStates, OnlyEcn

LEMMA ReceivedAckInv ==
  ASSUME NEW st \in Socket, NEW a \in AckInfo
  PROVE  OnlyEcn(st, ReceivedAck(st, a))
BY EcnStateKeepsInv DEF ReceivedAck, EcnStates, OnlyEcn

\* Adding a segment keeps the buffer gapless below nextRxSeq.
LEMMA AddSound ==
  ASSUME NEW st \in Socket, Sound(st), NEW s \in Seg
  PROVE  LET r == Add(st, s)
         IN  /\ Sound(r) /\ r.received = st.received \cup {s}
             /\ r.nextRxSeq >= st.nextRxSeq
             /\ r.acked = st.acked /\ r.seqDelayedACK = st.seqDelayedACK
             /\ r.delAckCount = st.delAckCount
<1> DEFINE r == Add(st, s)
           g == FirstGap(st.nextRxSeq, st.received \cup {s})
<1>1. /\ g \in SeqNum /\ g >= st.nextRxSeq /\ g \notin st.received \cup {s}
      /\ st.nextRxSeq .. g - 1 \subseteq st.received \cup {s}
  <2>1. st.received \cup {s} \in SUBSET Seg /\ st.nextRxSeq \in SeqNum
    BY DEF Socket
  <2>2. /\ g \in st.nextRxSeq .. MaxSeq + 1 /\ g \in SeqNum
        /\ g \notin st.received \cup {s}
        /\ st.nextRxSeq .. g - 1 \subseteq st.received \cup {s}
    BY <2>1, FirstGapIsGap
  <2> HIDE DEF g
  <2>3. g >= st.nextRxSeq
    BY <2>1, <2>2, SeqAssumption DEF SeqNum
  <2> QED
    BY <2>2, <2>3
<1>2. /\ r.received = st.received \cup {s} /\ r.nextRxSeq = g
      /\ r.acked = st.acked /\ r.seqDelayedACK = st.seqDelayedACK
      /\ r.delAckCount = st.delAckCount
  BY DEF Add, Socket
<1> HIDE DEF r, g
<1>3. 1 .. g - 1 \subseteq st.received \cup {s}
  BY <1>1 DEF Sound, Socket, SeqNum
<1>4. Sound(r)
  BY <1>1, <1>2, <1>3 DEF Sound, Socket, SeqNum, NoSeq
<1> QED
  BY <1>1, <1>2, <1>4 DEF r

\* The delayed-ACK decision.  A held segment is counted only when it alone moved
\* nextRxSeq by one; everything else acknowledges at once.
LEMMA ReceivedDataInv ==
  ASSUME NEW st \in Socket, Inv(st), st.seqDelayedACK = st.nextRxSeq, NEW s \in Seg
  PROVE  /\ Inv(ReceivedData(st, s))
         /\ ReceivedData(st, s).acked >= st.acked
         /\ ReceivedData(st, s).received \in {st.received, st.received \cup {s}}
<1> DEFINE added == Add(st, s)
           count == added.delAckCount + 1
           now == CwndEvent(added, "NON_DELAYED_ACK")
           full == CwndEvent([added EXCEPT !.delAckCount = 0, !.delAckEvent = FALSE],
                             "NON_DELAYED_ACK")
           held == [added EXCEPT !.delAckCount = count, !.delAckEvent = TRUE]
           wait == CwndEvent(held, "DELAYED_ACK")
<1>1. added \in Socket
  BY AddType
<1>2. /\ Sound(added) /\ added.received = st.received \cup {s}
      /\ added.nextRxSeq >= st.nextRxSeq /\ added.acked = st.acked
      /\ added.seqDelayedACK = st.nextRxSeq /\ added.delAckCount = st.delAckCount
  BY AddSound DEF Inv
<1>a. st.acked <= st.nextRxSeq /\ added.acked <= added.nextRxSeq
  BY <1>2 DEF Inv, Sound
<1>3. ASSUME ~CanAdd(st, s)
      PROVE  LET r == AckWithEcho(st, "data")
             IN  Inv(r) /\ r.acked >= st.acked /\ r.received = st.received
  BY <1>a, AckWithEchoEstablishesInv DEF Inv, Senders
<1> HIDE DEF added
<1>4. LET r == AckWithEcho(now, "data")
      IN  Inv(r) /\ r.acked >= st.acked /\ r.received = st.received \cup {s}
  <2>1. /\ now \in Socket /\ now.received = added.received
        /\ now.nextRxSeq = added.nextRxSeq /\ now.acked = added.acked
        /\ now.seqDelayedACK = added.seqDelayedACK
    BY <1>1, HoldUpdate DEF Socket
  <2> HIDE DEF now
  <2>2. Sound(now)
    BY <1>2, <2>1 DEF Sound
  <2> QED
    BY <1>2, <1>a, <2>1, <2>2, AckWithEchoEstablishesInv DEF Senders
<1>5. LET r == AckWithEcho(full, "data")
      IN  Inv(r) /\ r.acked >= st.acked /\ r.received = st.received \cup {s}
  <2> DEFINE f == [added EXCEPT !.delAckCount = 0, !.delAckEvent = FALSE]
  <2>1. 0 \in 0 .. DelAckMaxCount
    BY DelAckAssumption
  <2>2. /\ f \in Socket /\ f.received = added.received
        /\ f.nextRxSeq = added.nextRxSeq /\ f.acked = added.acked
        /\ f.seqDelayedACK = added.seqDelayedACK
    BY <1>1, <2>1, DelayUpdate DEF Socket
  <2> HIDE DEF f
  <2>3. /\ CwndEvent(f, "NON_DELAYED_ACK") \in Socket
        /\ CwndEvent(f, "NON_DELAYED_ACK").received = added.received
        /\ CwndEvent(f, "NON_DELAYED_ACK").nextRxSeq = added.nextRxSeq
        /\ CwndEvent(f, "NON_DELAYED_ACK").acked = added.acked
        /\ CwndEvent(f, "NON_DELAYED_ACK").seqDelayedACK = added.seqDelayedACK
    BY <2>2, HoldUpdate DEF Socket
  <2>4. full = CwndEvent(f, "NON_DELAYED_ACK")
    BY DEF f
  <2> HIDE DEF full
  <2>5. Sound(full)
    BY <1>2, <2>3, <2>4 DEF Sound
  <2> QED
    BY <1>2, <1>a, <2>3, <2>4, <2>5, AckWithEchoEstablishesInv DEF Senders
<1>6. ASSUME CanAdd(st, s), ~GapOrFilled(added, st), ~(count >= DelAckMaxCount)
      PROVE  Inv(wait) /\ wait.acked >= st.acked /\ wait.received = st.received \cup {s}
  <2>1. count \in 0 .. DelAckMaxCount
    BY <1>1, <1>6, DelAckAssumption DEF Socket
  <2>2. /\ held \in Socket /\ held.received = added.received
        /\ held.nextRxSeq = added.nextRxSeq /\ held.acked = added.acked
        /\ held.seqDelayedACK = added.seqDelayedACK /\ held.delAckCount = count
    BY <1>1, <2>1, DelayUpdate DEF Socket
  <2> HIDE DEF held
  <2>3. /\ wait.received = added.received
        /\ wait.nextRxSeq = added.nextRxSeq /\ wait.acked = added.acked
        /\ wait.seqDelayedACK = added.seqDelayedACK /\ wait.delAckCount = count
    BY <2>2, HoldUpdate DEF Socket
  <2> HIDE DEF wait
  <2>4. Sound(wait)
    BY <1>2, <2>3 DEF Sound
  <2>5. added.nextRxSeq <= st.nextRxSeq + 1
    BY <1>1, <1>6 DEF GapOrFilled, Socket, SeqNum
  <2>6. Counted(wait)
    BY <1>1, <1>2, <1>6, <2>3, <2>5, DelAckAssumption
    DEF Inv, Counted, Socket, SeqNum
  <2>7. Near(wait)
    BY <1>1, <1>2, <2>3, <2>5 DEF Near, Socket, SeqNum, NoSeq
  <2> QED
    BY <1>2, <2>3, <2>4, <2>6, <2>7 DEF Inv, Socket, SeqNum
<1>7. ReceivedData(st, s) =
        IF ~CanAdd(st, s) THEN AckWithEcho(st, "data")
        ELSE IF GapOrFilled(added, st) THEN AckWithEcho(now, "data")
        ELSE IF count >= DelAckMaxCount THEN AckWithEcho(full, "data")
        ELSE wait
  BY Zenon DEF ReceivedData, added
<1> HIDE DEF now, full, held, wait, count
<1> QED
  BY <1>3, <1>4, <1>5, <1>6, <1>7

LEMMA IdleInv ==
  ASSUME TypeOK, Inv(rx)
  PROVE  /\ Idle \in Socket /\ Inv(Idle) /\ Idle.received = rx.received
         /\ Idle.acked = rx.acked /\ Idle.nextRxSeq = rx.nextRxSeq
<1>1. <<>> \in Seq(Acks)
  OBVIOUS
<1>2. /\ Idle \in Socket /\ Idle.received = rx.received
      /\ Idle.acked = rx.acked /\ Idle.nextRxSeq = rx.nextRxSeq
      /\ Idle.seqDelayedACK = rx.seqDelayedACK /\ Idle.delAckCount = rx.delAckCount
  BY <1>1 DEF Idle, TypeOK, Socket
<1> QED
  BY <1>2 DEF Inv, Sound, Counted, Near

LEMMA InitInv == Init => Inv(rx)
<1>1. \A b, e, ce : \A sd \in {NoSeq, 1} : Inv(AfterHandshake(b, sd, e, ce))
  BY DelAckAssumption DEF Inv, Sound, Counted, Near, AfterHandshake, NoSeq
<1> QED
  BY <1>1 DEF Init

\* What a step does to the acknowledgment service the socket offers.
Progress ==
  /\ Inv(rx')
  /\ rx'.acked >= rx.acked
  /\ \/ rx'.received = rx.received
     \/ \E s \in Seg : rx'.received = rx.received \cup {s}

LEMMA NextProgress ==
  ASSUME TypeOK, Inv(rx), [Next]_vars
  PROVE  Progress
<1>0. /\ Idle \in Socket /\ Inv(Idle) /\ Idle.received = rx.received
      /\ Idle.acked = rx.acked /\ Idle.nextRxSeq = rx.nextRxSeq
      /\ rx.acked \in SeqNum /\ rx.acked <= rx.nextRxSeq /\ rx.nextRxSeq \in SeqNum
  BY IdleInv DEF TypeOK, Socket, Inv, Sound
<1>z. \A n \in SeqNum : n \in Int
  BY DEF SeqNum
<1>1. ASSUME NEW s \in Seg, NEW cp \in DataCodePoints, NEW cwr \in BOOLEAN,
             NEW a \in AckInfo, ReceiveData(s, cp, cwr, a)
      PROVE  Progress
  <2>1. CASE OutOfRange(rx, s)
    BY <1>0, <1>z, <1>1, <2>1, AckEstablishesInv DEF ReceiveData, Progress, Inv, Senders
  <2>2. CASE ~OutOfRange(rx, s)
    <3> DEFINE e == EcnEvent(Idle, s, cp)
               c == CwrFlag(e, cwr)
               k == ReceivedAck(c, a)
    <3>1. s \in SeqNum /\ cp \in CodePoints /\ cp # "NotECT"
      BY SeqAssumption DEF Seg, SeqNum, DataCodePoints
    <3>2. e \in Socket /\ AfterEvent(Idle, e)
      BY <1>0, <3>1, EcnEventType, EcnEventInv
    <3> HIDE DEF e
    <3>3. c \in Socket /\ OnlyEcn(e, c)
      BY <3>2, CwrFlagType, CwrFlagInv
    <3> HIDE DEF c
    <3>4. k \in Socket /\ OnlyEcn(c, k)
      BY <3>3, ReceivedAckType, ReceivedAckInv
    <3> HIDE DEF k
    <3>5. /\ Inv(k) /\ k.seqDelayedACK = k.nextRxSeq
          /\ k.acked >= rx.acked /\ k.received = rx.received
      BY <1>0, <3>2, <3>3, <3>4 DEF AfterEvent, OnlyEcn
    <3>a. PICK p \in DoRetransmit(k) : rx' \in SendPendingData(ReceivedData(p, s))
      BY <1>1, <2>2 DEF ReceiveData, k, c, e
    <3>b. /\ p \in Socket /\ Inv(p) /\ p.seqDelayedACK = p.nextRxSeq
          /\ p.acked >= k.acked /\ p.received = k.received
      BY <3>4, <3>5, <3>a, DoRetransmitType, DoRetransmitKeepsInv
    <3> DEFINE d == ReceivedData(p, s)
    <3>6. /\ d \in Socket /\ Inv(d) /\ d.acked >= p.acked
          /\ d.received \in {k.received, k.received \cup {s}}
      BY <3>b, ReceivedDataType, ReceivedDataInv
    <3>7. rx' \in SendPendingData(d)
      BY <3>a
    <3> HIDE DEF d
    <3>8. Inv(rx') /\ rx'.received = d.received /\ rx'.acked \in {d.acked, d.nextRxSeq}
      BY <3>6, <3>7, SendPendingDataKeepsInv
    <3>9. rx'.acked >= rx.acked
      BY <1>0, <3>4, <3>5, <3>b, <3>6, <3>8, <1>z DEF Inv, Sound, Socket
    <3> QED
      BY <3>5, <3>6, <3>8, <3>9 DEF Progress
  <2> QED
    BY <2>1, <2>2
<1>2. ASSUME NEW s \in Seg, NEW cp \in DataCodePoints, NEW cwr \in BOOLEAN,
             ReceiveStaleData(s, cp, cwr)
      PROVE  Progress
  <2> DEFINE e == EcnEvent(Idle, s, cp)
  <2>1. s \in SeqNum /\ cp \in CodePoints /\ cp # "NotECT"
    BY SeqAssumption DEF Seg, SeqNum, DataCodePoints
  <2>2. e \in Socket /\ AfterEvent(Idle, e)
    BY <1>0, <2>1, EcnEventType, EcnEventInv
  <2>3. rx' = CwrFlag(e, cwr)
    BY <1>2 DEF ReceiveStaleData
  <2> HIDE DEF e
  <2> QED
    BY <1>0, <2>2, <2>3, CwrFlagInv DEF Progress, AfterEvent, OnlyEcn
<1>3. ASSUME NEW s \in SeqNum, NEW cp \in CodePoints, NEW a \in AckInfo,
             ReceivePureAck(s, cp, a)
      PROVE  Progress
  <2> DEFINE e == EcnEvent(Idle, s, cp)
             k == ReceivedAck(e, a)
  <2>1. /\ e \in Socket /\ Inv(e) /\ e.received = rx.received
        /\ e.acked >= rx.acked
    BY <1>0, <1>z, EcnEventType, EcnEventInv DEF AfterEvent
  <2> HIDE DEF e
  <2>2. /\ k \in Socket /\ Inv(k) /\ k.received = rx.received /\ k.acked >= rx.acked
    BY <2>1, ReceivedAckType, ReceivedAckInv DEF OnlyEcn
  <2> HIDE DEF k
  <2>3. rx' \in SendPendingData(k)
    BY <1>3 DEF ReceivePureAck, k, e
  <2>4. Inv(rx') /\ rx'.received = k.received /\ rx'.acked \in {k.acked, k.nextRxSeq}
    BY <2>2, <2>3, SendPendingDataKeepsInv
  <2>5. rx'.acked >= rx.acked
    BY <1>0, <2>2, <2>4, <1>z DEF Inv, Sound, Socket
  <2> QED
    BY <2>2, <2>4, <2>5 DEF Progress
<1>4. CASE DelAckTimeout
  <2> DEFINE f == [Idle EXCEPT !.delAckEvent = FALSE, !.delAckCount = 0]
             h == CwndEvent(f, "DELAYED_ACK")
  <2>1. 0 \in 0 .. DelAckMaxCount
    BY DelAckAssumption
  <2>2. /\ f \in Socket /\ f.received = Idle.received
        /\ f.nextRxSeq = Idle.nextRxSeq /\ f.acked = Idle.acked
        /\ f.seqDelayedACK = Idle.seqDelayedACK
    BY <1>0, <2>1, DelayUpdate DEF Socket
  <2> HIDE DEF f
  <2>3. /\ h \in Socket /\ h.received = f.received
        /\ h.nextRxSeq = f.nextRxSeq /\ h.acked = f.acked
        /\ h.seqDelayedACK = f.seqDelayedACK
    BY <2>2, HoldUpdate DEF Socket
  <2> HIDE DEF h
  <2>4. Sound(h)
    BY <1>0, <2>2, <2>3 DEF Inv, Sound
  <2>5. rx' = AckWithEcho(h, "timer")
    BY <1>4 DEF DelAckTimeout, h, f
  <2> QED
    BY <1>0, <1>z, <2>2, <2>3, <2>4, <2>5, AckWithEchoEstablishesInv
    DEF Progress, Senders
<1>5. ASSUME NEW cwr \in BOOLEAN, SendData(cwr) PROVE Progress
  BY <1>0, <1>z, <1>5, SendDataPacketEstablishesInv DEF SendData, Progress, Inv
<1>6. CASE UNCHANGED vars
  BY <1>0, <1>z, <1>6 DEF vars, Progress
<1> QED
  BY <1>1, <1>2, <1>3, <1>4, <1>5, <1>6 DEF Next

THEOREM InvHolds == Spec => [](TypeOK /\ Inv(rx))
<1>1. Init => TypeOK /\ Inv(rx)
  BY InitType, InitInv
<1>2. TypeOK /\ Inv(rx) /\ [Next]_vars => (TypeOK /\ Inv(rx))'
  BY NextType, NextProgress DEF Progress
<1> QED
  BY <1>1, <1>2, PTL DEF Spec

\* Every rewind of nextRxSeq by a flush is undone before the handler ends.
THEOREM NextRxSeqCorrect == Spec => []RcvNxtIsFirstGap
<1>1. Inv(rx) => RcvNxtIsFirstGap
  BY DEF Inv, Sound, RcvNxtIsFirstGap
<1> QED
  BY <1>1, InvHolds, PTL

\* No acknowledgment covers a segment that has not arrived.
THEOREM AcksAreTrue == Spec => []AckedIsReceived
<1>1. TypeOK /\ Inv(rx) => AckedIsReceived
  BY DEF TypeOK, Socket, SeqNum, Inv, Sound, AckedIsReceived
<1> QED
  BY <1>1, InvHolds, PTL

\* The delayed-ACK bound holds for every DelAckMaxCount and every pattern of
\* marks, with data in one direction or in both.
THEOREM DelayIsBounded == Spec => []DelayBound
<1>1. TypeOK /\ Inv(rx) => DelayBound
  BY DelAckAssumption DEF TypeOK, Socket, SeqNum, Inv, Counted, DelayBound
<1> QED
  BY <1>1, InvHolds, PTL

-----------------------------------------------------------------------------
(***************************************************************************)
(* Data in one direction.  There every step ends by deciding about an      *)
(* acknowledgment, so what is held has a timer, and the congestion event   *)
(* of a segment sets both copies of the CE state before anything reads     *)
(* them.  (With data in both directions neither holds.)                    *)
(***************************************************************************)

Timed(st) == st.acked < st.nextRxSeq => st.delAckEvent

Agree(st) == st.CEState <=> st.ecnState \in Echoing

\* What a congestion event leaves: the echo has not begun yet.
Fresh(st) ==
  \/ st.CEState /\ st.ecnState = "CE_RCVD"
  \/ ~st.CEState /\ st.ecnState \notin Echoing

LEMMA EcnEventFresh ==
  ASSUME NEW st \in Socket, NEW s \in SeqNum, NEW cp \in CodePoints, cp # "NotECT"
  PROVE  Fresh(EcnEvent(st, s, cp))
<1>1. \A t \in Socket : Fresh(CEStateOn(t))
  <2> SUFFICES ASSUME NEW t \in Socket PROVE Fresh(CEStateOn(t))
    OBVIOUS
  <2> DEFINE flushed == IF t.CEState THEN t ELSE FlushDelayedACK(t, FALSE)
             u == UpdateDelayedACK(flushed)
             on == [u EXCEPT !.CEState = TRUE, !.ecnState = "CE_RCVD"]
  <2>1. flushed \in Socket
    BY FlushType, Zenon
  <2> HIDE DEF flushed
  <2>2. on.CEState = TRUE /\ on.ecnState = "CE_RCVD"
    BY <2>1 DEF UpdateDelayedACK, Socket
  <2>3. CEStateOn(t) = on
    BY Zenon DEF CEStateOn, flushed
  <2> HIDE DEF on
  <2> QED
    BY <2>2, <2>3 DEF Fresh
<1>2. Fresh(CEStateOff(st))
  <2> DEFINE flushed == IF st.CEState THEN FlushDelayedACK(st, TRUE) ELSE st
             u == UpdateDelayedACK(flushed)
             e == IF u.ecnState \in Echoing THEN "IDLE" ELSE u.ecnState
             off == [u EXCEPT !.CEState = FALSE, !.ecnState = e]
  <2>1. flushed \in Socket
    BY FlushType, Zenon
  <2>2. CEStateOff(st) = off
    BY DEF CEStateOff
  <2>3. e \notin Echoing
    BY DEF Echoing
  <2> HIDE DEF flushed, e
  <2>4. off.CEState = FALSE /\ off.ecnState = e
    BY <2>1 DEF UpdateDelayedACK, Socket
  <2> HIDE DEF off
  <2> QED
    BY <2>2, <2>3, <2>4 DEF Fresh
<1> DEFINE m == [st EXCEPT !.ecnCESeq = s, !.ecnState = "CE_RCVD"]
<1>3. m \in Socket
  BY DEF Socket, EcnStates
<1>4. EcnEvent(st, s, cp) = IF cp = "CE" /\ st.ecnCESeq < s THEN CEStateOn(m)
                            ELSE CEStateOff(st)
  BY DEF EcnEvent, CwndEvent
<1> HIDE DEF m
<1> QED
  BY <1>1, <1>2, <1>3, <1>4

LEMMA EcnStateFresh ==
  ASSUME NEW st \in Socket, Fresh(st), NEW cwr \in BOOLEAN, NEW a \in AckInfo, ~FullDuplex
  PROVE  Fresh(CwrFlag(st, cwr)) /\ Fresh(ReceivedAck(st, a))
<1>1. a.ece = FALSE /\ a.new = FALSE
  BY DEF AckInfo
<1>2. [st EXCEPT !.ecnState = "IDLE"].CEState = st.CEState
      /\ [st EXCEPT !.ecnState = "IDLE"].ecnState = "IDLE"
  BY DEF Socket
<1>3. Fresh(CwrFlag(st, cwr))
  BY <1>2 DEF Fresh, CwrFlag, Echoing
<1>4. Fresh(ReceivedAck(st, a))
  BY <1>1, <1>2 DEF Fresh, ReceivedAck, Echoing
<1> QED
  BY <1>3, <1>4

LEMMA SendKeepsAgreement ==
  ASSUME NEW st \in Socket, Agree(st), NEW by \in Senders
  PROVE  Agree(SendEmptyPacket(st, by, FALSE)) /\ Agree(AckWithEcho(st, by))
<1> DEFINE r(ece) == SendEmptyPacket(st, by, ece)
<1>1. \A ece \in BOOLEAN : /\ r(ece) \in Socket
                           /\ r(ece).CEState = st.CEState /\ r(ece).ecnState = st.ecnState
  <2>1. \A ece \in BOOLEAN : r(ece) \in Socket
    BY SendEmptyPacketType
  <2>2. \A ece : r(ece).CEState = st.CEState /\ r(ece).ecnState = st.ecnState
    BY DEF SendEmptyPacket, Socket
  <2> QED
    BY <2>1, <2>2
<1>2. LET q == [r(TRUE) EXCEPT !.ecnState = "SENDING_ECE"]
      IN  q.CEState = st.CEState /\ q.ecnState = "SENDING_ECE"
  BY <1>1 DEF Socket
<1>3. AckWithEcho(st, by) = IF st.ecnState \in Echoing
                            THEN [r(TRUE) EXCEPT !.ecnState = "SENDING_ECE"] ELSE r(FALSE)
  BY DEF AckWithEcho
<1> HIDE DEF r
<1>4. Agree(r(FALSE))
  BY <1>1 DEF Agree
<1>5. Agree(AckWithEcho(st, by))
  BY <1>1, <1>2, <1>3 DEF Agree, Echoing
<1> QED
  BY <1>4, <1>5 DEF r

\* An acknowledgment sent now leaves nothing held.
LEMMA AckWithEchoSettles ==
  ASSUME NEW st \in Socket, Sound(st), Agree(st), NEW by \in Senders
  PROVE  Timed(AckWithEcho(st, by)) /\ Agree(AckWithEcho(st, by))
<1>1. AckWithEcho(st, by).acked = AckWithEcho(st, by).nextRxSeq
      /\ AckWithEcho(st, by).nextRxSeq \in Int
  BY AckWithEchoEstablishesInv DEF Socket, SeqNum
<1>2. Timed(AckWithEcho(st, by))
  BY <1>1 DEF Timed
<1> QED
  BY <1>2, SendKeepsAgreement

LEMMA ReceivedDataSettles ==
  ASSUME NEW st \in Socket, Inv(st), Agree(st), NEW s \in Seg
  PROVE  Timed(ReceivedData(st, s)) /\ Agree(ReceivedData(st, s))
<1> DEFINE added == Add(st, s)
           count == added.delAckCount + 1
           now == CwndEvent(added, "NON_DELAYED_ACK")
           early == [added EXCEPT !.delAckCount = 0, !.delAckEvent = FALSE]
           full == CwndEvent(early, "NON_DELAYED_ACK")
           held == [added EXCEPT !.delAckCount = count, !.delAckEvent = TRUE]
           wait == CwndEvent(held, "DELAYED_ACK")
<1>1. /\ added \in Socket /\ Sound(added)
      /\ added.CEState = st.CEState /\ added.ecnState = st.ecnState
  BY AddType, AddSound DEF Inv, Add, Socket
<1>2. Timed(AckWithEcho(st, "data")) /\ Agree(AckWithEcho(st, "data"))
  BY AckWithEchoSettles DEF Inv, Senders
<1>3. ReceivedData(st, s) =
        IF ~CanAdd(st, s) THEN AckWithEcho(st, "data")
        ELSE IF GapOrFilled(added, st) THEN AckWithEcho(now, "data")
        ELSE IF count >= DelAckMaxCount THEN AckWithEcho(full, "data")
        ELSE wait
  BY Zenon DEF ReceivedData
<1> HIDE DEF added
<1>4. 0 \in 0 .. DelAckMaxCount
  BY DelAckAssumption
<1>5. /\ now \in Socket /\ now.received = added.received /\ now.nextRxSeq = added.nextRxSeq
      /\ now.acked = added.acked /\ now.seqDelayedACK = added.seqDelayedACK
      /\ now.CEState = st.CEState /\ now.ecnState = st.ecnState
  BY <1>1, HoldUpdate DEF Socket, CwndEvent
<1>6. /\ early \in Socket /\ early.received = added.received
      /\ early.nextRxSeq = added.nextRxSeq /\ early.acked = added.acked
      /\ early.seqDelayedACK = added.seqDelayedACK
      /\ early.CEState = st.CEState /\ early.ecnState = st.ecnState
  BY <1>1, <1>4, DelayUpdate DEF Socket
<1> HIDE DEF early
<1>7. /\ full \in Socket /\ full.received = added.received /\ full.nextRxSeq = added.nextRxSeq
      /\ full.acked = added.acked /\ full.seqDelayedACK = added.seqDelayedACK
      /\ full.CEState = st.CEState /\ full.ecnState = st.ecnState
  BY <1>6, HoldUpdate DEF Socket, CwndEvent
<1> HIDE DEF now, full
<1>8. Timed(AckWithEcho(now, "data")) /\ Agree(AckWithEcho(now, "data"))
  <2>1. Sound(now) /\ Agree(now)
    BY <1>1, <1>5 DEF Sound, Agree
  <2> QED
    BY <1>5, <2>1, AckWithEchoSettles DEF Senders
<1>9. Timed(AckWithEcho(full, "data")) /\ Agree(AckWithEcho(full, "data"))
  <2>1. Sound(full) /\ Agree(full)
    BY <1>1, <1>7 DEF Sound, Agree
  <2> QED
    BY <1>7, <2>1, AckWithEchoSettles DEF Senders
<1>10. wait.delAckEvent = TRUE /\ wait.CEState = st.CEState /\ wait.ecnState = st.ecnState
  BY <1>1 DEF Socket, CwndEvent
<1> HIDE DEF wait
<1>11. Timed(wait) /\ Agree(wait)
  BY <1>10 DEF Timed, Agree
<1> QED
  BY <1>2, <1>3, <1>8, <1>9, <1>11

LEMMA NextSettles ==
  ASSUME ~FullDuplex, TypeOK, Inv(rx), Timed(rx), Agree(rx), [Next]_vars
  PROVE  Timed(rx') /\ Agree(rx')
<1>0. /\ Idle \in Socket /\ Inv(Idle) /\ Agree(Idle)
  BY IdleInv DEF Agree, Idle, TypeOK, Socket
<1>1. ASSUME NEW s \in Seg, NEW cp \in DataCodePoints, NEW cwr \in BOOLEAN,
             NEW a \in AckInfo, ReceiveData(s, cp, cwr, a)
      PROVE  Timed(rx') /\ Agree(rx')
  <2>1. CASE OutOfRange(rx, s)
    <3> DEFINE r == SendEmptyPacket(Idle, "range", FALSE)
    <3>a. Idle \in Socket /\ Sound(Idle) /\ "range" \in Senders /\ FALSE \in BOOLEAN
      BY <1>0 DEF Inv, Senders
    <3>b. Idle.nextRxSeq \in Int
      BY <3>a DEF Socket, SeqNum
    <3>1. r.acked = r.nextRxSeq /\ r.nextRxSeq \in Int
      BY <3>a, <3>b, AckEstablishesInv
    <3>2. Agree(r)
      BY <1>0, SendKeepsAgreement DEF Senders
    <3>3. rx' = r
      BY <1>1, <2>1 DEF ReceiveData
    <3> HIDE DEF r
    <3> QED
      BY <3>1, <3>2, <3>3 DEF Timed
  <2>2. CASE ~OutOfRange(rx, s)
    <3> DEFINE e == EcnEvent(Idle, s, cp)
               c == CwrFlag(e, cwr)
               k == ReceivedAck(c, a)
    <3>1. s \in SeqNum /\ cp \in CodePoints /\ cp # "NotECT"
      BY SeqAssumption DEF Seg, SeqNum, DataCodePoints
    <3>2. e \in Socket /\ Inv(e) /\ Fresh(e)
      BY <1>0, <3>1, EcnEventType, EcnEventInv, EcnEventFresh DEF AfterEvent
    <3> HIDE DEF e
    <3>3. c \in Socket /\ Inv(c) /\ Fresh(c)
      BY <3>2, CwrFlagType, CwrFlagInv, EcnStateFresh DEF OnlyEcn
    <3> HIDE DEF c
    <3>4. k \in Socket /\ Inv(k) /\ Fresh(k)
      BY <3>3, ReceivedAckType, ReceivedAckInv, EcnStateFresh DEF OnlyEcn
    <3> HIDE DEF k
    <3>5. Agree(k)
      BY <3>4 DEF Fresh, Agree, Echoing
    <3>6. rx' = ReceivedData(k, s)
      BY <1>1, <2>2 DEF ReceiveData, DoRetransmit, SendPendingData, k, c, e
    <3> QED
      BY <3>4, <3>5, <3>6, ReceivedDataSettles
  <2> QED
    BY <2>1, <2>2
<1>2. CASE DelAckTimeout
  <2> DEFINE f == [Idle EXCEPT !.delAckEvent = FALSE, !.delAckCount = 0]
             h == CwndEvent(f, "DELAYED_ACK")
  <2>1. 0 \in 0 .. DelAckMaxCount
    BY DelAckAssumption
  <2>2. /\ f \in Socket /\ f.received = Idle.received /\ f.nextRxSeq = Idle.nextRxSeq
        /\ f.acked = Idle.acked /\ f.seqDelayedACK = Idle.seqDelayedACK
        /\ f.CEState = Idle.CEState /\ f.ecnState = Idle.ecnState
    BY <1>0, <2>1, DelayUpdate DEF Socket
  <2> HIDE DEF f
  <2>3. /\ h \in Socket /\ h.received = f.received /\ h.nextRxSeq = f.nextRxSeq
        /\ h.acked = f.acked /\ h.seqDelayedACK = f.seqDelayedACK
        /\ h.CEState = f.CEState /\ h.ecnState = f.ecnState
    BY <2>2, HoldUpdate DEF Socket, CwndEvent
  <2> HIDE DEF h
  <2>4. Sound(h) /\ Agree(h)
    BY <1>0, <2>2, <2>3 DEF Inv, Sound, Agree
  <2>5. rx' = AckWithEcho(h, "timer")
    BY <1>2 DEF DelAckTimeout, h, f
  <2> QED
    BY <2>3, <2>4, <2>5, AckWithEchoSettles DEF Senders
<1>3. CASE UNCHANGED vars
  BY <1>3 DEF vars, Timed, Agree
<1> QED
  BY <1>1, <1>2, <1>3 DEF Next, ReceiveStaleData, ReceivePureAck, SendData

LEMMA AlwaysSettled == ~FullDuplex => (Spec => [](Timed(rx) /\ Agree(rx)))
<1> SUFFICES ASSUME ~FullDuplex PROVE Spec => [](Timed(rx) /\ Agree(rx))
  OBVIOUS
<1>1. Init => Timed(rx) /\ Agree(rx)
  BY DEF Init, AfterHandshake, Timed, Agree, Echoing
<1>2. TypeOK /\ Inv(rx) /\ Timed(rx) /\ Agree(rx) /\ [Next]_vars => (Timed(rx) /\ Agree(rx))'
  BY NextSettles DEF Timed, Agree
<1> QED
  BY <1>1, <1>2, InvHolds, PTL DEF Spec

\* With data in one direction what is received in order and not acknowledged always
\* has a running timer, whichever acknowledgment cancelled the last one.
THEOREM HeldIsTimed == ~FullDuplex => (Spec => []HeldHasTimer)
<1> SUFFICES ASSUME ~FullDuplex PROVE Spec => []HeldHasTimer
  OBVIOUS
<1>1. Timed(rx) => HeldHasTimer
  BY DEF Timed, HeldHasTimer
<1> QED
  BY <1>1, AlwaysSettled, PTL

\* There the congestion control and the socket agree on the CE state between events.
THEOREM CopiesAgree == ~FullDuplex => (Spec => []CEStatesAgree)
<1> SUFFICES ASSUME ~FullDuplex PROVE Spec => []CEStatesAgree
  OBVIOUS
<1>1. Agree(rx) => CEStatesAgree
  BY DEF Agree, CEStatesAgree
<1> QED
  BY <1>1, AlwaysSettled, PTL

-----------------------------------------------------------------------------
(***************************************************************************)
(* What the acknowledgments of a step say.  Told is EchoMatchesState for   *)
(* the acknowledgments sent so far, against the CE state the event sets;   *)
(* Pending is the invariant behind EpisodeEchoed: marked data that was not *)
(* echoed is held, in CE state, where the flush will find it.              *)
(***************************************************************************)

Matches(by, ece, ce) ==
  /\ by \in {"data", "timer"} => ece = ce
  /\ by = "flush" => ece # ce

Told(out, ce) == \A i \in DOMAIN out : Matches(out[i].by, out[i].ece, ce)

Echoed(out) == \E i \in DOMAIN out : out[i].ece

Pending(st) ==
  st.unreported => st.CEState /\ st.holdingDelayedACK /\ st.seqDelayedACK # NoSeq

LEMMA AppendTells ==
  ASSUME NEW out \in Seq(Acks), NEW m \in Acks, NEW ce \in BOOLEAN
  PROVE  /\ Told(out, ce) /\ Matches(m.by, m.ece, ce) => Told(Append(out, m), ce)
         /\ m.ece \/ Echoed(out) => Echoed(Append(out, m))
<1> DEFINE r == Append(out, m)
<1>1. /\ DOMAIN r = 1 .. Len(out) + 1 /\ DOMAIN out = 1 .. Len(out) /\ Len(out) \in Nat
      /\ \A i \in 1 .. Len(out) : r[i] = out[i]
      /\ r[Len(out) + 1] = m
  OBVIOUS
<1> HIDE DEF r
<1>2. \A i \in DOMAIN r : i \in DOMAIN out \/ i = Len(out) + 1
  BY <1>1
<1>3. Told(out, ce) /\ Matches(m.by, m.ece, ce) => Told(r, ce)
  BY <1>1, <1>2 DEF Told
<1>4. m.ece \/ Echoed(out) => Echoed(r)
  BY <1>1 DEF Echoed
<1> QED
  BY <1>3, <1>4 DEF r

LEMMA SendEmptyPacketTells ==
  ASSUME NEW st \in Socket, NEW by \in Senders, NEW ece \in BOOLEAN
  PROVE  LET r == SendEmptyPacket(st, by, ece)
         IN  /\ r.CEState = st.CEState /\ r.holdingDelayedACK = st.holdingDelayedACK
             /\ r.seqDelayedACK = st.seqDelayedACK
             /\ r.unreported = (st.unreported /\ ~ece)
             /\ \A ce \in BOOLEAN :
                  Told(st.out, ce) /\ Matches(by, ece, ce) => Told(r.out, ce)
             /\ ece \/ Echoed(st.out) => Echoed(r.out)
<1> DEFINE r == SendEmptyPacket(st, by, ece)
           m == [by |-> by, ack |-> st.nextRxSeq, ece |-> ece]
<1>1. /\ r.CEState = st.CEState /\ r.holdingDelayedACK = st.holdingDelayedACK
      /\ r.seqDelayedACK = st.seqDelayedACK /\ r.unreported = (st.unreported /\ ~ece)
      /\ r.out = Append(st.out, m)
  BY DEF SendEmptyPacket, Socket
<1>2. m \in Acks /\ m.by = by /\ m.ece = ece /\ st.out \in Seq(Acks)
  BY DEF Acks, Socket
<1> HIDE DEF r, m
<1> QED
  BY <1>1, <1>2, AppendTells DEF r

\* An acknowledgment of the data path, sent while both copies of the CE state agree.
LEMMA AckWithEchoTells ==
  ASSUME NEW st \in Socket, Agree(st), NEW by \in {"data", "timer"},
         Told(st.out, st.CEState), st.unreported => st.CEState
  PROVE  LET r == AckWithEcho(st, by)
         IN  /\ r.CEState = st.CEState /\ ~r.unreported
             /\ Told(r.out, st.CEState)
             /\ st.CEState \/ Echoed(st.out) => Echoed(r.out)
<1> DEFINE r(ece) == SendEmptyPacket(st, by, ece)
           q == [r(TRUE) EXCEPT !.ecnState = "SENDING_ECE"]
<1>1. by \in Senders /\ st.CEState \in BOOLEAN /\ st.unreported \in BOOLEAN
  BY DEF Senders, Socket
<1>2. \A ece \in BOOLEAN : r(ece) \in Socket
  BY <1>1, SendEmptyPacketType
<1>3. \A ece \in BOOLEAN :
        /\ r(ece).CEState = st.CEState /\ r(ece).unreported = (st.unreported /\ ~ece)
        /\ ece = st.CEState => Told(r(ece).out, st.CEState)
        /\ ece \/ Echoed(st.out) => Echoed(r(ece).out)
  <2> SUFFICES ASSUME NEW ece \in BOOLEAN
               PROVE  /\ r(ece).CEState = st.CEState
                      /\ r(ece).unreported = (st.unreported /\ ~ece)
                      /\ ece = st.CEState => Told(r(ece).out, st.CEState)
                      /\ ece \/ Echoed(st.out) => Echoed(r(ece).out)
    OBVIOUS
  <2>1. ece = st.CEState => Matches(by, ece, st.CEState)
    BY DEF Matches
  <2> QED
    BY <1>1, <2>1, SendEmptyPacketTells
<1>4. /\ q.CEState = r(TRUE).CEState /\ q.unreported = r(TRUE).unreported
      /\ q.out = r(TRUE).out
  BY <1>2 DEF Socket
<1>5. AckWithEcho(st, by) = IF st.ecnState \in Echoing THEN q ELSE r(FALSE)
  BY DEF AckWithEcho
<1> HIDE DEF r, q
<1>6. CASE st.CEState
  BY <1>1, <1>3, <1>4, <1>5, <1>6 DEF Agree
<1>7. CASE ~st.CEState
  BY <1>1, <1>3, <1>5, <1>7 DEF Agree
<1> QED
  BY <1>6, <1>7

\* The flush: if something was pending it is reported, when setECE says so.
LEMMA FlushTells ==
  ASSUME NEW st \in Socket, st.out = <<>>, Pending(st), NEW setECE \in BOOLEAN
  PROVE  LET r == FlushDelayedACK(st, setECE)
         IN  /\ r.CEState = st.CEState /\ r.holdingDelayedACK = st.holdingDelayedACK
             /\ Told(r.out, ~setECE)
             /\ r.unreported => st.unreported
             /\ setECE => ~r.unreported
             /\ setECE /\ st.unreported => Echoed(r.out)
<1>1. st.unreported \in BOOLEAN /\ st.holdingDelayedACK \in BOOLEAN
  BY DEF Socket
<1>2. \A ce \in BOOLEAN : Told(st.out, ce)
  BY DEF Told
<1>3. CASE st.holdingDelayedACK /\ st.seqDelayedACK # NoSeq
  <2> DEFINE w == [st EXCEPT !.nextRxSeq = st.seqDelayedACK]
             f == SendEmptyPacket(w, "flush", setECE)
             r == [f EXCEPT !.nextRxSeq = st.nextRxSeq]
  <2>1. /\ w \in Socket /\ w.CEState = st.CEState /\ w.out = st.out
        /\ w.holdingDelayedACK = st.holdingDelayedACK /\ w.unreported = st.unreported
    BY <1>3 DEF Socket
  <2>2. FlushDelayedACK(st, setECE) = r
    BY <1>3 DEF FlushDelayedACK
  <2> HIDE DEF w
  <2>3. "flush" \in Senders
    BY DEF Senders
  <2>4. f \in Socket
    BY <2>1, <2>3, SendEmptyPacketType
  <2>5. Matches("flush", setECE, ~setECE)
    BY DEF Matches
  <2>6. /\ f.CEState = w.CEState /\ f.holdingDelayedACK = w.holdingDelayedACK
        /\ f.unreported = (w.unreported /\ ~setECE) /\ Told(f.out, ~setECE)
        /\ setECE => Echoed(f.out)
    BY <1>2, <2>1, <2>3, <2>5, SendEmptyPacketTells
  <2> HIDE DEF f
  <2>7. /\ r.CEState = f.CEState /\ r.holdingDelayedACK = f.holdingDelayedACK
        /\ r.unreported = f.unreported /\ r.out = f.out
    BY <2>4 DEF Socket
  <2> HIDE DEF r
  <2> QED
    BY <1>1, <2>1, <2>2, <2>6, <2>7
<1>4. CASE ~(st.holdingDelayedACK /\ st.seqDelayedACK # NoSeq)
  <2>1. FlushDelayedACK(st, setECE) = st /\ ~st.unreported
    BY <1>1, <1>4 DEF FlushDelayedACK, Pending
  <2> QED
    BY <1>1, <1>2, <2>1
<1> QED
  BY <1>3, <1>4

\* What a congestion event leaves behind.
EventTells(st, r) ==
  /\ Told(r.out, r.CEState)
  /\ r.unreported => r.CEState /\ r.holdingDelayedACK
  /\ st.unreported => r.CEState \/ Echoed(r.out)

LEMMA CEStateTells ==
  ASSUME NEW st \in Socket, st.out = <<>>, Pending(st)
  PROVE  EventTells(st, CEStateOn(st)) /\ EventTells(st, CEStateOff(st))
<1>0. /\ st.unreported \in BOOLEAN /\ st.CEState \in BOOLEAN
      /\ \A ce \in BOOLEAN : Told(st.out, ce)
  BY DEF Socket, Told
<1>1. EventTells(st, CEStateOn(st))
  <2> DEFINE f == IF st.CEState THEN st ELSE FlushDelayedACK(st, FALSE)
             r == [UpdateDelayedACK(f) EXCEPT !.CEState = TRUE, !.ecnState = "CE_RCVD"]
  <2>1. /\ f \in Socket /\ Told(f.out, TRUE) /\ (f.unreported => st.unreported)
        /\ f.holdingDelayedACK = st.holdingDelayedACK
    BY <1>0, FlushType, FlushTells
  <2>2. CEStateOn(st) = r
    BY Zenon DEF CEStateOn
  <2> HIDE DEF f
  <2>3. /\ r.CEState = TRUE /\ r.holdingDelayedACK = f.holdingDelayedACK
        /\ r.unreported = f.unreported /\ r.out = f.out
    BY <2>1 DEF UpdateDelayedACK, Socket
  <2> HIDE DEF r
  <2> QED
    BY <1>0, <2>1, <2>2, <2>3 DEF EventTells, Pending
<1>2. EventTells(st, CEStateOff(st))
  <2> DEFINE f == IF st.CEState THEN FlushDelayedACK(st, TRUE) ELSE st
             u == UpdateDelayedACK(f)
             e == IF u.ecnState \in Echoing THEN "IDLE" ELSE u.ecnState
             r == [u EXCEPT !.CEState = FALSE, !.ecnState = e]
  <2>1. /\ f \in Socket /\ Told(f.out, FALSE) /\ ~f.unreported
        /\ st.unreported => Echoed(f.out)
    BY <1>0, FlushType, FlushTells DEF Pending
  <2>2. CEStateOff(st) = r
    BY DEF CEStateOff
  <2> HIDE DEF f, e
  <2>3. r.CEState = FALSE /\ r.unreported = f.unreported /\ r.out = f.out
    BY <2>1 DEF UpdateDelayedACK, Socket
  <2> HIDE DEF r
  <2> QED
    BY <1>0, <2>1, <2>2, <2>3 DEF EventTells
<1> QED
  BY <1>1, <1>2

LEMMA EcnEventTells ==
  ASSUME NEW st \in Socket, st.out = <<>>, Pending(st),
         NEW s \in SeqNum, NEW cp \in CodePoints, cp # "NotECT"
  PROVE  EventTells(st, EcnEvent(st, s, cp))
<1> DEFINE m == [st EXCEPT !.ecnCESeq = s, !.ecnState = "CE_RCVD"]
<1>1. /\ m \in Socket /\ m.out = st.out /\ m.unreported = st.unreported
      /\ m.CEState = st.CEState /\ m.holdingDelayedACK = st.holdingDelayedACK
      /\ m.seqDelayedACK = st.seqDelayedACK
  BY DEF Socket, EcnStates
<1>2. EcnEvent(st, s, cp) = IF cp = "CE" /\ st.ecnCESeq < s THEN CEStateOn(m)
                            ELSE CEStateOff(st)
  BY DEF EcnEvent, CwndEvent
<1> HIDE DEF m
<1>3. EventTells(m, CEStateOn(m))
  BY <1>1, CEStateTells DEF Pending
<1> QED
  BY <1>1, <1>2, <1>3, CEStateTells DEF EventTells

\* The CWR rule and the acknowledgment carried by a segment send nothing.
LEMMA EcnStateTells ==
  ASSUME NEW st \in Socket, NEW cwr \in BOOLEAN, NEW a \in AckInfo
  PROVE  \A r \in {CwrFlag(st, cwr), ReceivedAck(st, a)} :
           /\ r.out = st.out /\ r.CEState = st.CEState /\ r.unreported = st.unreported
           /\ r.holdingDelayedACK = st.holdingDelayedACK
           /\ r.seqDelayedACK = st.seqDelayedACK
BY DEF CwrFlag, ReceivedAck, Socket

\* The data path reports what is pending or holds it under the CE state.
LEMMA ReceivedDataTells ==
  ASSUME NEW st \in Socket, Agree(st), NEW s \in Seg, Told(st.out, st.CEState),
         st.unreported => st.CEState, st.seqDelayedACK # NoSeq
  PROVE  LET r == ReceivedData(st, s)
         IN  /\ r.CEState = st.CEState /\ Pending(r) /\ Told(r.out, st.CEState)
             /\ Echoed(st.out) => Echoed(r.out)
<1> DEFINE added == Add(st, s)
           count == added.delAckCount + 1
           now == CwndEvent(added, "NON_DELAYED_ACK")
           early == [added EXCEPT !.delAckCount = 0, !.delAckEvent = FALSE]
           full == CwndEvent(early, "NON_DELAYED_ACK")
           held == [added EXCEPT !.delAckCount = count, !.delAckEvent = TRUE]
           wait == CwndEvent(held, "DELAYED_ACK")
           Same(t) == /\ t \in Socket /\ t.CEState = st.CEState
                      /\ t.ecnState = st.ecnState /\ t.out = st.out
                      /\ t.unreported = (st.unreported \/ st.CEState)
           Good(r) == /\ r.CEState = st.CEState /\ Pending(r)
                      /\ Told(r.out, st.CEState)
                      /\ Echoed(st.out) => Echoed(r.out)
<1>0. st.unreported \in BOOLEAN /\ st.CEState \in BOOLEAN
  BY DEF Socket
<1>1. Same(added) /\ added.seqDelayedACK = st.seqDelayedACK
  BY AddType DEF Add, Socket
<1>2. Good(AckWithEcho(st, "data"))
  BY AckWithEchoTells DEF Pending
<1>3. ReceivedData(st, s) =
        IF ~CanAdd(st, s) THEN AckWithEcho(st, "data")
        ELSE IF GapOrFilled(added, st) THEN AckWithEcho(now, "data")
        ELSE IF count >= DelAckMaxCount THEN AckWithEcho(full, "data")
        ELSE wait
  BY Zenon DEF ReceivedData
<1> HIDE DEF added
<1>4. \A t : Same(t) => Good(AckWithEcho(t, "data"))
  <2> SUFFICES ASSUME NEW t, Same(t) PROVE Good(AckWithEcho(t, "data"))
    OBVIOUS
  <2>1. Agree(t)
    BY DEF Agree
  <2>2. t.unreported => t.CEState
    BY <1>0
  <2>3. Told(t.out, t.CEState)
    OBVIOUS
  <2> QED
    BY <2>1, <2>2, <2>3, AckWithEchoTells DEF Pending
<1>5. Same(now)
  BY <1>1, HoldUpdate DEF Socket, CwndEvent
<1>6. Same(full)
  <2>1. 0 \in 0 .. DelAckMaxCount
    BY DelAckAssumption
  <2>2. Same(early)
    BY <1>1, <2>1, DelayUpdate DEF Socket
  <2> HIDE DEF early
  <2> QED
    BY <2>2, HoldUpdate DEF Socket, CwndEvent
<1>7. Good(wait)
  <2>1. /\ wait.CEState = added.CEState /\ wait.holdingDelayedACK = TRUE
        /\ wait.seqDelayedACK = added.seqDelayedACK /\ wait.out = added.out
        /\ wait.unreported = added.unreported
    BY <1>1 DEF Socket, CwndEvent
  <2> HIDE DEF wait
  <2> QED
    BY <1>0, <1>1, <2>1 DEF Pending
<1> HIDE DEF now, full, wait, Same, Good
<1>8. Good(ReceivedData(st, s))
  BY <1>2, <1>3, <1>4, <1>5, <1>6, <1>7
<1> QED
  BY <1>8 DEF Good

LEMMA NextTells ==
  ASSUME ~FullDuplex, TypeOK, Inv(rx), Agree(rx), Pending(rx), Next
  PROVE  /\ Pending(rx')
         /\ Told(rx'.out, rx'.CEState)
         /\ rx.unreported => rx'.CEState \/ Echoed(rx'.out)
<1>0. /\ Idle \in Socket /\ Inv(Idle) /\ Agree(Idle) /\ Pending(Idle) /\ Idle.out = <<>>
      /\ Idle.unreported = rx.unreported /\ Idle.unreported \in BOOLEAN
      /\ \A ce \in BOOLEAN : Told(Idle.out, ce)
  <2>1. /\ Idle.out = <<>> /\ Idle.unreported = rx.unreported
        /\ Idle.CEState = rx.CEState /\ Idle.ecnState = rx.ecnState
        /\ Idle.holdingDelayedACK = rx.holdingDelayedACK
        /\ Idle.seqDelayedACK = rx.seqDelayedACK /\ Idle.unreported \in BOOLEAN
    BY DEF Idle, TypeOK, Socket
  <2> QED
    BY <2>1, IdleInv DEF Agree, Pending, Told
<1>1. ASSUME NEW s \in Seg, NEW cp \in DataCodePoints, NEW cwr \in BOOLEAN,
             NEW a \in AckInfo, ReceiveData(s, cp, cwr, a)
      PROVE  /\ Pending(rx')
             /\ Told(rx'.out, rx'.CEState)
             /\ rx.unreported => rx'.CEState \/ Echoed(rx'.out)
  <2>1. CASE OutOfRange(rx, s)
    <3> DEFINE r == SendEmptyPacket(Idle, "range", FALSE)
    <3>1. \A ce \in BOOLEAN : Matches("range", FALSE, ce)
      BY DEF Matches
    <3>2. /\ r.CEState = Idle.CEState /\ r.holdingDelayedACK = Idle.holdingDelayedACK
          /\ r.seqDelayedACK = Idle.seqDelayedACK
          /\ r.unreported = (Idle.unreported /\ ~FALSE)
          /\ \A ce \in BOOLEAN : Told(r.out, ce)
      BY <1>0, <3>1, SendEmptyPacketTells DEF Senders
    <3>3. rx' = r /\ Idle.CEState \in BOOLEAN
      BY <1>0, <1>1, <2>1 DEF ReceiveData, Socket
    <3> HIDE DEF r
    <3> QED
      BY <1>0, <3>2, <3>3 DEF Pending
  <2>2. CASE ~OutOfRange(rx, s)
    <3> DEFINE e == EcnEvent(Idle, s, cp)
               c == CwrFlag(e, cwr)
               k == ReceivedAck(c, a)
    <3>1. s \in SeqNum /\ cp \in CodePoints /\ cp # "NotECT"
      BY SeqAssumption DEF Seg, SeqNum, DataCodePoints
    <3>2. e \in Socket /\ Fresh(e) /\ EventTells(Idle, e)
      BY <1>0, <3>1, EcnEventType, EcnEventFresh, EcnEventTells
    <3>3. e.seqDelayedACK # NoSeq
      <4>1. e.seqDelayedACK = Idle.nextRxSeq
        BY <1>0, <3>1, EcnEventInv DEF AfterEvent
      <4> QED
        BY <1>0, <4>1 DEF Socket, SeqNum, NoSeq
    <3> HIDE DEF e
    <3>4. c \in Socket /\ Fresh(c)
      BY <3>2, CwrFlagType, EcnStateFresh
    <3>5. /\ c.out = e.out /\ c.CEState = e.CEState /\ c.unreported = e.unreported
          /\ c.seqDelayedACK = e.seqDelayedACK
      BY <3>2, EcnStateTells
    <3> HIDE DEF c
    <3>6. k \in Socket /\ Fresh(k)
      BY <3>4, ReceivedAckType, EcnStateFresh
    <3>7. /\ k.out = c.out /\ k.CEState = c.CEState /\ k.unreported = c.unreported
          /\ k.seqDelayedACK = c.seqDelayedACK
      BY <3>4, EcnStateTells
    <3> HIDE DEF k
    <3>8. Agree(k) /\ Told(k.out, k.CEState) /\ (k.unreported => k.CEState)
      BY <3>2, <3>5, <3>6, <3>7 DEF Fresh, Agree, Echoing, EventTells
    <3>9. /\ ReceivedData(k, s).CEState = k.CEState /\ Pending(ReceivedData(k, s))
          /\ Told(ReceivedData(k, s).out, k.CEState)
          /\ Echoed(k.out) => Echoed(ReceivedData(k, s).out)
      BY <3>3, <3>5, <3>6, <3>7, <3>8, ReceivedDataTells
    <3>10. rx' = ReceivedData(k, s)
      BY <1>1, <2>2 DEF ReceiveData, DoRetransmit, SendPendingData, k, c, e
    <3>11. Pending(rx') /\ Told(rx'.out, rx'.CEState)
      BY <3>9, <3>10
    <3>12. ASSUME rx.unreported PROVE rx'.CEState \/ Echoed(rx'.out)
      <4>1. e.CEState \/ Echoed(e.out)
        BY <1>0, <3>2, <3>12 DEF EventTells
      <4> QED
        BY <3>5, <3>7, <3>9, <3>10, <4>1
    <3> QED
      BY <3>11, <3>12
  <2> QED
    BY <2>1, <2>2
<1>2. CASE DelAckTimeout
  <2> DEFINE f == [Idle EXCEPT !.delAckEvent = FALSE, !.delAckCount = 0]
             h == CwndEvent(f, "DELAYED_ACK")
  <2>1. 0 \in 0 .. DelAckMaxCount
    BY DelAckAssumption
  <2>2. /\ f \in Socket /\ f.CEState = Idle.CEState /\ f.ecnState = Idle.ecnState
        /\ f.out = Idle.out /\ f.unreported = Idle.unreported
    BY <1>0, <2>1, DelayUpdate DEF Socket
  <2> HIDE DEF f
  <2>3. /\ h \in Socket /\ h.CEState = f.CEState /\ h.ecnState = f.ecnState
        /\ h.out = f.out /\ h.unreported = f.unreported
    BY <2>2, HoldUpdate DEF Socket, CwndEvent
  <2> HIDE DEF h
  <2>4. Agree(h) /\ Told(h.out, h.CEState) /\ (h.unreported => h.CEState)
    BY <1>0, <2>2, <2>3 DEF Agree, Pending, Socket
  <2>5. rx' = AckWithEcho(h, "timer")
    BY <1>2 DEF DelAckTimeout, h, f
  <2>6. /\ rx'.CEState = h.CEState /\ ~rx'.unreported /\ Told(rx'.out, h.CEState)
    BY <2>3, <2>4, <2>5, AckWithEchoTells
  <2> QED
    BY <1>0, <2>2, <2>3, <2>6 DEF Pending
<1> QED
  BY <1>1, <1>2 DEF Next, ReceiveStaleData, ReceivePureAck, SendData

LEMMA StepTells ==
  ~FullDuplex => (Spec => [][Told(rx'.out, rx'.CEState)
                             /\ (rx.unreported => rx'.CEState \/ Echoed(rx'.out))]_vars)
<1> SUFFICES ASSUME ~FullDuplex
             PROVE  Spec => [][Told(rx'.out, rx'.CEState)
                               /\ (rx.unreported => rx'.CEState \/ Echoed(rx'.out))]_vars
  OBVIOUS
<1>1. Init => Pending(rx)
  BY DEF Init, AfterHandshake, Pending
<1>2. TypeOK /\ Inv(rx) /\ Agree(rx) /\ Pending(rx) /\ [Next]_vars => Pending(rx)'
  <2>1. UNCHANGED vars /\ Pending(rx) => Pending(rx)'
    BY DEF vars, Pending
  <2>2. TypeOK /\ Inv(rx) /\ Agree(rx) /\ Pending(rx) /\ Next => Pending(rx')
    BY NextTells
  <2> QED
    BY <2>1, <2>2 DEF Pending
<1>3. TypeOK /\ Inv(rx) /\ Agree(rx) /\ Pending(rx) /\ [Next]_vars
        => [Told(rx'.out, rx'.CEState)
            /\ (rx.unreported => rx'.CEState \/ Echoed(rx'.out))]_vars
  BY NextTells
<1> QED
  BY <1>1, <1>2, <1>3, InvHolds, AlwaysSettled, PTL DEF Spec

\* With data in one direction every acknowledgment of the data path or the timer
\* carries the CE state the event leaves, and every flush the opposite one.
THEOREM EchoesMatch == ~FullDuplex => (Spec => EchoMatchesState)
<1> SUFFICES ASSUME ~FullDuplex PROVE Spec => EchoMatchesState
  OBVIOUS
<1>1. [Told(rx'.out, rx'.CEState)
       /\ (rx.unreported => rx'.CEState \/ Echoed(rx'.out))]_vars
        => [\A i \in DOMAIN rx'.out :
              LET sent == rx'.out[i]
              IN  /\ sent.by \in {"data", "timer"} => sent.ece = rx'.CEState
                  /\ sent.by = "flush" => sent.ece # rx'.CEState]_vars
  BY DEF Told, Matches
<1> QED
  BY <1>1, StepTells, PTL DEF EchoMatchesState

\* There a CE episode with marked data still to be echoed ends with an ECE.
THEOREM EpisodesAreEchoed == ~FullDuplex => (Spec => EpisodeEchoed)
<1> SUFFICES ASSUME ~FullDuplex PROVE Spec => EpisodeEchoed
  OBVIOUS
<1>1. [Told(rx'.out, rx'.CEState)
       /\ (rx.unreported => rx'.CEState \/ Echoed(rx'.out))]_vars
        => [rx.unreported /\ ~rx'.CEState
              => \E i \in DOMAIN rx'.out : rx'.out[i].ece]_vars
  BY DEF Echoed
<1> QED
  BY <1>1, StepTells, PTL DEF EpisodeEchoed

-----------------------------------------------------------------------------
(* The receiver implements the acknowledgment service *)

LEMMA GapIsNextRxSeq ==
  ASSUME NEW held \in SUBSET Seg, NEW n \in SeqNum, n \notin held, 1 .. n - 1 \subseteq held
  PROVE  Service!Gap(held) = n
<1> DEFINE G(k) == k \in 1 .. MaxSeq + 1 /\ k \notin held /\ 1 .. k - 1 \subseteq held
<1>1. G(n)
  BY DEF SeqNum
<1>2. \A k : G(k) => k = n
  BY SeqAssumption DEF SeqNum
<1>3. Service!Gap(held) = CHOOSE k : G(k)
  BY DEF Service!Gap
<1> HIDE DEF G
<1> QED
  BY <1>1, <1>2, <1>3

LEMMA ServiceInit == Init => Service!Init
BY DEF Init, AfterHandshake, Service!Init

LEMMA ServiceStep ==
  ASSUME TypeOK, Inv(rx), [Next]_vars
  PROVE  Service!Next \/ UNCHANGED <<rx.received, rx.acked>>
<1>1. TypeOK' /\ Progress
  BY NextType, NextProgress
<1>2. Service!Gap(rx'.received) = rx'.nextRxSeq
  BY <1>1, GapIsNextRxSeq DEF TypeOK, Socket, Progress, Inv, Sound
<1>3. /\ rx.acked \in Int /\ rx'.acked \in Int /\ rx'.nextRxSeq \in Int
      /\ rx'.acked <= rx'.nextRxSeq /\ rx.acked <= rx'.acked
      /\ rx'.nextRxSeq - rx'.acked <= DelAckMaxCount
  BY <1>1, DelAckAssumption DEF TypeOK, Socket, SeqNum, Progress, Inv, Sound, Counted
<1>4. Service!Advance
  BY <1>2, <1>3 DEF Service!Advance
<1>5. CASE rx'.received = rx.received
  BY <1>4, <1>5 DEF Service!Next, Service!Acknowledge
<1>6. ASSUME NEW s \in Seg, rx'.received = rx.received \cup {s} PROVE Service!Next
  BY <1>4, <1>6 DEF Service!Next, Service!Arrive, Service!Seg, Seg
<1> QED
  BY <1>1, <1>5, <1>6 DEF Progress

\* The detailed receiver, flushes and rewinds included, implements CumulativeAck.
THEOREM ReceiverImplementsService == Spec => ImplementsService
<1>1. Init => Service!Init
  BY ServiceInit
<1>2. TypeOK /\ Inv(rx) /\ [Next]_vars => [Service!Next]_(Service!vars)
  BY ServiceStep DEF Service!vars
<1> QED
  BY <1>1, <1>2, InvHolds, PTL DEF Spec, Service!Spec, ImplementsService
=============================================================================
