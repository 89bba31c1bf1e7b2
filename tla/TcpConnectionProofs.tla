------------------------ MODULE TcpConnectionProofs ------------------------
(***************************************************************************)
(* Theorems about TcpConnection, for every value of its constants.         *)
(*                                                                         *)
(* The first part is the type of both sockets, handler by handler.  The    *)
(* second is the agreement on ECN: an invariant over the two sockets and   *)
(* every segment in the network, because a copy of an old SYN or SYN|ACK   *)
(* may arrive at any later time and in any state.  The third is the        *)
(* acknowledgment of FINs, by an invariant of the same shape about the     *)
(* sequence numbers: the old copies may even come from an earlier socket.  *)
(***************************************************************************)
EXTENDS TcpConnection, TLAPS

LEMMA NewSocketType == ASSUME NEW m \in UseEcnValues PROVE NewSocket(m) \in Socket
BY ConnectionAssumption DEF NewSocket, Socket, States, NoFin, NoEvent

LEMMA CloseAndNotifyType ==
  ASSUME NEW s \in Socket
  PROVE  CloseAndNotify(s) \in Socket /\ DeallocateEndPoint(s) \in Socket
BY DEF CloseAndNotify, DeallocateEndPoint, Socket, States, NoEvent

LEMMA SentType == ASSUME NEW flags \in SUBSET Flags PROVE Sent(flags) \in SUBSET Flags
BY DEF Sent, Flags

LEMMA EmitType ==
  ASSUME NEW s \in Socket, NEW flags \in SUBSET Flags, "SYN" \in flags => s.synCount > 0
  PROVE  Emit(s, flags) \in Socket
<1> DEFINE header == Header(s, flags)
           count == IF "SYN" \in flags THEN s.synCount - 1 ELSE s.synCount
           event == IF s.retx = NoEvent /\ flags \cap {"SYN", "FIN"} # {}
                    THEN Sent(flags) ELSE s.retx
           out == s.out \cup {header}
<1>1. header \in Segments
  BY SentType DEF Header, Segments, Socket
<1>2. count \in 0 .. SynRetries
  BY ConnectionAssumption DEF Socket
<1>3. event \in {RtoEvent} \cup SUBSET Flags
  BY SentType DEF Socket
<1>4. out \in SUBSET Segments
  BY <1>1 DEF Socket
<1>5. Emit(s, flags) = [s EXCEPT !.out = out, !.synCount = count, !.retx = event]
  BY DEF Emit
<1> HIDE DEF header, count, event, out
<1>6. QED
  BY <1>2, <1>3, <1>4, <1>5 DEF Socket

LEMMA SendEmptyPacketType ==
  ASSUME NEW s \in Socket, NEW flags \in SUBSET Flags
  PROVE  SendEmptyPacket(s, flags) \in Socket
<1>1. "SYN" \in flags /\ s.synCount # 0 => s.synCount > 0
  BY ConnectionAssumption DEF Socket
<1>2. QED
  BY <1>1, EmitType, CloseAndNotifyType DEF SendEmptyPacket

LEMMA AbortType ==
  ASSUME NEW s \in Socket, NEW flags
  PROVE  Abort(s, flags) \in Socket /\ CloseAndNotify(SendRST(s)) \in Socket
BY SendEmptyPacketType, CloseAndNotifyType DEF Abort, SendRST, Flags

LEMMA StateType ==
  ASSUME NEW s \in Socket, NEW st \in States
  PROVE  [s EXCEPT !.state = st] \in Socket
BY DEF Socket

LEMMA CloseType == ASSUME NEW s \in Socket PROVE Close(s) \in Socket
<1>1. {"FIN"} \in SUBSET Flags /\ {"FIN", "ACK"} \in SUBSET Flags
  BY DEF Flags
<1>2. "FIN_WAIT_1" \in States /\ "LAST_ACK" \in States
  BY DEF States
<1>3. QED
  BY <1>1, <1>2, SendEmptyPacketType, StateType, AbortType DEF Close

LEMMA TimeWaitType == ASSUME NEW s \in Socket PROVE TimeWait(s) \in Socket
BY DEF TimeWait, Socket, States, NoEvent

LEMMA SetFinSequenceType ==
  ASSUME NEW s \in Socket, NEW n \in Nat
  PROVE  SetFinSequence(s, n) \in Socket
<1> DEFINE nextRx == IF s.nextRx = n THEN n + 1 ELSE s.nextRx
<1>1. nextRx \in Nat
  BY DEF Socket
<1>2. SetFinSequence(s, n) = [s EXCEPT !.fin = n, !.nextRx = nextRx]
  BY DEF SetFinSequence
<1> HIDE DEF nextRx
<1>3. QED
  BY <1>1, <1>2 DEF Socket

LEMMA PeerCloseType ==
  ASSUME NEW s \in Socket, NEW seg \in Segments
  PROVE  PeerClose(s, seg) \in Socket
<1> DEFINE c == SetFinSequence(s, seg.seq)
           w == [c EXCEPT !.state = "CLOSE_WAIT"]
           d == IF w.shutdownSend THEN Close(w) ELSE SendEmptyPacket(w, {"ACK"})
<1>1. c \in Socket
  BY SetFinSequenceType DEF Segments
<1>2. w \in Socket
  BY <1>1, StateType DEF States
<1>3. d \in Socket
  BY <1>2, CloseType, SendEmptyPacketType DEF Flags
<1>4. DoPeerClose(c) \in Socket
  <2>1. DoPeerClose(c) = IF d.state = "LAST_ACK"
                         THEN [d EXCEPT !.retrCount = DataRetries, !.lastAck = TRUE] ELSE d
    BY DEF DoPeerClose
  <2> HIDE DEF d
  <2>2. DataRetries \in 0 .. DataRetries
    BY ConnectionAssumption
  <2>3. [d EXCEPT !.retrCount = DataRetries, !.lastAck = TRUE] \in Socket
    BY <1>3, <2>2 DEF Socket
  <2>4. QED
    BY <1>3, <2>1, <2>3
<1>5. QED
  BY <1>1, <1>4 DEF PeerClose

LEMMA ReceivedAckType ==
  ASSUME NEW s \in Socket, NEW a \in Nat
  PROVE  ReceivedAck(s, a) \in Socket
<1> DEFINE nextTx == IF a > s.nextTx THEN a ELSE s.nextTx
           event == IF s.state \in {"FIN_WAIT_1", "CLOSING"} THEN RtoEvent ELSE NoEvent
<1>1. nextTx \in Nat /\ event \in {RtoEvent} \cup SUBSET Flags /\ DataRetries \in 0 .. DataRetries
  BY ConnectionAssumption DEF Socket, NoEvent
<1>2. NewAck(s, a) = [s EXCEPT !.head = a, !.nextTx = nextTx, !.retrCount = DataRetries,
                               !.retx = event]
  BY DEF NewAck
<1> HIDE DEF nextTx, event
<1>3. NewAck(s, a) \in Socket
  BY <1>1, <1>2 DEF Socket
<1>4. [s EXCEPT !.nextTx = a] \in Socket
  BY DEF Socket
<1>5. QED
  BY <1>3, <1>4 DEF ReceivedAck

LEMMA SynchronizeType == ASSUME NEW s \in Socket PROVE Synchronize(s) \in Socket
<1> DEFINE next == s.nextTx + 1
<1>1. next \in Nat /\ NoEvent \in SUBSET Flags
  BY DEF Socket, NoEvent
<1>2. Synchronize(s) = [s EXCEPT !.retx = NoEvent, !.nextTx = next, !.highTx = next, !.head = next]
  BY DEF Synchronize
<1> HIDE DEF next
<1>3. QED
  BY <1>1, <1>2 DEF Socket

LEMMA AnswerSynType ==
  ASSUME NEW s \in Socket, NEW seg \in Segments
  PROVE  AnswerSyn(s, seg) \in Socket
<1> DEFINE flags == {"SYN", "ACK"} \cup (IF IsEcnSyn(s, seg) THEN {"ECE"} ELSE {})
           c == [s EXCEPT !.nextRx = seg.seq + 1]
           r == SendEmptyPacket(c, flags)
           ecn == IsEcnSyn(s, seg)
<1>1. c \in Socket
  BY DEF Socket, Segments
<1>2. flags \in SUBSET Flags
  BY DEF Flags
<1>3. r \in Socket
  BY <1>1, <1>2, SendEmptyPacketType
<1>4. ecn \in BOOLEAN
  BY DEF IsEcnSyn
<1>5. AnswerSyn(s, seg) = [r EXCEPT !.ecn = ecn]
  BY DEF AnswerSyn
<1> HIDE DEF r, ecn
<1>6. QED
  BY <1>3, <1>4, <1>5 DEF Socket

LEMMA CompleteForkType ==
  ASSUME NEW s \in Socket, NEW seg \in Segments
  PROVE  CompleteFork(s, seg) \in Socket
<1>1. [s EXCEPT !.state = "SYN_RCVD", !.live = TRUE, !.shutdownSend = TRUE] \in Socket
  BY DEF Socket, States
<1>2. QED
  BY <1>1, AnswerSynType DEF CompleteFork

LEMMA ProcessSynSentType ==
  ASSUME NEW s \in Socket, NEW seg \in Segments
  PROVE  ProcessSynSent(s, seg) \in Socket
<1> DEFINE c == [Synchronize(s) EXCEPT !.state = "ESTABLISHED", !.nextRx = seg.seq + 1]
           r == SendEmptyPacket(c, {"ACK"})
           ecn == IsEcnSynAck(s, seg)
           next == seg.seq + 1
<1>1. c \in Socket
  <2>1. next \in Nat
    BY DEF Segments
  <2>2. c = [Synchronize(s) EXCEPT !.state = "ESTABLISHED", !.nextRx = next]
    OBVIOUS
  <2> HIDE DEF next, c
  <2>3. QED
    BY <2>1, <2>2, SynchronizeType DEF Socket, States
<1>2. r \in Socket
  BY <1>1, SendEmptyPacketType DEF Flags
<1>3. ecn \in BOOLEAN
  BY DEF IsEcnSynAck
<1> HIDE DEF c, r, ecn
<1>4. [r EXCEPT !.ecn = ecn] \in Socket
  BY <1>2, <1>3 DEF Socket
<1>5. QED
  BY <1>4, AbortType, CloseAndNotifyType DEF ProcessSynSent, c, r, ecn

LEMMA ProcessSynRcvdType ==
  ASSUME NEW s \in Socket, NEW seg \in Segments
  PROVE  ProcessSynRcvd(s, seg) \in Socket
<1>1. [Synchronize(s) EXCEPT !.state = "ESTABLISHED"] \in Socket
  BY SynchronizeType, StateType DEF States
<1>2. seg.ack \in Nat
  BY DEF Segments
<1>3. QED
  BY <1>1, <1>2, SynchronizeType, ReceivedAckType, AnswerSynType, PeerCloseType, AbortType
     DEF ProcessSynRcvd

LEMMA ProcessEstablishedType ==
  ASSUME NEW s \in Socket, NEW seg \in Segments
  PROVE  ProcessEstablished(s, seg) \in Socket
<1>1. seg.ack \in Nat /\ {"ACK"} \in SUBSET Flags
  BY DEF Segments, Flags
<1>2. QED
  BY <1>1, SendEmptyPacketType, ReceivedAckType, PeerCloseType, AbortType DEF ProcessEstablished

LEMMA FinInWaitType ==
  ASSUME NEW s \in Socket, NEW seg \in Segments
  PROVE  FinInWait(s, seg) \in Socket
<1>1. {"ACK"} \in SUBSET Flags /\ "CLOSING" \in States
  BY DEF Flags, States
<1>2. QED
  BY <1>1, SendEmptyPacketType, StateType, TimeWaitType DEF FinInWait

LEMMA ProcessWaitType ==
  ASSUME NEW s \in Socket, NEW seg \in Segments
  PROVE  ProcessWait(s, seg) \in Socket
<1> DEFINE a == ReceivedAck(s, seg.ack)
           f == SetFinSequence(a, seg.seq)
           w == IF a.state = "FIN_WAIT_1" /\ seg.ack = a.highTx + 1
                THEN [a EXCEPT !.state = "FIN_WAIT_2"] ELSE a
<1>1. a \in Socket
  BY ReceivedAckType DEF Segments
<1>2. f \in Socket /\ w \in Socket
  BY <1>1, SetFinSequenceType, StateType DEF Segments, States
<1> HIDE DEF a, f, w
<1>3. QED
  BY <1>2, FinInWaitType, AbortType DEF ProcessWait, a, f, w

LEMMA ClosingType ==
  ASSUME NEW s \in Socket, NEW seg \in Segments
  PROVE  ProcessClosing(s, seg) \in Socket /\ ProcessLastAck(s, seg) \in Socket
<1>1. {"ACK"} \in SUBSET Flags /\ {"FIN", "ACK"} \in SUBSET Flags
  BY DEF Flags
<1>2. QED
  BY <1>1, SendEmptyPacketType, TimeWaitType, CloseAndNotifyType, AbortType
     DEF ProcessClosing, ProcessLastAck

LEMMA DoForwardUpType ==
  ASSUME NEW s \in Socket, NEW seg \in Segments
  PROVE  DoForwardUp(s, seg) \in Socket
<1>1. CwrFlag(s, seg) \in Socket
  BY DEF CwrFlag, Socket
<1>2. QED
  BY <1>1, ProcessSynSentType, ProcessSynRcvdType, ProcessEstablishedType, ProcessWaitType,
     ClosingType DEF DoForwardUp


LEMMA NoEndPointsFoundType ==
  ASSUME NEW seg \in Segments
  PROVE  NoEndPointsFound(seg) \in SUBSET Segments
BY DEF NoEndPointsFound, Segments, Flags

LEMMA TransmitType ==
  ASSUME TypeOK, NEW e \in Ends, NEW sent \in SUBSET Segments, NEW received,
         Transmit(e, sent, received)
  PROVE  net' \in [Ends -> SUBSET Segments]
<1>1. Peer(e) \in Ends
  BY DEF Ends, Peer
<1>2. PICK in \in {net[e], net[e] \ received}, out \in {net[Peer(e)], net[Peer(e)] \cup sent} :
        net' = [net EXCEPT ![e] = in, ![Peer(e)] = out]
  BY DEF Transmit
<1>3. in \in SUBSET Segments /\ out \in SUBSET Segments
  BY <1>1 DEF TypeOK
<1>4. QED
  BY <1>1, <1>2, <1>3 DEF TypeOK

LEMMA BecomesType ==
  ASSUME TypeOK, NEW e \in Ends, NEW s \in Socket, NEW received, Becomes(e, s, received)
  PROVE  /\ sock' \in [Ends -> Socket]
         /\ net' \in [Ends -> SUBSET Segments]
         /\ finSeen' \subseteq Ends
<1>1. [s EXCEPT !.out = {}] \in Socket
  BY DEF Socket
<1>2. sock' \in [Ends -> Socket]
  BY <1>1 DEF Becomes, TypeOK
<1>3. net' \in [Ends -> SUBSET Segments]
  BY TransmitType DEF Becomes, Socket
<1>4. finSeen' \subseteq Ends
  BY DEF Becomes, TypeOK, Ends, Peer
<1>5. QED
  BY <1>2, <1>3, <1>4

LEMMA DoConnectType ==
  ASSUME NEW m \in UseEcnValues
  PROVE  DoConnect([NewSocket(m) EXCEPT !.live = TRUE]) \in Socket
<1> DEFINE n == [NewSocket(m) EXCEPT !.live = TRUE]
           syn == IF n.useEcn = "On" THEN {"SYN", "ECE", "CWR"} ELSE {"SYN"}
           r == SendEmptyPacket(n, syn)
<1>1. n \in Socket
  <2>1. \A t \in Socket : [t EXCEPT !.live = TRUE] \in Socket
    BY DEF Socket
  <2>2. QED
    BY <2>1, NewSocketType
<1>2. r \in Socket
  BY <1>1, SendEmptyPacketType DEF Flags
<1>3. DoConnect(n) = [r EXCEPT !.state = "SYN_SENT", !.ecn = FALSE]
  BY DEF DoConnect
<1> HIDE DEF n, r
<1>4. DoConnect(n) \in Socket
  BY <1>2, <1>3 DEF Socket, States
<1>5. QED
  BY <1>4 DEF n

LEMMA InitType == Init => TypeOK
<1> SUFFICES ASSUME Init PROVE TypeOK
  OBVIOUS
<1>1. PICK modes \in EcnModes :
        LET c == DoConnect([NewSocket(modes["client"]) EXCEPT !.live = TRUE])
        IN  /\ sock = [e \in Ends |-> IF e = "client" THEN [c EXCEPT !.out = {}]
                                      ELSE NewSocket(modes["server"])]
            /\ listening = TRUE
            /\ net = [e \in Ends |-> IF e = "server" /\ NetSize > 0 THEN c.out ELSE {}]
            /\ finSeen = {}
  BY DEF Init
<1> DEFINE c == DoConnect([NewSocket(modes["client"]) EXCEPT !.live = TRUE])
<1>2. modes["client"] \in UseEcnValues /\ modes["server"] \in UseEcnValues
  BY ConnectionAssumption DEF Ends
<1>3. c \in Socket /\ NewSocket(modes["server"]) \in Socket
  BY <1>2, DoConnectType, NewSocketType
<1> HIDE DEF c
<1>4. [c EXCEPT !.out = {}] \in Socket /\ c.out \in SUBSET Segments
  BY <1>3 DEF Socket
<1>5. sock \in [Ends -> Socket]
  BY <1>1, <1>3, <1>4 DEF c
<1>6. net \in [Ends -> SUBSET Segments]
  BY <1>1, <1>4 DEF c
<1>7. QED
  BY <1>1, <1>5, <1>6 DEF TypeOK

\* What the two timers of an end leave behind.
LEMMA TimersType ==
  ASSUME NEW s \in Socket
  PROVE  /\ \A flags \in SUBSET Flags : SendEmptyPacket([s EXCEPT !.retx = NoEvent], flags) \in Socket
         /\ ReTxTimeout([s EXCEPT !.retx = NoEvent]) \in Socket
         /\ [s EXCEPT !.lastAck = FALSE] \in Socket
         /\ s.retrCount # 0 => SendEmptyPacket([s EXCEPT !.retrCount = @ - 1], {"FIN", "ACK"}) \in Socket
<1>1. [s EXCEPT !.retx = NoEvent] \in Socket /\ [s EXCEPT !.lastAck = FALSE] \in Socket
  BY DEF Socket, NoEvent
<1>2. s.retrCount # 0 => [s EXCEPT !.retrCount = @ - 1] \in Socket
  <2> DEFINE n == s.retrCount - 1
  <2>1. s.retrCount # 0 => n \in 0 .. DataRetries
    BY ConnectionAssumption DEF Socket
  <2>2. [s EXCEPT !.retrCount = @ - 1] = [s EXCEPT !.retrCount = n]
    OBVIOUS
  <2> HIDE DEF n
  <2>3. QED
    BY <2>1, <2>2 DEF Socket
<1>3. {"FIN"} \in SUBSET Flags /\ {"FIN", "ACK"} \in SUBSET Flags
  BY DEF Flags
<1>4. QED
  BY <1>1, <1>2, <1>3, SendEmptyPacketType DEF ReTxTimeout

LEMMA NextType == TypeOK /\ [Next]_vars => TypeOK'
<1> SUFFICES ASSUME TypeOK, [Next]_vars PROVE TypeOK'
  OBVIOUS
<1>1. ASSUME NEW e \in Ends, Receive(e) PROVE TypeOK'
  <2>1. PICK seg \in net[e] : Becomes(e, DoForwardUp(sock[e], seg), {seg})
    BY <1>1 DEF Receive
  <2>2. DoForwardUp(sock[e], seg) \in Socket
    BY DoForwardUpType DEF TypeOK
  <2>3. QED
    BY <1>1, <2>1, <2>2, BecomesType DEF Receive, TypeOK
<1>2. ASSUME NEW e \in Ends, ReceiveWithoutEndPoint(e) PROVE TypeOK'
  <2>1. PICK seg \in net[e] : Transmit(e, NoEndPointsFound(seg), {seg})
    BY <1>2 DEF ReceiveWithoutEndPoint
  <2>2. NoEndPointsFound(seg) \in SUBSET Segments
    BY NoEndPointsFoundType DEF TypeOK
  <2>3. net' \in [Ends -> SUBSET Segments]
    BY <2>1, <2>2, TransmitType
  <2>4. QED
    BY <1>2, <2>3 DEF ReceiveWithoutEndPoint, TypeOK
<1>3. ASSUME NEW e \in Ends, RetxEvent(e) PROVE TypeOK'
  <2> DEFINE s == [sock[e] EXCEPT !.retx = NoEvent]
             r == IF sock[e].retx = RtoEvent THEN ReTxTimeout(s) ELSE SendEmptyPacket(s, sock[e].retx)
  <2>1. Becomes(e, r, {}) /\ UNCHANGED listening
    BY <1>3 DEF RetxEvent
  <2>2. sock[e] \in Socket /\ sock[e].retx \in {RtoEvent} \cup SUBSET Flags
    BY DEF TypeOK, Socket
  <2>3. r \in Socket
    BY <2>2, TimersType
  <2> HIDE DEF r
  <2>4. QED
    BY <2>1, <2>3, BecomesType DEF TypeOK
<1>4. ASSUME NEW e \in Ends, LastAckTimeout(e) PROVE TypeOK'
  <2> DEFINE s == sock[e]
             r == IF s.state # "LAST_ACK" THEN [s EXCEPT !.lastAck = FALSE]
                  ELSE IF s.retrCount = 0 THEN DeallocateEndPoint(s)
                  ELSE SendEmptyPacket([s EXCEPT !.retrCount = @ - 1], {"FIN", "ACK"})
  <2>1. Becomes(e, r, {}) /\ UNCHANGED listening
    BY <1>4 DEF LastAckTimeout
  <2>2. s \in Socket
    BY DEF TypeOK
  <2>3. r \in Socket
    BY <2>2, TimersType, CloseAndNotifyType
  <2> HIDE DEF r
  <2>4. QED
    BY <2>1, <2>3, BecomesType DEF TypeOK
<1>5. ASSUME NEW e \in Ends, TimeWaitTimeout(e) PROVE TypeOK'
  <2>1. CloseAndNotify(sock[e]) \in Socket
    BY CloseAndNotifyType DEF TypeOK
  <2>2. QED
    BY <1>5, <2>1, BecomesType DEF TimeWaitTimeout, TypeOK
<1>6. CASE Listen
  <2> DEFINE s(seg) == IF Core(seg) = {"SYN"}
                       THEN CompleteFork(NewSocket(sock["server"].useEcn), seg) ELSE sock["server"]
  <2>1. PICK seg \in net["server"] : Becomes("server", s(seg), {seg})
    BY <1>6 DEF Listen
  <2>2. "server" \in Ends /\ seg \in Segments /\ sock["server"] \in Socket
    BY DEF TypeOK, Ends
  <2>3. NewSocket(sock["server"].useEcn) \in Socket
    BY <2>2, NewSocketType DEF Socket
  <2>4. s(seg) \in Socket
    BY <2>2, <2>3, CompleteForkType
  <2> HIDE DEF s
  <2>5. QED
    BY <1>6, <2>1, <2>2, <2>4, BecomesType DEF Listen, TypeOK
<1>7. CASE StopSource
  <2>1. "client" \in Ends /\ Close(sock["client"]) \in Socket
    BY CloseType DEF TypeOK, Ends
  <2>2. QED
    BY <1>7, <2>1, BecomesType DEF StopSource, TypeOK
<1>8. CASE StopSink
  <2> DEFINE s == sock["server"]
             r == IF s.state = "SYN_RCVD" THEN s ELSE Close(s)
  <2>1. "server" \in Ends /\ r \in Socket
    BY CloseType DEF TypeOK, Ends
  <2>2. Becomes("server", r, {}) /\ listening' = FALSE
    BY <1>8 DEF StopSink
  <2> HIDE DEF r
  <2>3. QED
    BY <2>1, <2>2, BecomesType DEF TypeOK
<1>9. CASE UNCHANGED vars
  BY <1>9 DEF vars, TypeOK
<1>10. QED
  BY <1>1, <1>2, <1>3, <1>4, <1>5, <1>6, <1>7, <1>8, <1>9 DEF Next

\* Every field of both sockets keeps its range and every segment is well formed; the
\* counters of retries never pass zero (SendEmptyPacket, LastAckTimeout).
THEOREM TypeCorrect == Spec => []TypeOK
<1>1. QED
  BY InitType, NextType, PTL DEF Spec

-----------------------------------------------------------------------------
(* ECN: what a socket that handles no SYN leaves alone. *)

\* Flags that say of the client's offer, sent to end e, that it was taken or not.
Fits(e, on, flags) ==
  IF e = "server"
  THEN /\ "SYN" \in flags => ({"ECE", "CWR"} \subseteq flags <=> on)
       /\ "CWR" \in flags => on
  ELSE /\ "SYN" \in flags => (flags \cap {"ECE", "CWR"} = {"ECE"} <=> on)
       /\ "CWR" \notin flags

Willing(e, on, useEcn) == IF e = "client" THEN useEcn = "On" <=> on ELSE on => useEcn # "Off"

\* What end e sends, now or by its timer, fits.
Sound(e, on, s) ==
  /\ Willing(e, on, s.useEcn)
  /\ Fits(Peer(e), on, s.retx)
  /\ \A seg \in s.out : Fits(Peer(e), on, seg.flags)

Open(s) == s.state \notin {"CLOSED", "SYN_SENT"}

\* The step from s to r has nothing to do with ECN or the handshake.
Keeps(e, on, s, r) ==
  /\ r.ecn = s.ecn /\ r.useEcn = s.useEcn
  /\ Sound(e, on, s) => Sound(e, on, r)
  /\ \/ r.state = s.state
     \/ r.state = "CLOSED"
     \/ Open(s) /\ r.state \notin {"SYN_SENT", "SYN_RCVD"}

LEMMA PlainFits ==
  ASSUME NEW e \in Ends, NEW on \in BOOLEAN, NEW flags, flags \cap {"SYN", "CWR"} = {}
  PROVE  Fits(e, on, flags)
BY DEF Fits

LEMMA SentFits ==
  ASSUME NEW e \in Ends, NEW on \in BOOLEAN, NEW flags, Fits(e, on, flags)
  PROVE  Fits(e, on, Sent(flags))
BY DEF Fits, Sent

LEMMA PeerIsEnd == \A e \in Ends : Peer(e) \in Ends
BY DEF Ends, Peer

LEMMA KeepsSelf == ASSUME NEW e, NEW on, NEW s PROVE Keeps(e, on, s, s)
BY DEF Keeps

LEMMA KeepsMore ==
  ASSUME NEW e, NEW on, NEW s, NEW r, NEW t, Keeps(e, on, s, r), Keeps(e, on, r, t)
  PROVE  Keeps(e, on, s, t)
BY DEF Keeps, Open

LEMMA CloseAndNotifyKeeps ==
  ASSUME NEW e \in Ends, NEW on \in BOOLEAN, NEW s \in Socket
  PROVE  Keeps(e, on, s, CloseAndNotify(s)) /\ Keeps(e, on, s, DeallocateEndPoint(s))
<1>1. Fits(Peer(e), on, NoEvent)
  BY PlainFits, PeerIsEnd DEF NoEvent
<1>2. QED
  BY <1>1 DEF Keeps, Sound, CloseAndNotify, DeallocateEndPoint, Socket

LEMMA EmitKeeps ==
  ASSUME NEW e \in Ends, NEW on \in BOOLEAN, NEW s \in Socket, NEW flags,
         Fits(Peer(e), on, flags)
  PROVE  Keeps(e, on, s, Emit(s, flags))
<1> DEFINE header == Header(s, flags)
           event == IF s.retx = NoEvent /\ flags \cap {"SYN", "FIN"} # {}
                    THEN Sent(flags) ELSE s.retx
           r == Emit(s, flags)
<1>1. Fits(Peer(e), on, Sent(flags)) /\ header.flags = Sent(flags)
  BY SentFits, PeerIsEnd DEF Header
<1>2. r.out = s.out \cup {header} /\ r.retx = event /\ r.ecn = s.ecn /\ r.useEcn = s.useEcn
      /\ r.state = s.state
  BY DEF Emit, Socket
<1>3. Fits(Peer(e), on, s.retx) => Fits(Peer(e), on, event)
  BY <1>1
<1> HIDE DEF header, event, r
<1>4. Sound(e, on, s) => Sound(e, on, r)
  BY <1>1, <1>2, <1>3 DEF Sound
<1>5. QED
  BY <1>2, <1>4 DEF Keeps, r

LEMMA SendEmptyPacketKeeps ==
  ASSUME NEW e \in Ends, NEW on \in BOOLEAN, NEW s \in Socket, NEW flags,
         Fits(Peer(e), on, flags)
  PROVE  Keeps(e, on, s, SendEmptyPacket(s, flags))
BY EmitKeeps, CloseAndNotifyKeeps, KeepsSelf DEF SendEmptyPacket

LEMMA SendPlainKeeps ==
  ASSUME NEW e \in Ends, NEW on \in BOOLEAN, NEW s \in Socket
  PROVE  \A flags \in {{"ACK"}, {"FIN"}, {"FIN", "ACK"}, {"RST"}} :
           Keeps(e, on, s, SendEmptyPacket(s, flags)) /\ SendEmptyPacket(s, flags) \in Socket
<1>1. ASSUME NEW flags \in {{"ACK"}, {"FIN"}, {"FIN", "ACK"}, {"RST"}}
      PROVE  Keeps(e, on, s, SendEmptyPacket(s, flags)) /\ SendEmptyPacket(s, flags) \in Socket
  <2>1. flags \cap {"SYN", "CWR"} = {} /\ flags \in SUBSET Flags
    BY <1>1 DEF Flags
  <2>2. Fits(Peer(e), on, flags)
    BY <2>1, PlainFits, PeerIsEnd
  <2>3. QED
    BY <2>1, <2>2, SendEmptyPacketKeeps, SendEmptyPacketType
<1>2. QED
  BY <1>1

LEMMA AbortKeeps ==
  ASSUME NEW e \in Ends, NEW on \in BOOLEAN, NEW s \in Socket, NEW flags
  PROVE  Keeps(e, on, s, Abort(s, flags)) /\ Keeps(e, on, s, CloseAndNotify(SendRST(s)))
<1> DEFINE p == SendEmptyPacket(s, {"RST"})
<1>1. p \in Socket /\ Keeps(e, on, s, p)
  BY SendPlainKeeps
<1>2. SendRST(s) \in Socket /\ Keeps(e, on, p, SendRST(s))
  BY <1>1, CloseAndNotifyType, CloseAndNotifyKeeps DEF SendRST
<1>3. Keeps(e, on, SendRST(s), CloseAndNotify(SendRST(s)))
  BY <1>2, CloseAndNotifyKeeps
<1> HIDE DEF p
<1>4. Keeps(e, on, s, SendRST(s))
  BY <1>1, <1>2, KeepsMore
<1>5. Keeps(e, on, s, CloseAndNotify(SendRST(s)))
  BY <1>3, <1>4, KeepsMore
<1>6. QED
  BY <1>5, CloseAndNotifyKeeps DEF Abort

LEMMA StateKeeps ==
  ASSUME NEW e \in Ends, NEW on \in BOOLEAN, NEW s \in Socket, Open(s),
         NEW st \in States \ {"SYN_SENT", "SYN_RCVD"}
  PROVE  Keeps(e, on, s, [s EXCEPT !.state = st])
BY DEF Keeps, Sound, Socket

LEMMA CloseKeeps ==
  ASSUME NEW e \in Ends, NEW on \in BOOLEAN, NEW s \in Socket
  PROVE  Keeps(e, on, s, Close(s))
<1>1. ASSUME s.state \in {"SYN_RCVD", "ESTABLISHED", "CLOSE_WAIT"},
             NEW flags \in {{"FIN"}, {"FIN", "ACK"}}, NEW st \in {"FIN_WAIT_1", "LAST_ACK"}
      PROVE  Keeps(e, on, s, [SendEmptyPacket(s, flags) EXCEPT !.state = st])
  <2> DEFINE p == SendEmptyPacket(s, flags)
  <2>1. p \in Socket /\ Keeps(e, on, s, p)
    BY <1>1, SendPlainKeeps
  <2> HIDE DEF p
  <2>2. Open(s)
    BY <1>1 DEF Open
  <2>3. [p EXCEPT !.state = st].state = st /\ [p EXCEPT !.state = st].ecn = p.ecn
        /\ [p EXCEPT !.state = st].useEcn = p.useEcn /\ [p EXCEPT !.state = st].retx = p.retx
        /\ [p EXCEPT !.state = st].out = p.out
    BY <2>1 DEF Socket
  <2>4. QED
    BY <2>1, <2>2, <2>3, <1>1 DEF Keeps, Sound, p
<1>2. QED
  BY <1>1, AbortKeeps, KeepsSelf DEF Close

LEMMA TimeWaitKeeps ==
  ASSUME NEW e \in Ends, NEW on \in BOOLEAN, NEW s \in Socket, Open(s)
  PROVE  Keeps(e, on, s, TimeWait(s))
<1>1. Fits(Peer(e), on, NoEvent)
  BY PlainFits, PeerIsEnd DEF NoEvent
<1>2. QED
  BY <1>1 DEF Keeps, Sound, TimeWait, Socket

LEMMA SetFinSequenceKeeps ==
  ASSUME NEW e \in Ends, NEW on \in BOOLEAN, NEW s \in Socket, NEW n
  PROVE  Keeps(e, on, s, SetFinSequence(s, n)) /\ SetFinSequence(s, n).state = s.state
BY DEF Keeps, Sound, SetFinSequence, Socket

LEMMA PeerCloseKeeps ==
  ASSUME NEW e \in Ends, NEW on \in BOOLEAN, NEW s \in Socket, NEW seg \in Segments, Open(s)
  PROVE  Keeps(e, on, s, PeerClose(s, seg))
<1> DEFINE c == SetFinSequence(s, seg.seq)
           w == [c EXCEPT !.state = "CLOSE_WAIT"]
           d == IF w.shutdownSend THEN Close(w) ELSE SendEmptyPacket(w, {"ACK"})
           r == IF d.state = "LAST_ACK"
                THEN [d EXCEPT !.retrCount = DataRetries, !.lastAck = TRUE] ELSE d
<1>1. c \in Socket /\ Keeps(e, on, s, c) /\ Open(c)
  BY SetFinSequenceType, SetFinSequenceKeeps DEF Segments, Open
<1>2. w \in Socket /\ Keeps(e, on, c, w)
  BY <1>1, StateType, StateKeeps DEF States
<1>3. d \in Socket /\ Keeps(e, on, w, d)
  BY <1>2, CloseType, CloseKeeps, SendPlainKeeps
<1>4. DoPeerClose(c) = r
  BY DEF DoPeerClose
<1> HIDE DEF c, w, d
<1>5. Keeps(e, on, d, r)
  BY <1>3 DEF Keeps, Sound, Socket
<1> HIDE DEF r
<1>6. Keeps(e, on, s, w)
  BY <1>1, <1>2, KeepsMore
<1>7. Keeps(e, on, s, d)
  BY <1>3, <1>6, KeepsMore
<1>8. Keeps(e, on, s, r)
  BY <1>5, <1>7, KeepsMore
<1>9. QED
  BY <1>1, <1>4, <1>8, KeepsSelf DEF PeerClose, c

LEMMA ReceivedAckKeeps ==
  ASSUME NEW e \in Ends, NEW on \in BOOLEAN, NEW s \in Socket, NEW a
  PROVE  Keeps(e, on, s, ReceivedAck(s, a)) /\ ReceivedAck(s, a).state = s.state
<1>1. Fits(Peer(e), on, NoEvent) /\ Fits(Peer(e), on, RtoEvent)
  BY PlainFits, PeerIsEnd DEF NoEvent, RtoEvent
<1>2. Keeps(e, on, s, NewAck(s, a)) /\ NewAck(s, a).state = s.state
  BY <1>1 DEF Keeps, Sound, NewAck, Socket
<1>3. Keeps(e, on, s, [s EXCEPT !.nextTx = a]) /\ [s EXCEPT !.nextTx = a].state = s.state
  BY DEF Keeps, Sound, Socket
<1>4. QED
  BY <1>2, <1>3, KeepsSelf DEF ReceivedAck

LEMMA SynchronizeKeeps ==
  ASSUME NEW e \in Ends, NEW on \in BOOLEAN, NEW s \in Socket
  PROVE  Keeps(e, on, s, Synchronize(s)) /\ Synchronize(s).state = s.state
<1>1. Fits(Peer(e), on, NoEvent)
  BY PlainFits, PeerIsEnd DEF NoEvent
<1>2. QED
  BY <1>1 DEF Keeps, Sound, Synchronize, Socket

LEMMA FinInWaitKeeps ==
  ASSUME NEW e \in Ends, NEW on \in BOOLEAN, NEW s \in Socket, NEW seg, Open(s)
  PROVE  Keeps(e, on, s, FinInWait(s, seg))
<1> DEFINE c == [s EXCEPT !.state = "CLOSING"]
           t == TimeWait(s)
<1>1. c \in Socket /\ Keeps(e, on, s, c) /\ t \in Socket /\ Keeps(e, on, s, t)
  BY StateType, StateKeeps, TimeWaitType, TimeWaitKeeps DEF States
<1>2. Keeps(e, on, c, SendEmptyPacket(c, {"ACK"})) /\ Keeps(e, on, t, SendEmptyPacket(t, {"ACK"}))
  BY <1>1, SendPlainKeeps
<1> HIDE DEF c, t
<1>3. Keeps(e, on, s, SendEmptyPacket(c, {"ACK"})) /\ Keeps(e, on, s, SendEmptyPacket(t, {"ACK"}))
  BY <1>1, <1>2, KeepsMore
<1>4. QED
  BY <1>3 DEF FinInWait, c, t

LEMMA ProcessWaitKeeps ==
  ASSUME NEW e \in Ends, NEW on \in BOOLEAN, NEW s \in Socket, NEW seg \in Segments, Open(s)
  PROVE  Keeps(e, on, s, ProcessWait(s, seg))
<1> DEFINE a == ReceivedAck(s, seg.ack)
           f == SetFinSequence(a, seg.seq)
           w == IF a.state = "FIN_WAIT_1" /\ seg.ack = a.highTx + 1
                THEN [a EXCEPT !.state = "FIN_WAIT_2"] ELSE a
<1>1. a \in Socket /\ Keeps(e, on, s, a) /\ Open(a)
  BY ReceivedAckType, ReceivedAckKeeps DEF Segments, Open
<1>2. f \in Socket /\ Keeps(e, on, a, f) /\ Open(f)
  BY <1>1, SetFinSequenceType, SetFinSequenceKeeps DEF Segments, Open
<1>3. w \in Socket /\ Keeps(e, on, a, w) /\ Open(w)
  <2>1. [a EXCEPT !.state = "FIN_WAIT_2"] \in Socket
        /\ Keeps(e, on, a, [a EXCEPT !.state = "FIN_WAIT_2"])
    BY <1>1, StateType, StateKeeps DEF States
  <2>2. [a EXCEPT !.state = "FIN_WAIT_2"].state = "FIN_WAIT_2"
    BY <1>1 DEF Socket
  <2>3. QED
    BY <1>1, <2>1, <2>2, KeepsSelf DEF Open
<1> HIDE DEF a, f, w
<1>4. Keeps(e, on, s, f) /\ Keeps(e, on, s, w)
  BY <1>1, <1>2, <1>3, KeepsMore
<1>5. Keeps(e, on, s, FinInWait(f, seg)) /\ Keeps(e, on, s, FinInWait(w, seg))
  <2>1. Keeps(e, on, f, FinInWait(f, seg)) /\ Keeps(e, on, w, FinInWait(w, seg))
    BY <1>2, <1>3, FinInWaitKeeps
  <2>2. QED
    BY <1>4, <2>1, KeepsMore
<1>6. QED
  BY <1>4, <1>5, AbortKeeps, KeepsSelf DEF ProcessWait, a, f, w

LEMMA ProcessEstablishedKeeps ==
  ASSUME NEW e \in Ends, NEW on \in BOOLEAN, NEW s \in Socket, NEW seg \in Segments, Open(s)
  PROVE  Keeps(e, on, s, ProcessEstablished(s, seg))
BY SendPlainKeeps, ReceivedAckKeeps, PeerCloseKeeps, AbortKeeps, KeepsSelf DEF ProcessEstablished

LEMMA ClosingKeeps ==
  ASSUME NEW e \in Ends, NEW on \in BOOLEAN, NEW s \in Socket, NEW seg \in Segments, Open(s)
  PROVE  Keeps(e, on, s, ProcessClosing(s, seg)) /\ Keeps(e, on, s, ProcessLastAck(s, seg))
<1> DEFINE p == SendEmptyPacket(s, {"ACK"})
<1>1. p \in Socket /\ Keeps(e, on, s, p)
  BY SendPlainKeeps
<1>2. Keeps(e, on, p, CloseAndNotify(p))
  BY <1>1, CloseAndNotifyKeeps
<1> HIDE DEF p
<1>3. Keeps(e, on, s, CloseAndNotify(p))
  BY <1>1, <1>2, KeepsMore
<1>4. Keeps(e, on, s, CloseAndNotify(s)) /\ Keeps(e, on, s, TimeWait(s))
      /\ Keeps(e, on, s, SendEmptyPacket(s, {"FIN", "ACK"}))
  BY CloseAndNotifyKeeps, TimeWaitKeeps, SendPlainKeeps
<1>5. QED
  BY <1>3, <1>4, AbortKeeps, KeepsSelf DEF ProcessClosing, ProcessLastAck, p

-----------------------------------------------------------------------------
(* ECN: the handshake. *)

\* The end took the role it has, and past the handshake it has what was agreed.
Steady(e, on, s) ==
  /\ s.state # (IF e = "client" THEN "SYN_RCVD" ELSE "SYN_SENT")
  /\ Open(s) => s.ecn = on

LEMMA KeepsSteady ==
  ASSUME NEW e \in Ends, NEW on, NEW s, NEW r,
         Keeps(e, on, s, r), Sound(e, on, s), Steady(e, on, s)
  PROVE  Sound(e, on, r) /\ Steady(e, on, r)
BY DEF Keeps, Steady, Open

LEMMA AnswerSynAgrees ==
  ASSUME NEW on \in BOOLEAN, NEW s \in Socket, s.state = "SYN_RCVD", Sound("server", on, s),
         NEW seg \in Segments, Fits("server", on, seg.flags), Core(seg) = {"SYN"}
  PROVE  Sound("server", on, AnswerSyn(s, seg)) /\ Steady("server", on, AnswerSyn(s, seg))
<1> DEFINE flags == {"SYN", "ACK"} \cup (IF IsEcnSyn(s, seg) THEN {"ECE"} ELSE {})
           c == [s EXCEPT !.nextRx = seg.seq + 1]
           r == SendEmptyPacket(c, flags)
           ecn == IsEcnSyn(s, seg)
           a == AnswerSyn(s, seg)
<1>1. IsEcnSyn(s, seg) = on
  <2>1. "SYN" \in seg.flags
    BY DEF Core
  <2>2. {"ECE", "CWR"} \subseteq seg.flags <=> on
    BY <2>1 DEF Fits
  <2>3. on => s.useEcn # "Off"
    BY DEF Sound, Willing
  <2>4. QED
    BY <2>2, <2>3 DEF IsEcnSyn
<1>2. Peer("server") = "client" /\ "server" \in Ends
  BY DEF Peer, Ends
<1>3. Fits(Peer("server"), on, flags) /\ flags \in SUBSET Flags
  BY <1>1, <1>2 DEF Fits, Flags
<1>4. c \in Socket /\ Keeps("server", on, s, c)
  <2>1. seg.seq + 1 \in Nat
    BY DEF Segments
  <2>2. QED
    BY <2>1 DEF Socket, Keeps, Sound
<1>5. r \in Socket /\ Keeps("server", on, c, r)
  BY <1>2, <1>3, <1>4, SendEmptyPacketType, SendEmptyPacketKeeps
<1>6. a = [r EXCEPT !.ecn = ecn] /\ ecn = on
  BY <1>1 DEF AnswerSyn
<1> HIDE DEF flags, c, r, ecn, a
<1>7. Keeps("server", on, s, r)
  BY <1>4, <1>5, KeepsMore
<1>8. a.ecn = on /\ a.useEcn = r.useEcn /\ a.state = r.state /\ a.retx = r.retx /\ a.out = r.out
  BY <1>5, <1>6 DEF Socket
<1>9. Sound("server", on, a)
  BY <1>7, <1>8 DEF Keeps, Sound
<1>10. r.state # "SYN_SENT"
  BY <1>7 DEF Keeps
<1>11. Steady("server", on, a)
  BY <1>8, <1>10 DEF Steady
<1>12. QED
  BY <1>9, <1>11 DEF a

LEMMA CompleteForkAgrees ==
  ASSUME NEW on \in BOOLEAN, NEW m \in UseEcnValues, Willing("server", on, m),
         NEW seg \in Segments, Fits("server", on, seg.flags), Core(seg) = {"SYN"}
  PROVE  /\ Sound("server", on, CompleteFork(NewSocket(m), seg))
         /\ Steady("server", on, CompleteFork(NewSocket(m), seg))
<1> DEFINE n == NewSocket(m)
           c == [n EXCEPT !.state = "SYN_RCVD", !.live = TRUE, !.shutdownSend = TRUE]
<1>1. n \in Socket /\ n.useEcn = m /\ n.retx = NoEvent /\ n.out = {}
  BY NewSocketType DEF NewSocket
<1> HIDE DEF n
<1>2. c \in Socket /\ c.state = "SYN_RCVD" /\ c.useEcn = m /\ c.retx = NoEvent /\ c.out = {}
  BY <1>1 DEF Socket, States
<1>3. CompleteFork(n, seg) = AnswerSyn(c, seg)
  BY DEF CompleteFork
<1> HIDE DEF c
<1>4. Fits(Peer("server"), on, NoEvent)
  BY PlainFits, PeerIsEnd DEF NoEvent, Ends
<1>5. Sound("server", on, c)
  BY <1>2, <1>4 DEF Sound
<1>6. QED
  BY <1>2, <1>3, <1>5, AnswerSynAgrees DEF n

LEMMA ProcessSynSentAgrees ==
  ASSUME NEW on \in BOOLEAN, NEW s \in Socket, s.state = "SYN_SENT",
         NEW seg \in Segments, Fits("client", on, seg.flags),
         Sound("client", on, s), Steady("client", on, s)
  PROVE  /\ Sound("client", on, ProcessSynSent(s, seg))
         /\ Steady("client", on, ProcessSynSent(s, seg))
<1> DEFINE y == Synchronize(s)
           c == [y EXCEPT !.state = "ESTABLISHED", !.nextRx = seg.seq + 1]
           r == SendEmptyPacket(c, {"ACK"})
           ecn == IsEcnSynAck(s, seg)
           d == [r EXCEPT !.ecn = ecn]
<1>1. "client" \in Ends
  BY DEF Ends
<1>2. y \in Socket /\ Keeps("client", on, s, y)
  BY <1>1, SynchronizeType, SynchronizeKeeps
<1> HIDE DEF y
<1>3. c \in Socket /\ c.state = "ESTABLISHED" /\ c.useEcn = y.useEcn /\ c.retx = y.retx
      /\ c.out = y.out
  <2>1. seg.seq + 1 \in Nat
    BY DEF Segments
  <2>2. QED
    BY <1>2, <2>1 DEF Socket, States
<1> HIDE DEF c
<1>4. Sound("client", on, c)
  BY <1>2, <1>3 DEF Keeps, Sound
<1>5. r \in Socket /\ Keeps("client", on, c, r)
  BY <1>1, <1>3, SendPlainKeeps
<1>6. Sound("client", on, r) /\ r.state # "SYN_RCVD"
  BY <1>3, <1>4, <1>5 DEF Keeps
<1> HIDE DEF r
<1>7. ASSUME "SYN" \in seg.flags
      PROVE  Sound("client", on, d) /\ Steady("client", on, d)
  <2>1. seg.flags \cap {"ECE", "CWR"} = {"ECE"} <=> on
    BY <1>7 DEF Fits
  <2>2. on => s.useEcn # "Off"
    BY DEF Sound, Willing
  <2>3. ecn = on
    BY <2>1, <2>2 DEF IsEcnSynAck
  <2> HIDE DEF ecn
  <2>4. d.ecn = on /\ d.useEcn = r.useEcn /\ d.state = r.state /\ d.retx = r.retx /\ d.out = r.out
    BY <1>5, <2>3 DEF Socket
  <2>5. QED
    BY <1>6, <2>4 DEF Sound, Steady
<1>8. /\ Keeps("client", on, s, CloseAndNotify(SendRST(s)))
      /\ Keeps("client", on, s, CloseAndNotify(s))
  BY <1>1, AbortKeeps, CloseAndNotifyKeeps
<1>9. /\ Sound("client", on, CloseAndNotify(SendRST(s)))
      /\ Steady("client", on, CloseAndNotify(SendRST(s)))
      /\ Sound("client", on, CloseAndNotify(s)) /\ Steady("client", on, CloseAndNotify(s))
  BY <1>1, <1>8, KeepsSteady
<1>10. QED
  BY <1>7, <1>9 DEF ProcessSynSent, y, c, r

LEMMA ProcessSynRcvdAgrees ==
  ASSUME NEW on \in BOOLEAN, NEW s \in Socket, s.state = "SYN_RCVD",
         NEW seg \in Segments, Fits("server", on, seg.flags),
         Sound("server", on, s), Steady("server", on, s)
  PROVE  /\ Sound("server", on, ProcessSynRcvd(s, seg))
         /\ Steady("server", on, ProcessSynRcvd(s, seg))
<1> DEFINE y == Synchronize(s)
           c == [y EXCEPT !.state = "ESTABLISHED"]
<1>1. "server" \in Ends
  BY DEF Ends
<1>2. y \in Socket /\ Keeps("server", on, s, y) /\ Open(y)
  BY <1>1, SynchronizeType, SynchronizeKeeps DEF Open
<1>3. c \in Socket /\ Keeps("server", on, y, c)
  BY <1>1, <1>2, StateType, StateKeeps DEF States
<1> HIDE DEF y, c
<1>4. Keeps("server", on, c, ReceivedAck(c, seg.ack))
  BY <1>1, <1>3, ReceivedAckKeeps
<1>5. Keeps("server", on, s, c)
  BY <1>2, <1>3, KeepsMore
<1>6. Keeps("server", on, s, ReceivedAck(c, seg.ack))
  BY <1>4, <1>5, KeepsMore
<1>7. Keeps("server", on, y, PeerClose(y, seg))
  BY <1>1, <1>2, PeerCloseKeeps
<1>8. Keeps("server", on, s, PeerClose(y, seg))
  BY <1>2, <1>7, KeepsMore
<1>9. Keeps("server", on, s, Abort(s, Core(seg)))
  BY <1>1, AbortKeeps
<1>10. /\ Sound("server", on, ReceivedAck(c, seg.ack)) /\ Steady("server", on, ReceivedAck(c, seg.ack))
       /\ Sound("server", on, PeerClose(y, seg)) /\ Steady("server", on, PeerClose(y, seg))
       /\ Sound("server", on, Abort(s, Core(seg))) /\ Steady("server", on, Abort(s, Core(seg)))
  BY <1>1, <1>6, <1>8, <1>9, KeepsSteady
<1>11. QED
  BY <1>10, AnswerSynAgrees DEF ProcessSynRcvd, y, c

LEMMA DoForwardUpAgrees ==
  ASSUME NEW e \in Ends, NEW on \in BOOLEAN, NEW s \in Socket, NEW seg \in Segments,
         Fits(e, on, seg.flags), Sound(e, on, s), Steady(e, on, s)
  PROVE  Sound(e, on, DoForwardUp(s, seg)) /\ Steady(e, on, DoForwardUp(s, seg))
<1> DEFINE c == CwrFlag(s, seg)
           r == DoForwardUp(s, seg)
<1>1. c \in Socket /\ Sound(e, on, c) /\ Steady(e, on, c)
  <2> DEFINE t == [s EXCEPT !.ecn = TRUE]
  <2>1. t \in Socket /\ t.useEcn = s.useEcn /\ t.retx = s.retx /\ t.out = s.out
        /\ t.state = s.state /\ t.ecn = TRUE
    BY DEF Socket
  <2>2. "CWR" \in seg.flags => on = TRUE
    BY DEF Fits
  <2>3. c = IF s.state = "ESTABLISHED" /\ "CWR" \in seg.flags /\ "RST" \notin seg.flags
            THEN t ELSE s
    BY DEF CwrFlag
  <2> HIDE DEF t, c
  <2>4. "CWR" \in seg.flags => Sound(e, on, t) /\ Steady(e, on, t)
    BY <2>1, <2>2 DEF Sound, Steady
  <2>5. QED
    BY <2>1, <2>3, <2>4
<1> HIDE DEF c
<1>2. CASE c.state = "SYN_SENT"
  <2>1. e = "client"
    BY <1>1, <1>2 DEF Steady
  <2>2. QED
    BY <1>1, <1>2, <2>1, ProcessSynSentAgrees DEF DoForwardUp, c
<1>3. CASE c.state = "SYN_RCVD"
  <2>1. e = "server"
    BY <1>1, <1>3 DEF Steady, Ends
  <2>2. QED
    BY <1>1, <1>3, <2>1, ProcessSynRcvdAgrees DEF DoForwardUp, c
<1>4. CASE c.state \notin {"SYN_SENT", "SYN_RCVD"}
  <2>1. Open(c) => /\ Keeps(e, on, c, ProcessEstablished(c, seg))
                   /\ Keeps(e, on, c, ProcessWait(c, seg))
                   /\ Keeps(e, on, c, ProcessClosing(c, seg))
                   /\ Keeps(e, on, c, ProcessLastAck(c, seg))
    BY <1>1, ProcessEstablishedKeeps, ProcessWaitKeeps, ClosingKeeps
  <2>2. Keeps(e, on, c, r)
    BY <1>4, <2>1, KeepsSelf DEF DoForwardUp, Open, c
  <2>3. QED
    BY <1>1, <2>2, KeepsSteady
<1>5. QED
  BY <1>2, <1>3, <1>4

\* What the timers of an end and its application do fits too.
LEMMA TimersAgree ==
  ASSUME NEW e \in Ends, NEW on \in BOOLEAN, NEW s \in Socket, Sound(e, on, s)
  PROVE  /\ Keeps(e, on, s, SendEmptyPacket([s EXCEPT !.retx = NoEvent], s.retx))
         /\ Keeps(e, on, s, ReTxTimeout([s EXCEPT !.retx = NoEvent]))
         /\ Keeps(e, on, s, [s EXCEPT !.lastAck = FALSE])
         /\ s.retrCount # 0 =>
              Keeps(e, on, s, SendEmptyPacket([s EXCEPT !.retrCount = @ - 1], {"FIN", "ACK"}))
<1> DEFINE x == [s EXCEPT !.retx = NoEvent]
           y == [s EXCEPT !.retrCount = s.retrCount - 1]
<1>1. Fits(Peer(e), on, NoEvent)
  BY PlainFits, PeerIsEnd DEF NoEvent
<1>2. x \in Socket /\ Keeps(e, on, s, x)
  BY <1>1 DEF Socket, NoEvent, Keeps, Sound
<1>3. s.retrCount # 0 => y \in Socket /\ Keeps(e, on, s, y)
  <2>1. s.retrCount # 0 => s.retrCount - 1 \in 0 .. DataRetries
    BY ConnectionAssumption DEF Socket
  <2>2. QED
    BY <2>1 DEF Socket, Keeps, Sound
<1> HIDE DEF x, y
<1>4. Keeps(e, on, x, SendEmptyPacket(x, s.retx))
  BY <1>2, SendEmptyPacketKeeps DEF Sound
<1>5. Keeps(e, on, x, ReTxTimeout(x))
  BY <1>2, SendPlainKeeps, KeepsSelf DEF ReTxTimeout
<1>6. Keeps(e, on, s, SendEmptyPacket(x, s.retx)) /\ Keeps(e, on, s, ReTxTimeout(x))
  BY <1>2, <1>4, <1>5, KeepsMore
<1>7. s.retrCount # 0 => Keeps(e, on, s, SendEmptyPacket(y, {"FIN", "ACK"}))
  <2>1. s.retrCount # 0 => Keeps(e, on, y, SendEmptyPacket(y, {"FIN", "ACK"}))
    BY <1>3, SendPlainKeeps
  <2>2. QED
    BY <1>3, <2>1, KeepsMore
<1>8. Keeps(e, on, s, [s EXCEPT !.lastAck = FALSE])
  BY DEF Keeps, Sound, Socket
<1>9. QED
  BY <1>6, <1>7, <1>8 DEF x, y

\* Both ends and all that is on the way between them say the same of the client's offer.
Consistent(on) ==
  \A e \in Ends : /\ Sound(e, on, sock[e]) /\ Steady(e, on, sock[e])
                  /\ \A seg \in net[e] : Fits(e, on, seg.flags)

EcnInv == TypeOK /\ \E on \in BOOLEAN : Consistent(on)

LEMMA TransmitAgrees ==
  ASSUME TypeOK, NEW on \in BOOLEAN, Consistent(on), NEW e \in Ends, NEW sent, NEW received,
         \A seg \in sent : Fits(Peer(e), on, seg.flags), Transmit(e, sent, received)
  PROVE  \A f \in Ends : \A seg \in net'[f] : Fits(f, on, seg.flags)
<1>1. Peer(e) \in Ends /\ Peer(e) # e /\ Ends = {e, Peer(e)}
  BY DEF Ends, Peer
<1>2. PICK in \in {net[e], net[e] \ received}, out \in {net[Peer(e)], net[Peer(e)] \cup sent} :
        net' = [net EXCEPT ![e] = in, ![Peer(e)] = out]
  BY DEF Transmit
<1>3. net'[e] = in /\ net'[Peer(e)] = out
  BY <1>1, <1>2 DEF TypeOK
<1>4. QED
  BY <1>1, <1>2, <1>3 DEF Consistent

LEMMA BecomesAgrees ==
  ASSUME TypeOK, NEW on \in BOOLEAN, Consistent(on), NEW e \in Ends, NEW s \in Socket,
         Sound(e, on, s), Steady(e, on, s), NEW received, Becomes(e, s, received)
  PROVE  Consistent(on)'
<1> DEFINE t == [s EXCEPT !.out = {}]
<1>1. t.out = {} /\ t.useEcn = s.useEcn /\ t.retx = s.retx /\ t.state = s.state /\ t.ecn = s.ecn
  BY DEF Socket
<1>2. sock' = [sock EXCEPT ![e] = t] /\ Transmit(e, s.out, received)
  BY DEF Becomes
<1> HIDE DEF t
<1>3. Sound(e, on, t) /\ Steady(e, on, t)
  BY <1>1 DEF Sound, Steady, Open
<1>4. \A f \in Ends : Sound(f, on, sock'[f]) /\ Steady(f, on, sock'[f])
  BY <1>2, <1>3 DEF TypeOK, Consistent
<1>5. \A f \in Ends : \A seg \in net'[f] : Fits(f, on, seg.flags)
  BY <1>2, TransmitAgrees DEF Sound
<1>6. QED
  BY <1>4, <1>5 DEF Consistent

\* The client does not offer ECN to a server that has it off.
OfferIsTaken == \A m \in EcnModes : m["client"] = "On" => m["server"] # "Off"

LEMMA InitAgrees == OfferIsTaken /\ Init => EcnInv
<1> SUFFICES ASSUME OfferIsTaken, Init PROVE EcnInv
  OBVIOUS
<1>1. PICK modes \in EcnModes :
        LET c == DoConnect([NewSocket(modes["client"]) EXCEPT !.live = TRUE])
        IN  /\ sock = [e \in Ends |-> IF e = "client" THEN [c EXCEPT !.out = {}]
                                      ELSE NewSocket(modes["server"])]
            /\ listening = TRUE
            /\ net = [e \in Ends |-> IF e = "server" /\ NetSize > 0 THEN c.out ELSE {}]
            /\ finSeen = {}
  BY DEF Init
<1> DEFINE m == modes["client"]
           on == m = "On"
           n == [NewSocket(m) EXCEPT !.live = TRUE]
           syn == IF n.useEcn = "On" THEN {"SYN", "ECE", "CWR"} ELSE {"SYN"}
           r == SendEmptyPacket(n, syn)
           c == DoConnect(n)
           t == [c EXCEPT !.out = {}]
           u == NewSocket(modes["server"])
<1>2. m \in UseEcnValues /\ modes["server"] \in UseEcnValues /\ (on => modes["server"] # "Off")
  BY ConnectionAssumption DEF Ends, OfferIsTaken
<1>3. "client" \in Ends /\ "server" \in Ends /\ Peer("client") = "server"
      /\ Ends = {"client", "server"} /\ on \in BOOLEAN
  BY DEF Ends, Peer
<1>4. n.useEcn = m /\ n.retx = NoEvent /\ n.out = {}
      /\ u.useEcn = modes["server"] /\ u.retx = NoEvent /\ u.out = {} /\ u.state = "CLOSED"
  BY DEF NewSocket
<1>5. n \in Socket /\ u \in Socket
  <2>1. \A x \in Socket : [x EXCEPT !.live = TRUE] \in Socket
    BY DEF Socket
  <2>2. QED
    BY <1>2, <2>1, NewSocketType
<1> HIDE DEF n, u
<1>6. \A e \in Ends : Fits(Peer(e), on, NoEvent)
  BY <1>3, PlainFits, PeerIsEnd DEF NoEvent
<1>7. Sound("client", on, n) /\ Sound("server", on, u) /\ Steady("server", on, u)
  BY <1>2, <1>3, <1>4, <1>6 DEF Sound, Willing, Steady, Open
<1>8. Fits("server", on, syn) /\ syn \in SUBSET Flags
  BY <1>4 DEF Fits, Flags
<1>9. r \in Socket /\ Keeps("client", on, n, r)
  BY <1>3, <1>5, <1>8, SendEmptyPacketType, SendEmptyPacketKeeps
<1>10. Sound("client", on, r)
  BY <1>7, <1>9 DEF Keeps
<1>11. c = [r EXCEPT !.state = "SYN_SENT", !.ecn = FALSE]
  BY DEF DoConnect
<1> HIDE DEF r, c, on, m
<1>12. c.state = "SYN_SENT" /\ c.useEcn = r.useEcn /\ c.retx = r.retx /\ c.out = r.out
       /\ t.state = "SYN_SENT" /\ t.useEcn = r.useEcn /\ t.retx = r.retx /\ t.out = {}
  BY <1>9, <1>11 DEF Socket
<1>13. /\ sock["client"] = t /\ sock["server"] = u
       /\ net["client"] = {} /\ net["server"] \in {{}, c.out}
  BY <1>1, <1>3 DEF c, n, u, m
<1> HIDE DEF t
<1>14. Sound("client", on, t) /\ Steady("client", on, t)
  BY <1>10, <1>12 DEF Sound, Steady, Open
<1>15. \A seg \in net["server"] : Fits("server", on, seg.flags)
  BY <1>3, <1>10, <1>12, <1>13 DEF Sound
<1>16. Consistent(on)
  BY <1>3, <1>7, <1>13, <1>14, <1>15 DEF Consistent
<1>17. QED
  BY <1>3, <1>16, InitType DEF EcnInv

LEMMA NextAgrees == EcnInv /\ [Next]_vars => EcnInv'
<1> SUFFICES ASSUME TypeOK, NEW on \in BOOLEAN, Consistent(on), [Next]_vars PROVE Consistent(on)'
  BY NextType DEF EcnInv
<1>0. \A e \in Ends : sock[e] \in Socket /\ Sound(e, on, sock[e]) /\ Steady(e, on, sock[e])
  BY DEF TypeOK, Consistent
<1>1. ASSUME NEW e \in Ends, NEW r \in Socket, Keeps(e, on, sock[e], r), NEW received,
             Becomes(e, r, received)
      PROVE  Consistent(on)'
  BY <1>0, <1>1, KeepsSteady, BecomesAgrees
<1>2. ASSUME NEW e \in Ends, Receive(e) PROVE Consistent(on)'
  <2>1. PICK seg \in net[e] : Becomes(e, DoForwardUp(sock[e], seg), {seg})
    BY <1>2 DEF Receive
  <2>2. seg \in Segments /\ Fits(e, on, seg.flags)
    BY DEF TypeOK, Consistent
  <2>3. /\ DoForwardUp(sock[e], seg) \in Socket
        /\ Sound(e, on, DoForwardUp(sock[e], seg)) /\ Steady(e, on, DoForwardUp(sock[e], seg))
    BY <1>0, <2>2, DoForwardUpType, DoForwardUpAgrees
  <2>4. QED
    BY <2>1, <2>3, BecomesAgrees
<1>3. ASSUME NEW e \in Ends, ReceiveWithoutEndPoint(e) PROVE Consistent(on)'
  <2>1. PICK seg \in net[e] : Transmit(e, NoEndPointsFound(seg), {seg})
    BY <1>3 DEF ReceiveWithoutEndPoint
  <2>2. \A x \in NoEndPointsFound(seg) : x.flags \cap {"SYN", "CWR"} = {}
    BY DEF NoEndPointsFound
  <2>3. \A x \in NoEndPointsFound(seg) : Fits(Peer(e), on, x.flags)
    BY <2>2, PlainFits, PeerIsEnd
  <2>4. \A f \in Ends : \A x \in net'[f] : Fits(f, on, x.flags)
    BY <2>1, <2>3, TransmitAgrees
  <2>5. QED
    BY <1>0, <1>3, <2>4 DEF ReceiveWithoutEndPoint, Consistent
<1>4. ASSUME NEW e \in Ends, RetxEvent(e) PROVE Consistent(on)'
  <2> DEFINE s == [sock[e] EXCEPT !.retx = NoEvent]
             r == IF sock[e].retx = RtoEvent THEN ReTxTimeout(s) ELSE SendEmptyPacket(s, sock[e].retx)
  <2>1. Becomes(e, r, {})
    BY <1>4 DEF RetxEvent
  <2>2. sock[e].retx \in {RtoEvent} \cup SUBSET Flags
    BY <1>0 DEF Socket
  <2>3. r \in Socket
    BY <1>0, <2>2, TimersType
  <2>4. Keeps(e, on, sock[e], r)
    BY <1>0, TimersAgree
  <2> HIDE DEF r
  <2>5. QED
    BY <1>1, <2>1, <2>3, <2>4
<1>5. ASSUME NEW e \in Ends, LastAckTimeout(e) PROVE Consistent(on)'
  <2> DEFINE s == sock[e]
             r == IF s.state # "LAST_ACK" THEN [s EXCEPT !.lastAck = FALSE]
                  ELSE IF s.retrCount = 0 THEN DeallocateEndPoint(s)
                  ELSE SendEmptyPacket([s EXCEPT !.retrCount = @ - 1], {"FIN", "ACK"})
  <2>1. Becomes(e, r, {})
    BY <1>5 DEF LastAckTimeout
  <2>2. r \in Socket
    BY <1>0, TimersType, CloseAndNotifyType
  <2>3. Keeps(e, on, s, r)
    BY <1>0, TimersAgree, CloseAndNotifyKeeps
  <2> HIDE DEF r
  <2>4. QED
    BY <1>1, <2>1, <2>2, <2>3
<1>6. ASSUME NEW e \in Ends, TimeWaitTimeout(e) PROVE Consistent(on)'
  <2>1. CloseAndNotify(sock[e]) \in Socket /\ Keeps(e, on, sock[e], CloseAndNotify(sock[e]))
    BY <1>0, CloseAndNotifyType, CloseAndNotifyKeeps
  <2>2. QED
    BY <1>1, <1>6, <2>1 DEF TimeWaitTimeout
<1>7. CASE Listen
  <2> DEFINE s(seg) == IF Core(seg) = {"SYN"}
                       THEN CompleteFork(NewSocket(sock["server"].useEcn), seg) ELSE sock["server"]
  <2>1. PICK seg \in net["server"] : Becomes("server", s(seg), {seg})
    BY <1>7 DEF Listen
  <2>2. "server" \in Ends /\ seg \in Segments /\ Fits("server", on, seg.flags)
    BY DEF TypeOK, Ends, Consistent
  <2>3. sock["server"].useEcn \in UseEcnValues /\ Willing("server", on, sock["server"].useEcn)
    BY <1>0, <2>2 DEF Socket, Sound
  <2>4. s(seg) \in Socket /\ Sound("server", on, s(seg)) /\ Steady("server", on, s(seg))
    BY <1>0, <2>2, <2>3, NewSocketType, CompleteForkType, CompleteForkAgrees
  <2> HIDE DEF s
  <2>5. QED
    BY <2>1, <2>2, <2>4, BecomesAgrees
<1>8. CASE StopSource
  <2>1. "client" \in Ends /\ Close(sock["client"]) \in Socket
        /\ Keeps("client", on, sock["client"], Close(sock["client"]))
    BY <1>0, CloseType, CloseKeeps DEF Ends
  <2>2. QED
    BY <1>1, <1>8, <2>1 DEF StopSource
<1>9. CASE StopSink
  <2> DEFINE s == sock["server"]
             r == IF s.state = "SYN_RCVD" THEN s ELSE Close(s)
  <2>1. "server" \in Ends /\ r \in Socket /\ Keeps("server", on, s, r)
    BY <1>0, CloseType, CloseKeeps, KeepsSelf DEF Ends
  <2>2. Becomes("server", r, {})
    BY <1>9 DEF StopSink
  <2> HIDE DEF r
  <2>3. QED
    BY <1>1, <2>1, <2>2
<1>10. CASE UNCHANGED vars
  BY <1>10 DEF vars, Consistent
<1>11. QED
  BY <1>2, <1>3, <1>4, <1>5, <1>6, <1>7, <1>8, <1>9, <1>10 DEF Next

LEMMA ConsistentAgrees == EcnInv => EcnAgreed
<1> SUFFICES ASSUME NEW on \in BOOLEAN, Consistent(on) PROVE EcnAgreed
  BY DEF EcnInv
<1>1. Steady("client", on, sock["client"]) /\ Steady("server", on, sock["server"])
  BY DEF Consistent, Ends
<1>2. QED
  BY <1>1 DEF EcnAgreed, Steady, Open

\* Two sockets past their handshake have both negotiated ECN or neither has, for every
\* number of retries and every loss, repetition and reordering of segments, provided that
\* no client offers ECN to a server that has it off (ProcessListen, ProcessSynRcvd,
\* ProcessSynSent, DoForwardUp).
THEOREM EcnIsAgreed == OfferIsTaken => (Spec => []EcnAgreed)
<1> SUFFICES ASSUME OfferIsTaken PROVE Spec => []EcnAgreed
  OBVIOUS
<1>1. Init => EcnInv
  BY InitAgrees
<1>2. QED
  BY <1>1, NextAgrees, ConsistentAgrees, PTL DEF Spec

-----------------------------------------------------------------------------
(* The FINs: sequence numbers and acknowledgments. *)

Opening == {"CLOSED", "SYN_SENT", "SYN_RCVD"}
Later == {"CLOSE_WAIT", "LAST_ACK", "FIN_WAIT_1", "FIN_WAIT_2", "CLOSING", "TIME_WAIT"}

\* A SYN is at 0, a FIN after it; only a segment that acknowledges a FIN is after a FIN.
Formed(seg) ==
  /\ "SYN" \in seg.flags => seg.seq = 0
  /\ "FIN" \in seg.flags => seg.seq >= 1
  /\ seg.flags \cap {"SYN", "FIN", "RST"} = {} => seg.seq <= 1 \/ seg.ack >= 2

\* It acknowledges a FIN: the SYN alone takes its receiver to 1.
AcksFin(seg) == seg.ack >= 2 /\ "RST" \notin seg.flags

\* The numbers of a socket suit its state, and what it sends suits its numbers.
InOrder(s) ==
  /\ s.state \in {"SYN_SENT", "SYN_RCVD"} => s.nextTx = 0 /\ s.fin = NoFin
  /\ s.state = "ESTABLISHED" => s.nextTx = 1 /\ s.highTx = 1 /\ s.head = 1
  /\ s.state \in Later => s.nextTx >= 1 /\ s.highTx >= 1
  /\ s.state = "CLOSING" => s.nextRx >= 2
  /\ s.fin # NoFin => s.fin >= 1
  /\ s.retx \cap {"SYN", "FIN", "RST"} = {} => s.retx \in {NoEvent, RtoEvent}
  /\ "SYN" \in s.retx => s.state \in Opening /\ s.nextTx = 0
  /\ "FIN" \in s.retx => s.nextTx >= 1
  /\ \A seg \in s.out : Formed(seg) /\ (AcksFin(seg) => s.nextRx >= 2)

SameNumbers(s, r) == /\ r.fin = s.fin /\ r.nextRx = s.nextRx
                     /\ r.nextTx = s.nextTx /\ r.highTx = s.highTx /\ r.head = s.head
SameSocket(s, r) == /\ SameNumbers(s, r)
                    /\ r.state = s.state /\ r.live = s.live /\ r.shutdownSend = s.shutdownSend
Ended(s, r) == SameNumbers(s, r) /\ r.state = "CLOSED" /\ ~r.live

LEMMA EmitInOrder ==
  ASSUME NEW s \in Socket, InOrder(s), NEW flags \in SUBSET Flags,
         "SYN" \in flags => s.state \in Opening /\ s.nextTx = 0 /\ "FIN" \notin flags,
         "FIN" \in flags => s.nextTx >= 1,
         flags \cap {"SYN", "FIN", "RST"} = {} =>
           s.nextRx >= 2 \/ (s.nextTx <= 1 /\ s.state \notin {"FIN_WAIT_1", "LAST_ACK", "CLOSING"})
  PROVE  InOrder(Emit(s, flags)) /\ SameSocket(s, Emit(s, flags))
<1> DEFINE header == Header(s, flags)
           event == IF s.retx = NoEvent /\ flags \cap {"SYN", "FIN"} # {}
                    THEN Sent(flags) ELSE s.retx
           r == Emit(s, flags)
<1>1. /\ r.out = s.out \cup {header} /\ r.retx = event /\ r.state = s.state
      /\ SameSocket(s, r)
  BY DEF Emit, Socket, SameSocket, SameNumbers
<1>2. header.flags = Sent(flags) /\ header.ack = s.nextRx
      /\ header.seq = IF "FIN" \notin flags /\ s.state \in {"FIN_WAIT_1", "LAST_ACK", "CLOSING"}
                      THEN s.nextTx + 1 ELSE s.nextTx
  BY DEF Header
<1>3. /\ "SYN" \in Sent(flags) <=> "SYN" \in flags
      /\ "FIN" \in Sent(flags) <=> "FIN" \in flags
      /\ "RST" \in Sent(flags) <=> "RST" \in flags
  BY DEF Sent
<1>4. s.nextTx \in Nat /\ s.nextRx \in Nat
  BY DEF Socket
<1>5. Formed(header) /\ (AcksFin(header) => s.nextRx >= 2)
  <2>1. "SYN" \in header.flags => header.seq = 0
    BY <1>2, <1>3 DEF Opening
  <2>2. "FIN" \in header.flags => header.seq >= 1
    BY <1>2, <1>3
  <2>3. header.flags \cap {"SYN", "FIN", "RST"} = {} => header.seq <= 1 \/ header.ack >= 2
    <3> HAVE header.flags \cap {"SYN", "FIN", "RST"} = {}
    <3>1. flags \cap {"SYN", "FIN", "RST"} = {}
      BY <1>2, <1>3
    <3>2. QED
      BY <1>2, <3>1
  <2>4. AcksFin(header) => s.nextRx >= 2
    BY <1>2 DEF AcksFin
  <2>5. QED
    BY <2>1, <2>2, <2>3, <2>4 DEF Formed
<1>6. /\ event \cap {"SYN", "FIN", "RST"} = {} => event \in {NoEvent, RtoEvent}
      /\ "SYN" \in event => s.state \in Opening /\ s.nextTx = 0
      /\ "FIN" \in event => s.nextTx >= 1
  <2>1. CASE s.retx = NoEvent /\ flags \cap {"SYN", "FIN"} # {}
    BY <1>3, <2>1
  <2>2. CASE ~(s.retx = NoEvent /\ flags \cap {"SYN", "FIN"} # {})
    BY <2>2 DEF InOrder
  <2>3. QED
    BY <2>1, <2>2
<1> HIDE DEF header, event, r
<1>7. InOrder(r)
  BY <1>1, <1>5, <1>6 DEF InOrder, SameSocket, SameNumbers
<1>8. QED
  BY <1>1, <1>7 DEF r

LEMMA EndInOrder ==
  ASSUME NEW s \in Socket, InOrder(s)
  PROVE  /\ InOrder(CloseAndNotify(s)) /\ Ended(s, CloseAndNotify(s))
         /\ InOrder(DeallocateEndPoint(s)) /\ ~DeallocateEndPoint(s).live
         /\ SameNumbers(s, DeallocateEndPoint(s)) /\ DeallocateEndPoint(s).state = s.state
<1> DEFINE d == DeallocateEndPoint(s)
           c == CloseAndNotify(s)
<1>1. /\ SameNumbers(s, d) /\ d.state = s.state /\ d.retx = NoEvent /\ d.out = s.out /\ ~d.live
      /\ SameNumbers(s, c) /\ c.state = "CLOSED" /\ c.retx = NoEvent /\ c.out = s.out /\ ~c.live
  BY DEF DeallocateEndPoint, CloseAndNotify, Socket, SameNumbers
<1> HIDE DEF d, c
<1>2. InOrder(d)
  BY <1>1 DEF InOrder, SameNumbers, NoEvent
<1>3. InOrder(c)
  BY <1>1 DEF InOrder, SameNumbers, NoEvent, Later
<1>4. QED
  BY <1>1, <1>2, <1>3 DEF Ended, d, c

\* A segment without SYN.
LEMMA SendInOrder ==
  ASSUME NEW s \in Socket, InOrder(s), NEW flags \in {{"ACK"}, {"FIN"}, {"FIN", "ACK"}, {"RST"}},
         "FIN" \in flags => s.nextTx >= 1,
         flags = {"ACK"} =>
           s.nextRx >= 2 \/ (s.nextTx <= 1 /\ s.state \notin {"FIN_WAIT_1", "LAST_ACK", "CLOSING"})
  PROVE  /\ InOrder(SendEmptyPacket(s, flags)) /\ SameSocket(s, SendEmptyPacket(s, flags))
         /\ SendEmptyPacket(s, flags) \in Socket
<1>1. flags \in SUBSET Flags /\ "SYN" \notin flags
  BY DEF Flags
<1>2. flags \cap {"SYN", "FIN", "RST"} = {} => flags = {"ACK"}
  OBVIOUS
<1>3. InOrder(Emit(s, flags)) /\ SameSocket(s, Emit(s, flags))
  BY <1>1, <1>2, EmitInOrder
<1>4. SameSocket(s, s)
  BY DEF SameSocket, SameNumbers
<1>5. QED
  BY <1>1, <1>3, <1>4, SendEmptyPacketType DEF SendEmptyPacket

LEMMA AbortInOrder ==
  ASSUME NEW s \in Socket, InOrder(s), NEW flags
  PROVE  /\ InOrder(Abort(s, flags)) /\ Ended(s, Abort(s, flags))
         /\ InOrder(CloseAndNotify(SendRST(s))) /\ Ended(s, CloseAndNotify(SendRST(s)))
<1> DEFINE p == SendEmptyPacket(s, {"RST"})
<1>1. p \in Socket /\ InOrder(p) /\ SameSocket(s, p)
  BY SendInOrder
<1>2. SendRST(s) \in Socket /\ InOrder(SendRST(s)) /\ SameNumbers(s, SendRST(s))
  <2> HIDE DEF p
  <2>1. InOrder(DeallocateEndPoint(p)) /\ SameNumbers(p, DeallocateEndPoint(p))
        /\ DeallocateEndPoint(p) \in Socket
    BY <1>1, EndInOrder, CloseAndNotifyType
  <2>2. QED
    BY <1>1, <2>1 DEF SendRST, p, SameSocket, SameNumbers
<1>3. InOrder(CloseAndNotify(SendRST(s))) /\ Ended(s, CloseAndNotify(SendRST(s)))
  BY <1>2, EndInOrder DEF Ended, SameNumbers
<1>4. QED
  BY <1>3, EndInOrder DEF Abort

LEMMA CloseInOrder ==
  ASSUME NEW s \in Socket, InOrder(s), s.state # "SYN_RCVD"
  PROVE  /\ InOrder(Close(s)) /\ SameNumbers(s, Close(s))
         /\ \/ Close(s) = s
            \/ Close(s).state \in {"FIN_WAIT_1", "LAST_ACK", "CLOSED"}
<1>1. ASSUME s.state \in {"ESTABLISHED", "CLOSE_WAIT"},
             NEW flags \in {{"FIN"}, {"FIN", "ACK"}}, NEW st \in {"FIN_WAIT_1", "LAST_ACK"}
      PROVE  /\ InOrder([SendEmptyPacket(s, flags) EXCEPT !.state = st])
             /\ SameNumbers(s, [SendEmptyPacket(s, flags) EXCEPT !.state = st])
             /\ [SendEmptyPacket(s, flags) EXCEPT !.state = st].state = st
  <2> DEFINE p == SendEmptyPacket(s, flags)
             r == [p EXCEPT !.state = st]
  <2>1. s.nextTx >= 1 /\ s.highTx >= 1
    BY <1>1 DEF InOrder, Later
  <2>2. p \in Socket /\ InOrder(p) /\ SameSocket(s, p)
    <3>1. flags \in {{"ACK"}, {"FIN"}, {"FIN", "ACK"}, {"RST"}} /\ flags # {"ACK"}
      BY <1>1
    <3>2. QED
      BY <2>1, <3>1, SendInOrder
  <2> HIDE DEF p
  <2>3. SameNumbers(p, r) /\ r.state = st /\ r.retx = p.retx /\ r.out = p.out
    BY <2>2 DEF Socket, SameNumbers
  <2>4. "SYN" \notin p.retx
    BY <1>1, <2>2 DEF InOrder, SameSocket, Opening
  <2> HIDE DEF r
  <2>5. InOrder(r)
    BY <1>1, <2>1, <2>2, <2>3, <2>4 DEF InOrder, SameNumbers, SameSocket, Later
  <2>6. QED
    BY <2>2, <2>3, <2>5 DEF p, r, SameSocket, SameNumbers
<1>2. SameNumbers(s, s)
  BY DEF SameNumbers
<1>3. QED
  BY <1>1, <1>2, AbortInOrder DEF Close, Ended

LEMMA TimeWaitInOrder ==
  ASSUME NEW s \in Socket, InOrder(s), s.state \in Later
  PROVE  /\ InOrder(TimeWait(s)) /\ SameNumbers(s, TimeWait(s))
         /\ TimeWait(s).state = "TIME_WAIT" /\ TimeWait(s).live = s.live
<1> DEFINE r == TimeWait(s)
<1>1. /\ SameNumbers(s, r) /\ r.state = "TIME_WAIT" /\ r.live = s.live /\ r.retx = NoEvent
      /\ r.out = s.out
  BY DEF TimeWait, Socket, SameNumbers
<1> HIDE DEF r
<1>2. InOrder(r)
  BY <1>1 DEF InOrder, SameNumbers, NoEvent, Later
<1>3. QED
  BY <1>1, <1>2 DEF r

LEMMA SetFinSequenceInOrder ==
  ASSUME NEW s \in Socket, InOrder(s), s.state \in Later \cup {"ESTABLISHED"},
         NEW n \in Nat, n >= 1
  PROVE  LET c == SetFinSequence(s, n)
         IN  /\ InOrder(c) /\ c.state = s.state /\ c.live = s.live
             /\ c.nextTx = s.nextTx /\ c.highTx = s.highTx
             /\ c.fin = n /\ (c.nextRx >= 2 => s.nextRx >= 2 \/ Finished(c))
<1> DEFINE c == SetFinSequence(s, n)
<1>1. /\ c.state = s.state /\ c.live = s.live /\ c.nextTx = s.nextTx /\ c.highTx = s.highTx
      /\ c.head = s.head /\ c.fin = n /\ c.nextRx = (IF s.nextRx = n THEN n + 1 ELSE s.nextRx)
      /\ c.retx = s.retx /\ c.out = s.out
  BY DEF SetFinSequence, Socket
<1>2. s.nextRx \in Nat /\ NoFin = -1
  BY DEF Socket, NoFin
<1> HIDE DEF c
<1>3. c.nextRx >= s.nextRx
  BY <1>1, <1>2
<1>4. s.nextRx >= 2 => c.nextRx >= 2
  BY <1>1, <1>2
<1>5. InOrder(c)
  BY <1>1, <1>4 DEF InOrder, Later, Opening
<1>6. c.nextRx >= 2 => s.nextRx >= 2 \/ Finished(c)
  BY <1>1, <1>2 DEF Finished
<1>7. QED
  BY <1>1, <1>5, <1>6 DEF c

\* Once the FIN of the peer is reached: whatever the state was, it is CLOSE_WAIT now.
LEMMA DoPeerCloseInOrder ==
  ASSUME NEW s \in Socket, InOrder([s EXCEPT !.state = "CLOSE_WAIT"]), Finished(s)
  PROVE  /\ InOrder(DoPeerClose(s)) /\ SameNumbers(s, DoPeerClose(s))
         /\ DoPeerClose(s).state \in {"CLOSE_WAIT", "LAST_ACK"}
<1> DEFINE w == [s EXCEPT !.state = "CLOSE_WAIT"]
           d == IF w.shutdownSend THEN Close(w) ELSE SendEmptyPacket(w, {"ACK"})
           r == IF d.state = "LAST_ACK"
                THEN [d EXCEPT !.retrCount = DataRetries, !.lastAck = TRUE] ELSE d
<1>1. w \in Socket /\ InOrder(w) /\ w.state = "CLOSE_WAIT" /\ SameNumbers(s, w)
  <2>1. "CLOSE_WAIT" \in States
    BY DEF States
  <2>2. w \in Socket
    BY <2>1, StateType
  <2>3. w.state = "CLOSE_WAIT" /\ SameNumbers(s, w)
    BY DEF Socket, SameNumbers
  <2>4. QED
    BY <2>2, <2>3
<1>2. w.nextRx >= 2
  <2>1. s.fin # NoFin /\ s.fin < s.nextRx
    BY DEF Finished
  <2>2. s.fin >= 1
    BY <1>1, <2>1 DEF InOrder, SameNumbers
  <2>3. s.fin \in Nat /\ s.nextRx \in Nat
    BY <2>1 DEF Socket
  <2>4. QED
    BY <1>1, <2>1, <2>2, <2>3 DEF SameNumbers
<1>3. Close(w) = [SendEmptyPacket(w, {"FIN", "ACK"}) EXCEPT !.state = "LAST_ACK"]
  BY <1>1 DEF Close
<1>4. DoPeerClose(s) = r
  BY DEF DoPeerClose
<1> HIDE DEF w
<1>5. InOrder(Close(w)) /\ SameNumbers(w, Close(w)) /\ Close(w) \in Socket
      /\ Close(w).state = "LAST_ACK"
  <2>1. SendEmptyPacket(w, {"FIN", "ACK"}) \in Socket
    BY <1>1, SendEmptyPacketType DEF Flags
  <2>2. Close(w).state = "LAST_ACK"
    BY <1>3, <2>1 DEF Socket
  <2>3. QED
    BY <1>1, <2>2, CloseInOrder, CloseType
<1>6. /\ InOrder(SendEmptyPacket(w, {"ACK"})) /\ SameNumbers(w, SendEmptyPacket(w, {"ACK"}))
      /\ SendEmptyPacket(w, {"ACK"}) \in Socket /\ SendEmptyPacket(w, {"ACK"}).state = "CLOSE_WAIT"
  BY <1>1, <1>2, SendInOrder DEF SameSocket
<1>7. InOrder(d) /\ SameNumbers(w, d) /\ d \in Socket /\ d.state \in {"CLOSE_WAIT", "LAST_ACK"}
  BY <1>5, <1>6
<1> HIDE DEF d
<1>8. /\ SameNumbers(d, r) /\ r.state = d.state /\ r.retx = d.retx /\ r.out = d.out
  BY <1>7 DEF Socket, SameNumbers
<1> HIDE DEF r
<1>9. InOrder(r)
  BY <1>7, <1>8 DEF InOrder, SameNumbers, Later, Opening
<1>10. QED
  BY <1>1, <1>4, <1>7, <1>8, <1>9 DEF SameNumbers

\* An acknowledgment that the state admits.
LEMMA ReceivedAckInOrder ==
  ASSUME NEW s \in Socket, InOrder(s), NEW a \in Nat,
         \/ s.state \in Later
         \/ s.state = "ESTABLISHED" /\ a = 1
  PROVE  LET r == ReceivedAck(s, a)
         IN  /\ InOrder(r) /\ r.state = s.state /\ r.live = s.live /\ r.highTx = s.highTx
             /\ r.fin = s.fin /\ r.nextRx = s.nextRx
<1> DEFINE n == NewAck(s, a)
           t == [s EXCEPT !.nextTx = a]
<1>1. CASE s.state = "ESTABLISHED" /\ a = 1
  <2>1. ReceivedAck(s, a) = s
    BY <1>1 DEF ReceivedAck, InOrder
  <2>2. QED
    BY <2>1
<1>2. CASE s.state \in Later
  <2>1. /\ s.nextTx \in Nat /\ s.highTx \in Nat /\ s.nextTx >= 1 /\ s.highTx >= 1
    BY <1>2 DEF InOrder, Socket
  <2>2. /\ n.state = s.state /\ n.live = s.live /\ n.highTx = s.highTx /\ n.fin = s.fin
        /\ n.nextRx = s.nextRx /\ n.out = s.out
        /\ n.retx \in {RtoEvent, NoEvent}
        /\ n.nextTx = IF a > s.nextTx THEN a ELSE s.nextTx
    BY DEF NewAck, Socket
  <2>3. n.nextTx >= 1 /\ "SYN" \notin n.retx /\ "FIN" \notin n.retx
    BY <2>1, <2>2 DEF NoEvent, RtoEvent
  <2>4. /\ t.state = s.state /\ t.live = s.live /\ t.highTx = s.highTx /\ t.fin = s.fin
        /\ t.nextRx = s.nextRx /\ t.out = s.out /\ t.retx = s.retx /\ t.nextTx = a
    BY DEF Socket
  <2> HIDE DEF n, t
  <2>5. InOrder(n)
    BY <1>2, <2>1, <2>2, <2>3 DEF InOrder, Later
  <2>6. a > s.highTx => InOrder(t)
    <3> HAVE a > s.highTx
    <3>1. t.nextTx >= 1
      BY <2>1, <2>4
    <3>2. "SYN" \notin s.retx
      BY <1>2 DEF InOrder, Later, Opening
    <3>3. QED
      BY <1>2, <2>1, <2>4, <3>1, <3>2 DEF InOrder, Later
  <2>7. ReceivedAck(s, a) = IF a > s.head THEN n
                            ELSE IF a = s.head /\ a > s.highTx THEN t ELSE s
    BY DEF ReceivedAck, n, t
  <2>8. QED
    BY <2>2, <2>4, <2>5, <2>6, <2>7
<1>3. QED
  BY <1>1, <1>2

\* The handlers: a FIN in order is accepted, and only who acknowledged one moved on.
Waiting(s) == s.live /\ s.state \in {"FIN_WAIT_2", "TIME_WAIT"}

Earned(s, seg, r) ==
  /\ r.nextRx >= 2 => s.nextRx >= 2 \/ Finished(r)
  /\ r.state = "SYN_RCVD" => s.state = "SYN_RCVD"
  /\ Waiting(r) => Waiting(s) \/ AcksFin(seg)

LEMMA PlainEarned ==
  ASSUME NEW s, NEW seg, NEW r, r.nextRx = s.nextRx,
         \/ r.state \notin {"SYN_RCVD", "FIN_WAIT_2", "TIME_WAIT"}
         \/ r.state = s.state /\ r.live = s.live
  PROVE  Earned(s, seg, r)
BY DEF Earned, Waiting

LEMMA PeerCloseInOrder ==
  ASSUME NEW s \in Socket, InOrder(s), s.state \in Later \cup {"ESTABLISHED"},
         NEW seg \in Segments, Formed(seg), "FIN" \in seg.flags
  PROVE  InOrder(PeerClose(s, seg)) /\ Earned(s, seg, PeerClose(s, seg))
<1> DEFINE c == SetFinSequence(s, seg.seq)
           r == DoPeerClose(c)
<1>1. seg.seq \in Nat /\ seg.seq >= 1
  BY DEF Segments, Formed
<1>2. /\ c \in Socket /\ InOrder(c) /\ c.state = s.state /\ c.live = s.live
      /\ c.nextRx >= 2 => s.nextRx >= 2 \/ Finished(c)
  BY <1>1, SetFinSequenceType, SetFinSequenceInOrder
<1> HIDE DEF c
<1>3. InOrder([c EXCEPT !.state = "CLOSE_WAIT"])
  <2> DEFINE w == [c EXCEPT !.state = "CLOSE_WAIT"]
  <2>1. /\ SameNumbers(c, w) /\ w.state = "CLOSE_WAIT" /\ w.retx = c.retx /\ w.out = c.out
    BY <1>2 DEF Socket, SameNumbers
  <2>2. c.nextTx >= 1 /\ c.highTx >= 1 /\ "SYN" \notin c.retx
    BY <1>2 DEF InOrder, Later, Opening
  <2> HIDE DEF w
  <2>3. InOrder(w)
    BY <1>2, <2>1, <2>2 DEF InOrder, SameNumbers
  <2>4. QED
    BY <2>3 DEF w
<1>4. Finished(c) => /\ InOrder(r) /\ SameNumbers(c, r) /\ r.state \in {"CLOSE_WAIT", "LAST_ACK"}
  BY <1>2, <1>3, DoPeerCloseInOrder
<1> HIDE DEF r
<1>5. Finished(c) => Finished(r)
  BY <1>4 DEF Finished, SameNumbers
<1>6. Finished(c) => Earned(s, seg, r)
  BY <1>4, <1>5 DEF Earned, Waiting
<1>7. ~Finished(c) => Earned(s, seg, c)
  BY <1>2 DEF Earned, Waiting
<1>8. PeerClose(s, seg) = IF seg.seq < s.nextRx \/ (s.fin # NoFin /\ seg.seq > s.fin) THEN s
                          ELSE IF Finished(c) THEN r ELSE c
  BY DEF PeerClose, c, r
<1>9. Earned(s, seg, s)
  BY PlainEarned
<1>10. QED
  BY <1>2, <1>4, <1>6, <1>7, <1>8, <1>9

LEMMA FinInWaitInOrder ==
  ASSUME NEW s \in Socket, InOrder(s), s.state \in {"FIN_WAIT_1", "FIN_WAIT_2"}, Finished(s),
         NEW seg \in Segments, "RST" \notin seg.flags
  PROVE  LET r == FinInWait(s, seg)
         IN  /\ InOrder(r) /\ r.fin = s.fin /\ r.nextRx = s.nextRx
             /\ r.state \in {"CLOSING", "TIME_WAIT"}
             /\ Waiting(r) => s.live /\ (s.state = "FIN_WAIT_2" \/ AcksFin(seg))
<1> DEFINE c == [s EXCEPT !.state = "CLOSING"]
           t == TimeWait(s)
<1>1. s.nextRx >= 2 /\ s.highTx >= 1 /\ s.highTx \in Nat
  <2>1. s.fin \in Nat /\ s.nextRx \in Nat /\ s.fin < s.nextRx /\ s.highTx \in Nat
    BY DEF Finished, Socket
  <2>2. s.fin >= 1 /\ s.highTx >= 1
    BY DEF Finished, InOrder, Later
  <2>3. QED
    BY <2>1, <2>2
<1>2. c \in Socket
  BY StateType DEF States
<1>3. c.state = "CLOSING" /\ SameNumbers(s, c) /\ c.retx = s.retx /\ c.out = s.out
  BY DEF Socket, SameNumbers
<1>4. "SYN" \notin s.retx
  BY DEF InOrder, Opening
<1> HIDE DEF c
<1>5. InOrder(c)
  BY <1>1, <1>3, <1>4 DEF InOrder, SameNumbers, Later
<1>6. t \in Socket /\ InOrder(t) /\ SameNumbers(s, t) /\ t.state = "TIME_WAIT" /\ t.live = s.live
  BY TimeWaitType, TimeWaitInOrder DEF Later
<1> HIDE DEF t
<1>7. c.nextRx >= 2 /\ t.nextRx >= 2
  BY <1>1, <1>3, <1>6 DEF SameNumbers
<1>8. /\ InOrder(SendEmptyPacket(c, {"ACK"})) /\ SameSocket(c, SendEmptyPacket(c, {"ACK"}))
      /\ InOrder(SendEmptyPacket(t, {"ACK"})) /\ SameSocket(t, SendEmptyPacket(t, {"ACK"}))
  <2>1. "FIN" \notin {"ACK"} /\ {"ACK"} \in {{"ACK"}, {"FIN"}, {"FIN", "ACK"}, {"RST"}}
    OBVIOUS
  <2>2. InOrder(SendEmptyPacket(c, {"ACK"})) /\ SameSocket(c, SendEmptyPacket(c, {"ACK"}))
    BY <1>2, <1>5, <1>7, <2>1, SendInOrder
  <2>3. InOrder(SendEmptyPacket(t, {"ACK"})) /\ SameSocket(t, SendEmptyPacket(t, {"ACK"}))
    BY <1>6, <1>7, <2>1, SendInOrder
  <2>4. QED
    BY <2>2, <2>3
<1>9. seg.ack = s.highTx + 1 => AcksFin(seg)
  BY <1>1 DEF AcksFin, Segments
<1>10. FinInWait(s, seg) = IF s.state = "FIN_WAIT_1" /\ seg.ack # s.highTx + 1
                           THEN SendEmptyPacket(c, {"ACK"}) ELSE SendEmptyPacket(t, {"ACK"})
  BY DEF FinInWait, c, t
<1>11. CASE s.state = "FIN_WAIT_1" /\ seg.ack # s.highTx + 1
  BY <1>3, <1>8, <1>10, <1>11 DEF SameSocket, SameNumbers, Waiting
<1>12. CASE ~(s.state = "FIN_WAIT_1" /\ seg.ack # s.highTx + 1)
  BY <1>6, <1>8, <1>9, <1>10, <1>12 DEF SameSocket, SameNumbers, Waiting
<1>13. QED
  BY <1>11, <1>12

LEMMA ProcessWaitInOrder ==
  ASSUME NEW s \in Socket, InOrder(s), s.state \in {"FIN_WAIT_1", "FIN_WAIT_2", "CLOSE_WAIT"},
         NEW seg \in Segments, Formed(seg)
  PROVE  InOrder(ProcessWait(s, seg)) /\ Earned(s, seg, ProcessWait(s, seg))
<1> DEFINE a == ReceivedAck(s, seg.ack)
           f == SetFinSequence(a, seg.seq)
           g == [a EXCEPT !.state = "FIN_WAIT_2"]
           w == IF a.state = "FIN_WAIT_1" /\ seg.ack = a.highTx + 1 THEN g ELSE a
           Then(c) == IF c.state \in {"FIN_WAIT_1", "FIN_WAIT_2"} /\ Finished(c)
                      THEN FinInWait(c, seg) ELSE c
<1>1. seg.ack \in Nat /\ seg.seq \in Nat /\ s.state \in Later
  BY DEF Segments, Later
<1>2. /\ a \in Socket /\ InOrder(a) /\ a.state = s.state /\ a.live = s.live
      /\ a.highTx = s.highTx /\ a.fin = s.fin /\ a.nextRx = s.nextRx
  BY <1>1, ReceivedAckType, ReceivedAckInOrder
<1> HIDE DEF a
<1>3. ASSUME NEW c \in Socket, InOrder(c), c.state \in {"FIN_WAIT_1", "FIN_WAIT_2", "CLOSE_WAIT"},
             c.live = s.live, c.nextRx >= 2 => s.nextRx >= 2 \/ Finished(c),
             c.state = s.state \/ AcksFin(seg), "RST" \notin seg.flags
      PROVE  InOrder(Then(c)) /\ Earned(s, seg, Then(c))
  <2>1. CASE c.state \in {"FIN_WAIT_1", "FIN_WAIT_2"} /\ Finished(c)
    <3> DEFINE r == FinInWait(c, seg)
    <3>1. /\ InOrder(r) /\ r.fin = c.fin /\ r.nextRx = c.nextRx
          /\ r.state \in {"CLOSING", "TIME_WAIT"}
          /\ Waiting(r) => c.live /\ (c.state = "FIN_WAIT_2" \/ AcksFin(seg))
      BY <1>3, <2>1, FinInWaitInOrder
    <3> HIDE DEF r
    <3>2. Finished(r)
      BY <2>1, <3>1 DEF Finished
    <3>3. Earned(s, seg, r)
      BY <1>3, <3>1, <3>2 DEF Earned, Waiting
    <3>4. QED
      BY <2>1, <3>1, <3>3 DEF r
  <2>2. CASE ~(c.state \in {"FIN_WAIT_1", "FIN_WAIT_2"} /\ Finished(c))
    <3>1. Earned(s, seg, c)
      BY <1>3 DEF Earned, Waiting
    <3>2. QED
      BY <1>3, <2>2, <3>1
  <2>3. QED
    BY <2>1, <2>2
<1>4. "FIN" \in seg.flags /\ "RST" \notin seg.flags => InOrder(Then(f)) /\ Earned(s, seg, Then(f))
  <2> HAVE "FIN" \in seg.flags /\ "RST" \notin seg.flags
  <2>1. seg.seq >= 1
    BY DEF Formed
  <2>2. /\ f \in Socket /\ InOrder(f) /\ f.state = s.state /\ f.live = s.live
        /\ f.nextRx >= 2 => s.nextRx >= 2 \/ Finished(f)
    BY <1>1, <1>2, <2>1, SetFinSequenceType, SetFinSequenceInOrder
  <2> HIDE DEF f, Then
  <2>3. QED
    BY <1>3, <2>2
<1>5. "RST" \notin seg.flags => InOrder(Then(w)) /\ Earned(s, seg, Then(w))
  <2> HAVE "RST" \notin seg.flags
  <2>1. g \in Socket
    BY <1>2, StateType DEF States
  <2>2. /\ SameNumbers(a, g) /\ g.state = "FIN_WAIT_2" /\ g.live = a.live /\ g.retx = a.retx
        /\ g.out = a.out
    BY <1>2 DEF Socket, SameNumbers
  <2>3. a.state = "FIN_WAIT_1" /\ seg.ack = a.highTx + 1 => AcksFin(seg)
    <3> HAVE a.state = "FIN_WAIT_1" /\ seg.ack = a.highTx + 1
    <3>1. a.highTx >= 1 /\ a.highTx \in Nat
      BY <1>2 DEF InOrder, Later, Socket
    <3>2. QED
      BY <3>1 DEF AcksFin
  <2> HIDE DEF g
  <2>4. a.state = "FIN_WAIT_1" => InOrder(g)
    BY <1>2, <2>2 DEF InOrder, SameNumbers, Later, Opening
  <2>5. w = IF a.state = "FIN_WAIT_1" /\ seg.ack = a.highTx + 1 THEN g ELSE a
    OBVIOUS
  <2> HIDE DEF w
  <2>6. /\ w \in Socket /\ InOrder(w) /\ w.state \in {"FIN_WAIT_1", "FIN_WAIT_2", "CLOSE_WAIT"}
        /\ w.live = s.live /\ w.nextRx = s.nextRx /\ (w.state = s.state \/ AcksFin(seg))
    BY <1>2, <2>1, <2>2, <2>3, <2>4, <2>5 DEF SameNumbers
  <2> HIDE DEF Then
  <2>7. QED
    BY <1>3, <2>6
<1>6. InOrder(Abort(s, Core(seg))) /\ Earned(s, seg, Abort(s, Core(seg)))
  BY AbortInOrder, PlainEarned DEF Ended, SameNumbers
<1>7. Earned(s, seg, s)
  BY PlainEarned
<1>8. /\ Core(seg) \in {{"ACK"}, {"FIN", "ACK"}} => "RST" \notin seg.flags
      /\ Core(seg) = {"FIN", "ACK"} => "FIN" \in seg.flags
  BY DEF Core
<1>9. ProcessWait(s, seg) =
        CASE Core(seg) = {"ACK"} -> Then(w)
          [] Core(seg) = {"FIN", "ACK"} -> Then(f)
          [] Core(seg) \in {{"SYN"}, {"SYN", "ACK"}} -> s
          [] OTHER -> Abort(s, Core(seg))
  BY DEF ProcessWait, a
<1> HIDE DEF Then, f, w
<1>10. QED
  BY <1>4, <1>5, <1>6, <1>7, <1>8, <1>9

LEMMA ProcessEstablishedInOrder ==
  ASSUME NEW s \in Socket, InOrder(s), s.state = "ESTABLISHED",
         NEW seg \in Segments, Formed(seg)
  PROVE  InOrder(ProcessEstablished(s, seg)) /\ Earned(s, seg, ProcessEstablished(s, seg))
<1> DEFINE p == SendEmptyPacket(s, {"ACK"})
           a == ReceivedAck(s, seg.ack)
<1>1. s.nextTx = 1 /\ s.highTx = 1 /\ s.head = 1 /\ seg.ack \in Nat
  BY DEF InOrder, Segments
<1>2. InOrder(p) /\ Earned(s, seg, p)
  <2>1. "FIN" \notin {"ACK"} /\ {"ACK"} \in {{"ACK"}, {"FIN"}, {"FIN", "ACK"}, {"RST"}}
    OBVIOUS
  <2>2. InOrder(p) /\ SameSocket(s, p)
    BY <1>1, <2>1, SendInOrder
  <2>3. QED
    BY <2>2, PlainEarned DEF SameSocket, SameNumbers
<1>3. seg.ack = 1 => InOrder(a) /\ Earned(s, seg, a)
  BY ReceivedAckInOrder, <1>1, PlainEarned
<1>4. "FIN" \in seg.flags => InOrder(PeerClose(s, seg)) /\ Earned(s, seg, PeerClose(s, seg))
  BY PeerCloseInOrder
<1>5. InOrder(Abort(s, Core(seg))) /\ Earned(s, seg, Abort(s, Core(seg)))
  BY AbortInOrder, PlainEarned DEF Ended, SameNumbers
<1>6. Earned(s, seg, s)
  BY PlainEarned
<1>7. Core(seg) = {"FIN", "ACK"} => "FIN" \in seg.flags
  BY DEF Core
<1>8. ProcessEstablished(s, seg) =
        CASE Core(seg) = {"ACK"} -> IF seg.ack < s.head THEN s
                                    ELSE IF seg.ack > s.highTx THEN p ELSE a
          [] Core(seg) \in {{"SYN"}, {"SYN", "ACK"}} -> s
          [] Core(seg) = {"FIN", "ACK"} -> PeerClose(s, seg)
          [] OTHER -> Abort(s, Core(seg))
  BY DEF ProcessEstablished
<1> HIDE DEF p, a
<1>9. QED
  BY <1>1, <1>2, <1>3, <1>4, <1>5, <1>6, <1>7, <1>8

LEMMA ProcessClosingInOrder ==
  ASSUME NEW s \in Socket, InOrder(s), s.state = "CLOSING", NEW seg \in Segments, Formed(seg)
  PROVE  InOrder(ProcessClosing(s, seg)) /\ Earned(s, seg, ProcessClosing(s, seg))
<1> DEFINE p == SendEmptyPacket(s, {"ACK"})
           t == TimeWait(s)
           q == CloseAndNotify(p)
<1>1. s.nextRx >= 2
  BY DEF InOrder
<1>2. p \in Socket /\ InOrder(p) /\ SameSocket(s, p)
  <2>1. "FIN" \notin {"ACK"} /\ {"ACK"} \in {{"ACK"}, {"FIN"}, {"FIN", "ACK"}, {"RST"}}
    OBVIOUS
  <2>2. QED
    BY <1>1, <2>1, SendInOrder
<1> HIDE DEF p
<1>3. InOrder(q) /\ Earned(s, seg, q)
  BY <1>2, EndInOrder, PlainEarned DEF Ended, SameSocket, SameNumbers
<1>4. seg.flags = {"ACK"} /\ seg.seq = s.nextRx => InOrder(t) /\ Earned(s, seg, t)
  <2> HAVE seg.flags = {"ACK"} /\ seg.seq = s.nextRx
  <2>1. AcksFin(seg)
    BY <1>1 DEF Formed, AcksFin, Segments
  <2>2. InOrder(t) /\ SameNumbers(s, t) /\ t.state = "TIME_WAIT"
    BY TimeWaitInOrder DEF Later
  <2>3. QED
    BY <2>1, <2>2 DEF Earned, SameNumbers
<1>5. InOrder(Abort(s, seg.flags)) /\ Earned(s, seg, Abort(s, seg.flags))
  BY AbortInOrder, PlainEarned DEF Ended, SameNumbers
<1>6. Earned(s, seg, s)
  BY PlainEarned
<1>7. ProcessClosing(s, seg) =
        CASE seg.flags = {"ACK"} -> IF seg.seq = s.nextRx THEN t ELSE s
          [] seg.flags = {"FIN", "ACK"} -> q
          [] OTHER -> Abort(s, seg.flags)
  BY DEF ProcessClosing, p
<1> HIDE DEF t, q
<1>8. QED
  BY <1>3, <1>4, <1>5, <1>6, <1>7

LEMMA ProcessLastAckInOrder ==
  ASSUME NEW s \in Socket, InOrder(s), s.state = "LAST_ACK", NEW seg \in Segments
  PROVE  InOrder(ProcessLastAck(s, seg)) /\ Earned(s, seg, ProcessLastAck(s, seg))
<1> DEFINE p == SendEmptyPacket(s, {"FIN", "ACK"})
           q == CloseAndNotify(s)
<1>1. InOrder(p) /\ Earned(s, seg, p)
  <2>1. s.nextTx >= 1
    BY DEF InOrder, Later
  <2>2. {"FIN", "ACK"} # {"ACK"} /\ {"FIN", "ACK"} \in {{"ACK"}, {"FIN"}, {"FIN", "ACK"}, {"RST"}}
    OBVIOUS
  <2>3. InOrder(p) /\ SameSocket(s, p)
    BY <2>1, <2>2, SendInOrder
  <2>4. QED
    BY <2>3, PlainEarned DEF SameSocket, SameNumbers
<1>2. InOrder(q) /\ Earned(s, seg, q)
  BY EndInOrder, PlainEarned DEF Ended, SameNumbers
<1>3. InOrder(Abort(s, seg.flags)) /\ Earned(s, seg, Abort(s, seg.flags))
  BY AbortInOrder, PlainEarned DEF Ended, SameNumbers
<1>4. Earned(s, seg, s)
  BY PlainEarned
<1>5. ProcessLastAck(s, seg) =
        CASE seg.flags = {"ACK"} -> IF seg.seq = s.nextRx THEN q ELSE s
          [] seg.flags = {"FIN"} -> p
          [] seg.flags = {"FIN", "ACK"} -> q
          [] OTHER -> Abort(s, seg.flags)
  BY DEF ProcessLastAck
<1> HIDE DEF p, q
<1>6. QED
  BY <1>1, <1>2, <1>3, <1>4, <1>5

\* The handshake: a SYN takes the receiver to 1, and the socket past its own SYN is at 1.
LEMMA AnswerSynInOrder ==
  ASSUME NEW s \in Socket, InOrder(s), s.state = "SYN_RCVD", s.out = {},
         NEW seg \in Segments, Formed(seg), Core(seg) = {"SYN"}
  PROVE  LET r == AnswerSyn(s, seg)
         IN  InOrder(r) /\ r.nextRx = 1 /\ r.state \in {"SYN_RCVD", "CLOSED"}
<1> DEFINE flags == {"SYN", "ACK"} \cup (IF IsEcnSyn(s, seg) THEN {"ECE"} ELSE {})
           c == [s EXCEPT !.nextRx = seg.seq + 1]
           r == SendEmptyPacket(c, flags)
           ecn == IsEcnSyn(s, seg)
           a == AnswerSyn(s, seg)
<1>1. seg.seq = 0
  BY DEF Formed, Core
<1>2. /\ c \in Socket /\ c.nextRx = 1 /\ c.state = "SYN_RCVD" /\ c.nextTx = s.nextTx
      /\ c.fin = s.fin /\ c.retx = s.retx /\ c.out = {}
  <2>1. 0 + 1 = 1 /\ 1 \in Nat
    OBVIOUS
  <2>2. c = [s EXCEPT !.nextRx = 1]
    BY <1>1, <2>1
  <2> HIDE DEF c
  <2>3. QED
    BY <2>1, <2>2 DEF Socket
<1> HIDE DEF c
<1>3. InOrder(c) /\ c.nextTx = 0
  BY <1>2 DEF InOrder, Later, Opening
<1>4. flags \in SUBSET Flags /\ "SYN" \in flags /\ "FIN" \notin flags
  BY DEF Flags
<1>5. a = [r EXCEPT !.ecn = ecn]
  BY DEF AnswerSyn, c
<1> HIDE DEF flags
<1>6. InOrder(Emit(c, flags)) /\ SameSocket(c, Emit(c, flags))
  BY <1>2, <1>3, <1>4, EmitInOrder DEF Opening
<1>7. InOrder(CloseAndNotify(c)) /\ Ended(c, CloseAndNotify(c))
  BY <1>2, <1>3, EndInOrder
<1>8. r \in Socket /\ InOrder(r) /\ r.nextRx = 1 /\ r.state \in {"SYN_RCVD", "CLOSED"}
  BY <1>2, <1>3, <1>4, <1>6, <1>7, SendEmptyPacketType
     DEF SendEmptyPacket, SameSocket, SameNumbers, Ended
<1> HIDE DEF r, ecn
<1>9. /\ SameNumbers(r, a) /\ a.state = r.state /\ a.retx = r.retx /\ a.out = r.out
  BY <1>5, <1>8 DEF Socket, SameNumbers
<1> HIDE DEF a
<1>10. InOrder(a)
  BY <1>8, <1>9 DEF InOrder, SameNumbers
<1>11. QED
  BY <1>8, <1>9, <1>10 DEF a, SameNumbers

LEMMA CompleteForkInOrder ==
  ASSUME NEW m \in UseEcnValues, NEW seg \in Segments, Formed(seg), Core(seg) = {"SYN"}
  PROVE  LET r == CompleteFork(NewSocket(m), seg)
         IN  InOrder(r) /\ r.nextRx = 1 /\ r.state \in {"SYN_RCVD", "CLOSED"}
<1> DEFINE n == NewSocket(m)
           c == [n EXCEPT !.state = "SYN_RCVD", !.live = TRUE, !.shutdownSend = TRUE]
<1>1. n \in Socket /\ n.nextTx = 0 /\ n.fin = NoFin /\ n.retx = NoEvent /\ n.out = {}
  BY NewSocketType DEF NewSocket
<1> HIDE DEF n
<1>2. /\ c \in Socket /\ c.state = "SYN_RCVD" /\ c.nextTx = 0 /\ c.fin = NoFin
      /\ c.retx = NoEvent /\ c.out = {}
  BY <1>1 DEF Socket, States
<1>3. CompleteFork(n, seg) = AnswerSyn(c, seg)
  BY DEF CompleteFork
<1> HIDE DEF c
<1>4. InOrder(c)
  BY <1>2 DEF InOrder, Later, Opening, NoEvent
<1>5. QED
  BY <1>2, <1>3, <1>4, AnswerSynInOrder DEF n

LEMMA SynchronizeNumbers ==
  ASSUME NEW s \in Socket, s.nextTx = 0
  PROVE  LET y == Synchronize(s)
         IN  /\ y \in Socket /\ y.nextTx = 1 /\ y.highTx = 1 /\ y.head = 1 /\ y.retx = NoEvent
             /\ y.out = s.out /\ y.state = s.state /\ y.live = s.live /\ y.fin = s.fin
             /\ y.nextRx = s.nextRx /\ y.shutdownSend = s.shutdownSend
<1>1. Synchronize(s) \in Socket
  BY SynchronizeType
<1>2. 0 + 1 = 1
  OBVIOUS
<1>3. Synchronize(s) = [s EXCEPT !.retx = NoEvent, !.nextTx = 1, !.highTx = 1, !.head = 1]
  BY <1>2 DEF Synchronize
<1>4. QED
  BY <1>1, <1>3 DEF Socket

LEMMA ProcessSynSentInOrder ==
  ASSUME NEW s \in Socket, InOrder(s), s.state = "SYN_SENT", s.out = {},
         NEW seg \in Segments, Formed(seg)
  PROVE  InOrder(ProcessSynSent(s, seg)) /\ Earned(s, seg, ProcessSynSent(s, seg))
<1> DEFINE y == Synchronize(s)
           c == [y EXCEPT !.state = "ESTABLISHED", !.nextRx = seg.seq + 1]
           r == SendEmptyPacket(c, {"ACK"})
           ecn == IsEcnSynAck(s, seg)
           d == [r EXCEPT !.ecn = ecn]
<1>1. s.nextTx = 0 /\ s.fin = NoFin
  BY DEF InOrder
<1>2. /\ y \in Socket /\ y.nextTx = 1 /\ y.highTx = 1 /\ y.head = 1 /\ y.retx = NoEvent
      /\ y.out = {} /\ y.fin = NoFin
  BY <1>1, SynchronizeNumbers
<1> HIDE DEF y
<1>3. ASSUME "SYN" \in seg.flags
      PROVE  InOrder(d) /\ Earned(s, seg, d)
  <2>1. seg.seq = 0
    BY <1>3 DEF Formed
  <2>2. /\ c \in Socket /\ c.state = "ESTABLISHED" /\ c.nextRx = 1 /\ c.nextTx = 1
        /\ c.highTx = 1 /\ c.head = 1 /\ c.retx = NoEvent /\ c.out = {} /\ c.fin = NoFin
    <3>1. 0 + 1 = 1 /\ 1 \in Nat
      OBVIOUS
    <3>2. c = [y EXCEPT !.state = "ESTABLISHED", !.nextRx = 1]
      BY <2>1, <3>1
    <3> HIDE DEF c
    <3>3. QED
      BY <1>2, <3>1, <3>2 DEF Socket, States
  <2> HIDE DEF c
  <2>3. InOrder(c)
    BY <2>2 DEF InOrder, Later, Opening, NoEvent
  <2>4. "FIN" \notin {"ACK"} /\ {"ACK"} \in {{"ACK"}, {"FIN"}, {"FIN", "ACK"}, {"RST"}}
    OBVIOUS
  <2>5. r \in Socket /\ InOrder(r) /\ SameSocket(c, r)
    BY <2>2, <2>3, <2>4, SendInOrder
  <2> HIDE DEF r, ecn
  <2>6. /\ SameNumbers(r, d) /\ d.state = r.state /\ d.retx = r.retx /\ d.out = r.out
    BY <2>5 DEF Socket, SameNumbers
  <2> HIDE DEF d
  <2>7. InOrder(d)
    BY <2>5, <2>6 DEF InOrder, SameNumbers
  <2>8. d.state = "ESTABLISHED" /\ d.nextRx = 1
    BY <2>2, <2>5, <2>6 DEF SameSocket, SameNumbers
  <2>9. QED
    BY <2>7, <2>8 DEF Earned, Waiting
<1>4. /\ InOrder(CloseAndNotify(SendRST(s))) /\ Earned(s, seg, CloseAndNotify(SendRST(s)))
      /\ InOrder(CloseAndNotify(s)) /\ Earned(s, seg, CloseAndNotify(s))
  BY AbortInOrder, EndInOrder, PlainEarned DEF Ended, SameNumbers
<1>5. Earned(s, seg, s)
  BY PlainEarned
<1>6. ProcessSynSent(s, seg) =
        IF "ACK" \in seg.flags /\ "SYN" \notin seg.flags THEN s
        ELSE IF "SYN" \in seg.flags /\ seg.ack = s.nextTx + 1 THEN d
        ELSE CloseAndNotify(IF "RST" \in seg.flags THEN s ELSE SendRST(s))
  BY DEF ProcessSynSent, y
<1> HIDE DEF d
<1>7. QED
  BY <1>3, <1>4, <1>5, <1>6

LEMMA ProcessSynRcvdInOrder ==
  ASSUME NEW s \in Socket, InOrder(s), s.state = "SYN_RCVD", s.out = {},
         NEW seg \in Segments, Formed(seg)
  PROVE  InOrder(ProcessSynRcvd(s, seg)) /\ Earned(s, seg, ProcessSynRcvd(s, seg))
<1> DEFINE y == Synchronize(s)
           c == [y EXCEPT !.state = "ESTABLISHED"]
           a == ReceivedAck(c, seg.ack)
           f == SetFinSequence(y, seg.seq)
           w == [f EXCEPT !.state = "CLOSE_WAIT"]
<1>1. s.nextTx = 0 /\ s.fin = NoFin
  BY DEF InOrder
<1>2. /\ y \in Socket /\ y.nextTx = 1 /\ y.highTx = 1 /\ y.head = 1 /\ y.retx = NoEvent
      /\ y.out = {} /\ y.fin = NoFin /\ y.state = "SYN_RCVD" /\ y.live = s.live
      /\ y.nextRx = s.nextRx
  BY <1>1, SynchronizeNumbers
<1> HIDE DEF y
<1>3. seg.ack = s.nextTx + 1 => InOrder(a) /\ Earned(s, seg, a)
  <2> HAVE seg.ack = s.nextTx + 1
  <2>1. seg.ack = 1
    BY <1>1
  <2>2. c \in Socket
    BY <1>2, StateType DEF States
  <2>3. SameNumbers(y, c) /\ c.state = "ESTABLISHED" /\ c.retx = NoEvent /\ c.out = {}
    BY <1>2 DEF Socket, SameNumbers
  <2> HIDE DEF c
  <2>4. InOrder(c)
    BY <1>2, <2>3 DEF InOrder, SameNumbers, NoEvent, Later, Opening
  <2>5. InOrder(a) /\ a.state = "ESTABLISHED" /\ a.nextRx = c.nextRx
    BY <2>1, <2>2, <2>3, <2>4, ReceivedAckInOrder
  <2> HIDE DEF a
  <2>6. a.nextRx = s.nextRx
    BY <1>2, <2>3, <2>5 DEF SameNumbers
  <2>7. QED
    BY <2>5, <2>6, PlainEarned
<1>4. ASSUME "FIN" \in seg.flags, seg.seq = s.nextRx
      PROVE  InOrder(PeerClose(y, seg)) /\ Earned(s, seg, PeerClose(y, seg))
  <2>1. seg.seq \in Nat /\ seg.seq >= 1 /\ s.nextRx \in Nat /\ NoFin = -1
    BY <1>4 DEF Segments, Formed, Socket, NoFin
  <2>2. f \in Socket
    BY <1>2, <2>1, SetFinSequenceType
  <2>3. /\ f.fin = seg.seq /\ f.nextRx = seg.seq + 1 /\ f.nextTx = 1 /\ f.highTx = 1
        /\ f.retx = NoEvent /\ f.out = {}
    BY <1>2, <1>4 DEF SetFinSequence, Socket
  <2> HIDE DEF f
  <2>4. Finished(f)
    BY <2>1, <2>3 DEF Finished
  <2>5. /\ SameNumbers(f, w) /\ w.state = "CLOSE_WAIT" /\ w.retx = NoEvent /\ w.out = {}
    BY <2>2, <2>3 DEF Socket, SameNumbers
  <2> HIDE DEF w
  <2>6. InOrder(w)
    BY <2>1, <2>3, <2>5 DEF InOrder, SameNumbers, NoEvent, Later
  <2> DEFINE r == DoPeerClose(f)
  <2>7. InOrder(r) /\ SameNumbers(f, r) /\ r.state \in {"CLOSE_WAIT", "LAST_ACK"}
    BY <2>2, <2>4, <2>6, DoPeerCloseInOrder DEF w
  <2>8. PeerClose(y, seg) = r
    BY <1>2, <1>4, <2>1, <2>4 DEF PeerClose, f
  <2> HIDE DEF r
  <2>9. Earned(s, seg, r)
    BY <2>4, <2>7 DEF Earned, Finished, SameNumbers, Waiting
  <2>10. QED
    BY <2>7, <2>8, <2>9
<1>5. Core(seg) = {"SYN"} => InOrder(AnswerSyn(s, seg)) /\ Earned(s, seg, AnswerSyn(s, seg))
  BY AnswerSynInOrder DEF Earned, Waiting
<1>6. InOrder(Abort(s, Core(seg))) /\ Earned(s, seg, Abort(s, Core(seg)))
  BY AbortInOrder, PlainEarned DEF Ended, SameNumbers
<1>7. Earned(s, seg, s)
  BY PlainEarned
<1>8. Core(seg) = {"FIN", "ACK"} => "FIN" \in seg.flags
  BY DEF Core
<1>9. ProcessSynRcvd(s, seg) =
        CASE Core(seg) = {"ACK"} /\ seg.ack = s.nextTx + 1 -> a
          [] Core(seg) = {"SYN"} -> AnswerSyn(s, seg)
          [] Core(seg) = {"FIN", "ACK"} -> IF seg.seq = s.nextRx THEN PeerClose(y, seg) ELSE s
          [] OTHER -> Abort(s, Core(seg))
  BY DEF ProcessSynRcvd, y
<1> HIDE DEF a
<1>10. CASE Core(seg) \in {{"ACK"}, {"SYN"}, {"FIN", "ACK"}}
  <2>1. {"ACK"} # {"SYN"} /\ {"ACK"} # {"FIN", "ACK"} /\ {"SYN"} # {"FIN", "ACK"}
    OBVIOUS
  <2>2. QED
    BY <1>3, <1>4, <1>5, <1>6, <1>7, <1>8, <1>9, <1>10, <2>1
<1>11. CASE Core(seg) \notin {{"ACK"}, {"SYN"}, {"FIN", "ACK"}}
  BY <1>6, <1>9, <1>11
<1>12. QED
  BY <1>10, <1>11

LEMMA DoForwardUpInOrder ==
  ASSUME NEW s \in Socket, InOrder(s), s.out = {}, NEW seg \in Segments, Formed(seg)
  PROVE  InOrder(DoForwardUp(s, seg)) /\ Earned(s, seg, DoForwardUp(s, seg))
<1> DEFINE c == CwrFlag(s, seg)
           r == DoForwardUp(s, seg)
<1>1. c \in Socket /\ SameSocket(s, c) /\ c.retx = s.retx /\ c.out = {}
  BY DEF CwrFlag, Socket, SameSocket, SameNumbers
<1> HIDE DEF c
<1>2. InOrder(c)
  BY <1>1 DEF InOrder, SameSocket, SameNumbers
<1>3. InOrder(r) /\ Earned(c, seg, r)
  <2>1. CASE c.state = "SYN_SENT"
    BY <1>1, <1>2, <2>1, ProcessSynSentInOrder DEF DoForwardUp, c
  <2>2. CASE c.state = "SYN_RCVD"
    BY <1>1, <1>2, <2>2, ProcessSynRcvdInOrder DEF DoForwardUp, c
  <2>3. CASE c.state = "ESTABLISHED"
    BY <1>1, <1>2, <2>3, ProcessEstablishedInOrder DEF DoForwardUp, c
  <2>4. CASE c.state \in {"FIN_WAIT_1", "FIN_WAIT_2", "CLOSE_WAIT"}
    BY <1>1, <1>2, <2>4, ProcessWaitInOrder DEF DoForwardUp, c
  <2>5. CASE c.state = "CLOSING"
    BY <1>1, <1>2, <2>5, ProcessClosingInOrder DEF DoForwardUp, c
  <2>6. CASE c.state = "LAST_ACK"
    BY <1>1, <1>2, <2>6, ProcessLastAckInOrder DEF DoForwardUp, c
  <2>7. CASE c.state \in {"CLOSED", "TIME_WAIT"}
    <3>1. r = c
      BY <2>7 DEF DoForwardUp, c
    <3>2. QED
      BY <1>2, <3>1, PlainEarned
  <2>8. QED
    BY <1>1, <2>1, <2>2, <2>3, <2>4, <2>5, <2>6, <2>7 DEF Socket, States
<1> HIDE DEF r
<1>4. Earned(s, seg, r)
  BY <1>1, <1>3 DEF Earned, Waiting, SameSocket, SameNumbers
<1>5. QED
  BY <1>3, <1>4 DEF r

\* A step that takes nothing from the network.
Alone(s, r) == /\ r.fin = s.fin /\ r.nextRx = s.nextRx
               /\ r.state = "SYN_RCVD" => s.state = "SYN_RCVD"
               /\ Waiting(r) => Waiting(s)

LEMMA SocketAlone ==
  ASSUME NEW s, NEW r, SameNumbers(s, r),
         \/ r.state = s.state /\ (r.live => s.live)
         \/ r.state \notin {"SYN_RCVD", "FIN_WAIT_2", "TIME_WAIT"}
  PROVE  Alone(s, r)
BY DEF Alone, SameNumbers, Waiting

LEMMA TimersInOrder ==
  ASSUME NEW s \in Socket, InOrder(s)
  PROVE  /\ s.retx \in SUBSET Flags /\ s.retx # NoEvent /\ s.retx # RtoEvent =>
              LET r == SendEmptyPacket([s EXCEPT !.retx = NoEvent], s.retx)
              IN  InOrder(r) /\ Alone(s, r)
         /\ LET r == ReTxTimeout([s EXCEPT !.retx = NoEvent]) IN InOrder(r) /\ Alone(s, r)
         /\ LET r == [s EXCEPT !.lastAck = FALSE] IN InOrder(r) /\ Alone(s, r)
         /\ s.state = "LAST_ACK" /\ s.retrCount # 0 =>
              LET r == SendEmptyPacket([s EXCEPT !.retrCount = @ - 1], {"FIN", "ACK"})
              IN  InOrder(r) /\ Alone(s, r)
<1> DEFINE x == [s EXCEPT !.retx = NoEvent]
           y == [s EXCEPT !.retrCount = s.retrCount - 1]
           z == [s EXCEPT !.lastAck = FALSE]
<1>1. x \in Socket /\ SameSocket(s, x) /\ x.retx = NoEvent /\ x.out = s.out
  BY DEF Socket, NoEvent, SameSocket, SameNumbers
<1>2. SameSocket(s, z) /\ z.retx = s.retx /\ z.out = s.out
  BY DEF Socket, SameSocket, SameNumbers
<1>3. /\ s.retrCount # 0 => y \in Socket
      /\ SameSocket(s, y) /\ y.retx = s.retx /\ y.out = s.out
  <2>1. s.retrCount # 0 => s.retrCount - 1 \in 0 .. DataRetries
    BY ConnectionAssumption DEF Socket
  <2>2. QED
    BY <2>1 DEF Socket, SameSocket, SameNumbers
<1> HIDE DEF x, y, z
<1>4. InOrder(x)
  BY <1>1 DEF InOrder, SameSocket, SameNumbers, NoEvent
<1>5. InOrder(y) /\ InOrder(z)
  BY <1>2, <1>3 DEF InOrder, SameSocket, SameNumbers
<1>6. s.retx \in SUBSET Flags /\ s.retx # NoEvent /\ s.retx # RtoEvent =>
        InOrder(SendEmptyPacket(x, s.retx)) /\ Alone(s, SendEmptyPacket(x, s.retx))
  <2> HAVE s.retx \in SUBSET Flags /\ s.retx # NoEvent /\ s.retx # RtoEvent
  <2>1. /\ "SYN" \in s.retx => x.state \in Opening /\ x.nextTx = 0 /\ "FIN" \notin s.retx
        /\ "FIN" \in s.retx => x.nextTx >= 1
        /\ s.retx \cap {"SYN", "FIN", "RST"} # {}
    BY <1>1 DEF InOrder, SameSocket, SameNumbers
  <2>2. InOrder(Emit(x, s.retx)) /\ SameSocket(x, Emit(x, s.retx))
    BY <1>1, <1>4, <2>1, EmitInOrder
  <2>3. InOrder(CloseAndNotify(x)) /\ Ended(x, CloseAndNotify(x))
    BY <1>1, <1>4, EndInOrder
  <2>4. Alone(s, Emit(x, s.retx)) /\ Alone(s, CloseAndNotify(x)) /\ Alone(s, x)
    BY <1>1, <2>2, <2>3, SocketAlone DEF SameSocket, SameNumbers, Ended
  <2>5. QED
    BY <1>4, <2>2, <2>3, <2>4 DEF SendEmptyPacket
<1>7. InOrder(ReTxTimeout(x)) /\ Alone(s, ReTxTimeout(x))
  <2>1. Alone(s, x)
    BY <1>1, SocketAlone DEF SameSocket
  <2>2. ASSUME x.state \in {"FIN_WAIT_1", "CLOSING"}
        PROVE  InOrder(SendEmptyPacket(x, {"FIN"})) /\ Alone(s, SendEmptyPacket(x, {"FIN"}))
    <3>1. x.nextTx >= 1
      BY <1>4, <2>2 DEF InOrder, Later
    <3>2. {"FIN"} # {"ACK"} /\ {"FIN"} \in {{"ACK"}, {"FIN"}, {"FIN", "ACK"}, {"RST"}}
      OBVIOUS
    <3>3. InOrder(SendEmptyPacket(x, {"FIN"})) /\ SameSocket(x, SendEmptyPacket(x, {"FIN"}))
      BY <1>1, <1>4, <3>1, <3>2, SendInOrder
    <3>4. QED
      BY <1>1, <3>3, SocketAlone DEF SameSocket, SameNumbers
  <2>3. QED
    BY <1>4, <2>1, <2>2 DEF ReTxTimeout
<1>8. Alone(s, z)
  BY <1>2, SocketAlone DEF SameSocket
<1>9. s.state = "LAST_ACK" /\ s.retrCount # 0 =>
        InOrder(SendEmptyPacket(y, {"FIN", "ACK"})) /\ Alone(s, SendEmptyPacket(y, {"FIN", "ACK"}))
  <2> HAVE s.state = "LAST_ACK" /\ s.retrCount # 0
  <2>1. y.nextTx >= 1
    BY <1>3 DEF InOrder, Later, SameSocket, SameNumbers
  <2>2. {"FIN", "ACK"} # {"ACK"} /\ {"FIN", "ACK"} \in {{"ACK"}, {"FIN"}, {"FIN", "ACK"}, {"RST"}}
    OBVIOUS
  <2>3. InOrder(SendEmptyPacket(y, {"FIN", "ACK"})) /\ SameSocket(y, SendEmptyPacket(y, {"FIN", "ACK"}))
    BY <1>3, <1>5, <2>1, <2>2, SendInOrder
  <2>4. QED
    BY <1>3, <2>3, SocketAlone DEF SameSocket, SameNumbers
<1>10. QED
  BY <1>5, <1>6, <1>7, <1>8, <1>9 DEF x, y, z

\* The invariant: who stopped waiting for the acknowledgment of its FIN was told so, and
\* whatever says so, in a socket or on the way, says it of a FIN that was accepted.
FinInv ==
  /\ TypeOK
  /\ \A e \in Ends : /\ InOrder(sock[e]) /\ sock[e].out = {}
                     /\ sock[e].nextRx >= 2 => Peer(e) \in finSeen
                     /\ \A seg \in net[e] : Formed(seg) /\ (AcksFin(seg) => e \in finSeen)
  /\ sock["client"].state # "SYN_RCVD"
  /\ FinAcked

LEMMA TransmitInOrder ==
  ASSUME TypeOK, NEW e \in Ends, NEW sent, NEW received, Transmit(e, sent, received)
  PROVE  \A f \in Ends : net'[f] \subseteq net[f] \cup (IF f = e THEN {} ELSE sent)
<1>1. Peer(e) \in Ends /\ Peer(e) # e /\ Ends = {e, Peer(e)}
  BY DEF Ends, Peer
<1>2. PICK in \in {net[e], net[e] \ received}, out \in {net[Peer(e)], net[Peer(e)] \cup sent} :
        net' = [net EXCEPT ![e] = in, ![Peer(e)] = out]
  BY DEF Transmit
<1>3. net'[e] = in /\ net'[Peer(e)] = out
  BY <1>1, <1>2 DEF TypeOK
<1>4. QED
  BY <1>1, <1>2, <1>3

LEMMA BecomesInOrder ==
  ASSUME FinInv, NEW e \in Ends, NEW s \in Socket, InOrder(s),
         s.nextRx >= 2 => Peer(e) \in finSeen \/ Finished(s),
         e = "client" => s.state # "SYN_RCVD",
         Waiting(s) => e \in finSeen,
         NEW received, Becomes(e, s, received), TypeOK'
  PROVE  FinInv'
<1> DEFINE t == [s EXCEPT !.out = {}]
<1>1. SameSocket(s, t) /\ t.retx = s.retx /\ t.out = {}
  BY DEF Socket, SameSocket, SameNumbers
<1>2. /\ sock' = [sock EXCEPT ![e] = t] /\ Transmit(e, s.out, received)
      /\ finSeen' = IF Finished(s) THEN finSeen \cup {Peer(e)} ELSE finSeen
  BY DEF Becomes
<1> HIDE DEF t
<1>3. InOrder(t)
  BY <1>1 DEF InOrder, SameSocket, SameNumbers
<1>4. Peer(e) \in Ends /\ Peer(e) # e /\ Peer(Peer(e)) = e /\ Ends = {e, Peer(e)}
  BY DEF Ends, Peer
<1>5. sock'[e] = t /\ \A f \in Ends : f # e => sock'[f] = sock[f]
  BY <1>2 DEF FinInv, TypeOK
<1>6. finSeen \subseteq finSeen' /\ (s.nextRx >= 2 => Peer(e) \in finSeen')
  BY <1>2
<1>7. \A f \in Ends : InOrder(sock'[f]) /\ sock'[f].out = {}
                      /\ (sock'[f].nextRx >= 2 => Peer(f) \in finSeen')
  <2>1. t.nextRx >= 2 => Peer(e) \in finSeen'
    BY <1>1, <1>6 DEF SameSocket, SameNumbers
  <2>2. QED
    BY <1>1, <1>3, <1>5, <1>6, <2>1 DEF FinInv
<1>8. \A f \in Ends : \A seg \in net'[f] : Formed(seg) /\ (AcksFin(seg) => f \in finSeen')
  <2> SUFFICES ASSUME NEW f \in Ends, NEW seg \in net'[f]
               PROVE  Formed(seg) /\ (AcksFin(seg) => f \in finSeen')
    OBVIOUS
  <2>1. seg \in net[f] \/ (f = Peer(e) /\ seg \in s.out)
    BY <1>2, <1>4, TransmitInOrder DEF FinInv
  <2>2. CASE seg \in net[f]
    BY <1>6, <2>2 DEF FinInv
  <2>3. CASE f = Peer(e) /\ seg \in s.out
    BY <1>6, <2>3 DEF InOrder
  <2>4. QED
    BY <2>1, <2>2, <2>3
<1>9. sock'["client"].state # "SYN_RCVD"
  <2>1. CASE e = "client"
    BY <1>1, <1>5, <2>1 DEF SameSocket
  <2>2. CASE e # "client"
    BY <1>5, <2>2 DEF FinInv, Ends
  <2>3. QED
    BY <2>1, <2>2
<1>10. FinAcked'
  <2> SUFFICES ASSUME NEW f \in Ends, sock'[f].live, sock'[f].state \in {"FIN_WAIT_2", "TIME_WAIT"}
               PROVE  f \in finSeen'
    BY DEF FinAcked
  <2>1. CASE f = e
    BY <1>1, <1>5, <1>6, <2>1 DEF SameSocket, Waiting
  <2>2. CASE f # e
    BY <1>5, <1>6, <2>2 DEF FinInv, FinAcked
  <2>3. QED
    BY <2>1, <2>2
<1>11. QED
  BY <1>7, <1>8, <1>9, <1>10 DEF FinInv

LEMMA InitInOrder == Init => FinInv
<1> SUFFICES ASSUME Init PROVE FinInv
  OBVIOUS
<1>1. PICK modes \in EcnModes :
        LET c == DoConnect([NewSocket(modes["client"]) EXCEPT !.live = TRUE])
        IN  /\ sock = [e \in Ends |-> IF e = "client" THEN [c EXCEPT !.out = {}]
                                      ELSE NewSocket(modes["server"])]
            /\ listening = TRUE
            /\ net = [e \in Ends |-> IF e = "server" /\ NetSize > 0 THEN c.out ELSE {}]
            /\ finSeen = {}
  BY DEF Init
<1> DEFINE n == [NewSocket(modes["client"]) EXCEPT !.live = TRUE]
           syn == IF n.useEcn = "On" THEN {"SYN", "ECE", "CWR"} ELSE {"SYN"}
           r == SendEmptyPacket(n, syn)
           c == DoConnect(n)
           t == [c EXCEPT !.out = {}]
           u == NewSocket(modes["server"])
<1>2. modes["client"] \in UseEcnValues
  BY ConnectionAssumption DEF Ends
<1>3. "client" \in Ends /\ "server" \in Ends /\ Ends = {"client", "server"}
  BY DEF Ends
<1>4. /\ n.state = "CLOSED" /\ n.nextTx = 0 /\ n.fin = NoFin /\ n.retx = NoEvent /\ n.out = {}
      /\ n.nextRx = 0
      /\ u.state = "CLOSED" /\ u.fin = NoFin /\ u.retx = NoEvent /\ u.out = {} /\ u.nextRx = 0
      /\ n.live = TRUE /\ n.synCount = SynRetries
  BY DEF NewSocket
<1>5. n \in Socket
  <2>1. \A x \in Socket : [x EXCEPT !.live = TRUE] \in Socket
    BY DEF Socket
  <2>2. QED
    BY <1>2, <2>1, NewSocketType
<1>6. c = [r EXCEPT !.state = "SYN_SENT", !.ecn = FALSE]
  BY DEF DoConnect
<1> HIDE DEF n, u, c
<1>7. InOrder(n) /\ InOrder(u)
  BY <1>4 DEF InOrder, Later, NoEvent
<1>8. syn \in SUBSET Flags /\ "SYN" \in syn /\ "FIN" \notin syn
  BY DEF Flags
<1> HIDE DEF syn
<1>9. r \in Socket
  BY <1>5, <1>8, SendEmptyPacketType
<1>10. InOrder(Emit(n, syn)) /\ SameSocket(n, Emit(n, syn))
  BY <1>4, <1>5, <1>7, <1>8, EmitInOrder DEF Opening
<1>11. r = Emit(n, syn)
  BY <1>4, ConnectionAssumption DEF SendEmptyPacket
<1>12. InOrder(r) /\ SameSocket(n, r)
  BY <1>10, <1>11
<1> HIDE DEF r
<1>13. /\ SameNumbers(r, c) /\ c.state = "SYN_SENT" /\ c.retx = r.retx /\ c.out = r.out
       /\ SameNumbers(r, t) /\ t.state = "SYN_SENT" /\ t.retx = r.retx /\ t.out = {}
  BY <1>6, <1>9 DEF Socket, SameNumbers
<1>14. /\ sock["client"] = t /\ sock["server"] = u
       /\ net["client"] = {} /\ net["server"] \in {{}, c.out}
  BY <1>1, <1>3 DEF c, n, u
<1> HIDE DEF t
<1>15. r.nextTx = 0 /\ r.fin = NoFin /\ r.nextRx = 0
  BY <1>4, <1>12 DEF SameSocket, SameNumbers
<1>16. InOrder(t)
  BY <1>12, <1>13, <1>15 DEF InOrder, SameNumbers, Opening, Later
<1>17. ~(t.nextRx >= 2) /\ ~(u.nextRx >= 2)
  BY <1>4, <1>13, <1>15 DEF SameNumbers
<1>18. \A seg \in net["server"] : Formed(seg) /\ ~AcksFin(seg)
  BY <1>12, <1>13, <1>14, <1>15 DEF InOrder
<1>19. FinAcked
  BY <1>3, <1>4, <1>13, <1>14 DEF FinAcked
<1>20. QED
  BY <1>3, <1>4, <1>7, <1>13, <1>14, <1>16, <1>17, <1>18, <1>19, InitType DEF FinInv

LEMMA NextInOrder == FinInv /\ [Next]_vars => FinInv'
<1> SUFFICES ASSUME FinInv, [Next]_vars PROVE FinInv'
  OBVIOUS
<1>0. TypeOK' /\ \A e \in Ends : /\ sock[e] \in Socket /\ InOrder(sock[e]) /\ sock[e].out = {}
                                 /\ sock[e].nextRx >= 2 => Peer(e) \in finSeen
                                 /\ Waiting(sock[e]) => e \in finSeen
                                 /\ e = "client" => sock[e].state # "SYN_RCVD"
  BY NextType DEF FinInv, TypeOK, FinAcked, Waiting
<1>1. ASSUME NEW e \in Ends, NEW r \in Socket, InOrder(r), Alone(sock[e], r), NEW received,
             Becomes(e, r, received)
      PROVE  FinInv'
  <2>1. /\ r.nextRx >= 2 => Peer(e) \in finSeen
        /\ e = "client" => r.state # "SYN_RCVD"
        /\ Waiting(r) => e \in finSeen
    BY <1>0, <1>1 DEF Alone
  <2>2. QED
    BY <1>0, <1>1, <2>1, BecomesInOrder
<1>2. ASSUME NEW e \in Ends, Receive(e) PROVE FinInv'
  <2>1. PICK seg \in net[e] : Becomes(e, DoForwardUp(sock[e], seg), {seg})
    BY <1>2 DEF Receive
  <2>2. seg \in Segments /\ Formed(seg) /\ (AcksFin(seg) => e \in finSeen)
    BY DEF FinInv, TypeOK
  <2> DEFINE r == DoForwardUp(sock[e], seg)
  <2>3. r \in Socket /\ InOrder(r) /\ Earned(sock[e], seg, r)
    BY <1>0, <2>2, DoForwardUpType, DoForwardUpInOrder
  <2> HIDE DEF r
  <2>4. /\ r.nextRx >= 2 => Peer(e) \in finSeen \/ Finished(r)
        /\ e = "client" => r.state # "SYN_RCVD"
        /\ Waiting(r) => e \in finSeen
    BY <1>0, <2>2, <2>3 DEF Earned
  <2>5. Becomes(e, r, {seg})
    BY <2>1 DEF r
  <2>6. QED
    BY <1>0, <2>3, <2>4, <2>5, BecomesInOrder
<1>3. ASSUME NEW e \in Ends, ReceiveWithoutEndPoint(e) PROVE FinInv'
  <2>1. PICK seg \in net[e] : Transmit(e, NoEndPointsFound(seg), {seg})
    BY <1>3 DEF ReceiveWithoutEndPoint
  <2>2. \A x \in NoEndPointsFound(seg) : x.flags \in {{"RST"}, {"RST", "ACK"}}
    BY DEF NoEndPointsFound
  <2>3. \A x \in NoEndPointsFound(seg) : Formed(x) /\ ~AcksFin(x)
    BY <2>2 DEF Formed, AcksFin
  <2>4. \A f \in Ends : net'[f] \subseteq net[f] \cup NoEndPointsFound(seg)
    BY <2>1, TransmitInOrder DEF FinInv
  <2>5. \A f \in Ends : \A x \in net'[f] : Formed(x) /\ (AcksFin(x) => f \in finSeen)
    BY <2>3, <2>4 DEF FinInv
  <2>6. sock' = sock /\ finSeen' = finSeen
    BY <1>3 DEF ReceiveWithoutEndPoint
  <2>7. FinAcked'
    BY <2>6 DEF FinInv, FinAcked
  <2>8. QED
    BY <1>0, <2>5, <2>6, <2>7 DEF FinInv
<1>4. ASSUME NEW e \in Ends, RetxEvent(e) PROVE FinInv'
  <2> DEFINE s == [sock[e] EXCEPT !.retx = NoEvent]
             r == IF sock[e].retx = RtoEvent THEN ReTxTimeout(s) ELSE SendEmptyPacket(s, sock[e].retx)
  <2>1. Becomes(e, r, {}) /\ sock[e].retx # NoEvent
    BY <1>4 DEF RetxEvent
  <2>2. sock[e].retx \in {RtoEvent} \cup SUBSET Flags
    BY <1>0 DEF Socket
  <2>3. r \in Socket
    BY <1>0, <2>2, TimersType
  <2>4. InOrder(r) /\ Alone(sock[e], r)
    BY <1>0, <2>1, <2>2, TimersInOrder
  <2> HIDE DEF r
  <2>5. QED
    BY <1>1, <2>1, <2>3, <2>4
<1>5. ASSUME NEW e \in Ends, LastAckTimeout(e) PROVE FinInv'
  <2> DEFINE s == sock[e]
             r == IF s.state # "LAST_ACK" THEN [s EXCEPT !.lastAck = FALSE]
                  ELSE IF s.retrCount = 0 THEN DeallocateEndPoint(s)
                  ELSE SendEmptyPacket([s EXCEPT !.retrCount = @ - 1], {"FIN", "ACK"})
  <2>1. Becomes(e, r, {})
    BY <1>5 DEF LastAckTimeout
  <2>2. r \in Socket
    BY <1>0, TimersType, CloseAndNotifyType
  <2>3. InOrder(DeallocateEndPoint(s)) /\ Alone(s, DeallocateEndPoint(s))
    BY <1>0, EndInOrder, SocketAlone
  <2>4. InOrder(r) /\ Alone(s, r)
    BY <1>0, <2>3, TimersInOrder
  <2> HIDE DEF r
  <2>5. QED
    BY <1>1, <2>1, <2>2, <2>4
<1>6. ASSUME NEW e \in Ends, TimeWaitTimeout(e) PROVE FinInv'
  <2>1. /\ CloseAndNotify(sock[e]) \in Socket /\ InOrder(CloseAndNotify(sock[e]))
        /\ Alone(sock[e], CloseAndNotify(sock[e]))
    BY <1>0, CloseAndNotifyType, EndInOrder, SocketAlone DEF Ended
  <2>2. QED
    BY <1>1, <1>6, <2>1 DEF TimeWaitTimeout
<1>7. CASE Listen
  <2> DEFINE fork(seg) == CompleteFork(NewSocket(sock["server"].useEcn), seg)
             s(seg) == IF Core(seg) = {"SYN"} THEN fork(seg) ELSE sock["server"]
  <2>1. PICK seg \in net["server"] : Becomes("server", s(seg), {seg})
    BY <1>7 DEF Listen
  <2>2. "server" \in Ends /\ seg \in Segments /\ Formed(seg)
    BY DEF FinInv, TypeOK, Ends
  <2>3. sock["server"].useEcn \in UseEcnValues
    BY <1>0, <2>2 DEF Socket
  <2>4. CASE Core(seg) = {"SYN"}
    <3> DEFINE r == fork(seg)
    <3>1. r \in Socket
      BY <2>2, <2>3, NewSocketType, CompleteForkType
    <3>2. InOrder(r) /\ r.nextRx = 1 /\ r.state \in {"SYN_RCVD", "CLOSED"}
      BY <2>2, <2>3, <2>4, CompleteForkInOrder
    <3>3. Becomes("server", r, {seg})
      BY <2>1, <2>4
    <3> HIDE DEF r
    <3>4. ~Waiting(r) /\ ~(r.nextRx >= 2)
      BY <3>2 DEF Waiting
    <3>5. QED
      BY <1>0, <2>2, <3>1, <3>2, <3>3, <3>4, BecomesInOrder
  <2>5. CASE Core(seg) # {"SYN"}
    <3>1. Becomes("server", sock["server"], {seg})
      BY <2>1, <2>5
    <3>2. Alone(sock["server"], sock["server"])
      BY DEF Alone
    <3>3. QED
      BY <1>0, <1>1, <2>2, <3>1, <3>2
  <2>6. QED
    BY <2>4, <2>5
<1>8. ASSUME NEW e \in Ends, sock[e].state # "SYN_RCVD"
      PROVE  Close(sock[e]) \in Socket /\ InOrder(Close(sock[e])) /\ Alone(sock[e], Close(sock[e]))
  <2>1. /\ Close(sock[e]) \in Socket /\ InOrder(Close(sock[e])) /\ SameNumbers(sock[e], Close(sock[e]))
        /\ \/ Close(sock[e]) = sock[e]
           \/ Close(sock[e]).state \in {"FIN_WAIT_1", "LAST_ACK", "CLOSED"}
    BY <1>0, <1>8, CloseType, CloseInOrder
  <2>2. QED
    BY <2>1, SocketAlone
<1>9. CASE StopSource
  <2>1. "client" \in Ends /\ sock["client"].state # "SYN_RCVD"
    BY DEF Ends, FinInv
  <2>2. Becomes("client", Close(sock["client"]), {})
    BY <1>9 DEF StopSource
  <2>3. QED
    BY <1>1, <1>8, <2>1, <2>2
<1>10. CASE StopSink
  <2> DEFINE s == sock["server"]
             r == IF s.state = "SYN_RCVD" THEN s ELSE Close(s)
  <2>1. "server" \in Ends
    BY DEF Ends
  <2>2. Alone(s, s)
    BY DEF Alone
  <2>3. r \in Socket /\ InOrder(r) /\ Alone(s, r)
    BY <1>0, <1>8, <2>1, <2>2
  <2>4. Becomes("server", r, {})
    BY <1>10 DEF StopSink
  <2> HIDE DEF r
  <2>5. QED
    BY <1>1, <2>1, <2>3, <2>4
<1>11. CASE UNCHANGED vars
  <2>1. sock' = sock /\ net' = net /\ finSeen' = finSeen
    BY <1>11 DEF vars
  <2>2. QED
    BY <1>0, <2>1 DEF FinInv, FinAcked
<1>12. QED
  BY <1>2, <1>3, <1>4, <1>5, <1>6, <1>7, <1>9, <1>10, <1>11 DEF Next

\* An end that no longer repeats its FIN is right: the other end has accepted one, for every
\* number of retries and whatever is lost, repeated or reordered, the segments of an earlier
\* socket of the server included (ProcessWait, ProcessClosing, PeerClose).
THEOREM FinIsAcked == Spec => []FinAcked
<1>1. FinInv => FinAcked
  BY DEF FinInv
<1>2. QED
  BY <1>1, InitInOrder, NextInOrder, PTL DEF Spec
=============================================================================
