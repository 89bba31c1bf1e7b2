--------------------------- MODULE TcpConnection ---------------------------
(***************************************************************************)
(* Opening and closing a connection: TcpSocketBase outside its data        *)
(* transfer.  The client has called Connect, as the demo's sources do when *)
(* they start; the server is the sink's listening socket, which forks a    *)
(* socket for a SYN.  Both buffers are empty, so every segment is one of   *)
(* SendEmptyPacket's, and the application may stop either end at any time. *)
(*                                                                         *)
(* The network loses, repeats and reorders segments.  Both initial         *)
(* sequence numbers are 0, as in the code, so segments of an earlier       *)
(* socket of the server are still good for a later one.                    *)
(***************************************************************************)
EXTENDS Integers, FiniteSets

CONSTANTS
  SynRetries,   \* m_synRetries, attribute ConnCount
  DataRetries,  \* m_dataRetries
  EcnModes,     \* the values of UseEcn of client and server a run starts with
  NetSize       \* bound: segments on the way to one end

Ends == {"client", "server"}
Peer(e) == IF e = "client" THEN "server" ELSE "client"
UseEcnValues == {"Off", "On", "AcceptOnly"}

ASSUME ConnectionAssumption ==
  /\ SynRetries \in Nat \ {0} /\ DataRetries \in Nat /\ NetSize \in Nat
  /\ EcnModes \subseteq [Ends -> UseEcnValues]

VARIABLES
  sock,       \* the socket of each end
  listening,  \* the sink's listening socket still has its endpoint
  net,        \* the segments on the way to each end
  finSeen     \* history: the ends whose FIN the other end accepted
vars == <<sock, listening, net, finSeen>>

States == {"CLOSED", "SYN_SENT", "SYN_RCVD", "ESTABLISHED", "CLOSE_WAIT", "LAST_ACK",
           "FIN_WAIT_1", "FIN_WAIT_2", "CLOSING", "TIME_WAIT"}
Flags == {"SYN", "ACK", "FIN", "RST", "ECE", "CWR"}
Segments == [flags: SUBSET Flags, seq: Nat, ack: Nat]

NoEvent == {}          \* the retransmission timer is expired
RtoEvent == {"RTO"}    \* it runs ReTxTimeout; otherwise SendEmptyPacket of its flags
NoFin == -1

Socket == [state: States,
           live: BOOLEAN,            \* has an endpoint
           useEcn: UseEcnValues,
           ecn: BOOLEAN,             \* m_ecnState is not ECN_DISABLED
           shutdownSend: BOOLEAN,
           nextTx: Nat, highTx: Nat, \* m_nextTxSequence, m_highTxMark
           head: Nat,                \* HeadSequence of the transmission buffer
           nextRx: Nat,              \* NextRxSequence of the receive buffer
           fin: Nat \cup {NoFin},    \* its m_finSeq
           synCount: 0 .. SynRetries,
           retrCount: 0 .. DataRetries,
           retx: {RtoEvent} \cup SUBSET Flags,
           lastAck: BOOLEAN,         \* m_lastAckEvent is running
           out: SUBSET Segments]     \* what the handler sent

NewSocket(useEcn) ==
  [state |-> "CLOSED", live |-> FALSE, useEcn |-> useEcn, ecn |-> FALSE,
   shutdownSend |-> FALSE, nextTx |-> 0, highTx |-> 0, head |-> 0, nextRx |-> 0,
   fin |-> NoFin, synCount |-> SynRetries, retrCount |-> DataRetries,
   retx |-> NoEvent, lastAck |-> FALSE, out |-> {}]

-----------------------------------------------------------------------------
(* Sending and tearing down. *)

DeallocateEndPoint(s) == [s EXCEPT !.live = FALSE, !.retx = NoEvent, !.lastAck = FALSE]

CloseAndNotify(s) == [DeallocateEndPoint(s) EXCEPT !.state = "CLOSED"]

\* The FIN takes a sequence number; it always carries ACK.
Sent(flags) == IF "FIN" \in flags THEN flags \cup {"ACK"} ELSE flags
Header(s, flags) ==
  LET afterFin == "FIN" \notin flags /\ s.state \in {"FIN_WAIT_1", "LAST_ACK", "CLOSING"}
  IN  [flags |-> Sent(flags), seq |-> IF afterFin THEN s.nextTx + 1 ELSE s.nextTx,
       ack |-> s.nextRx]

Emit(s, flags) ==
  [s EXCEPT !.out = @ \cup {Header(s, flags)},
            !.synCount = IF "SYN" \in flags THEN @ - 1 ELSE @,
            !.retx = IF @ = NoEvent /\ flags \cap {"SYN", "FIN"} # {}
                     THEN Sent(flags) ELSE @]

\* Faulty variant: the connection is never given up.
SendEmptyPacketForever(s, flags) == IF s.live THEN Emit(s, flags) ELSE s

SendEmptyPacket(s, flags) ==
  IF ~s.live THEN s
  ELSE IF "SYN" \in flags /\ s.synCount = 0 THEN CloseAndNotify(s)
  ELSE Emit(s, flags)

SendRST(s) == DeallocateEndPoint(SendEmptyPacket(s, {"RST"}))

\* An unexpected segment: a reset is answered by nothing.
Abort(s, flags) == CloseAndNotify(IF flags = {"RST"} THEN s ELSE SendRST(s))

DoConnect(s) ==
  LET syn == IF s.useEcn = "On" THEN {"SYN", "ECE", "CWR"} ELSE {"SYN"}
  IN  [SendEmptyPacket(s, syn) EXCEPT !.state = "SYN_SENT", !.ecn = FALSE]

\* DoClose after the tests of Close, both of which an empty socket passes.
Close(s) ==
  CASE s.state \in {"SYN_RCVD", "ESTABLISHED"} ->
         [SendEmptyPacket(s, {"FIN"}) EXCEPT !.state = "FIN_WAIT_1"]
    [] s.state = "CLOSE_WAIT" ->
         [SendEmptyPacket(s, {"FIN", "ACK"}) EXCEPT !.state = "LAST_ACK"]
    [] s.state \in {"SYN_SENT", "CLOSING"} -> CloseAndNotify(SendRST(s))
    [] OTHER -> s

TimeWait(s) == [s EXCEPT !.state = "TIME_WAIT", !.retx = NoEvent, !.lastAck = FALSE]

-----------------------------------------------------------------------------
(* The other end's FIN, and acknowledgments without data. *)

SetFinSequence(s, seq) ==
  [s EXCEPT !.fin = seq, !.nextRx = IF @ = seq THEN seq + 1 ELSE @]

Finished(s) == s.fin # NoFin /\ s.fin < s.nextRx

DoPeerClose(s) ==
  LET w == [s EXCEPT !.state = "CLOSE_WAIT"]
      c == IF s.shutdownSend THEN Close(w) ELSE SendEmptyPacket(w, {"ACK"})
  IN  IF c.state = "LAST_ACK" THEN [c EXCEPT !.retrCount = DataRetries, !.lastAck = TRUE]
      ELSE c

PeerClose(s, seg) ==
  LET c == SetFinSequence(s, seg.seq)
  IN  IF seg.seq < s.nextRx \/ (s.fin # NoFin /\ seg.seq > s.fin) THEN s
      ELSE IF Finished(c) THEN DoPeerClose(c)
      ELSE c

\* With nothing to transmit the timer NewAck starts survives only a pending FIN.
NewAck(s, ack) ==
  [s EXCEPT !.head = ack,
            !.nextTx = IF ack > @ THEN ack ELSE @,
            !.retrCount = DataRetries,
            !.retx = IF s.state \in {"FIN_WAIT_1", "CLOSING"} THEN RtoEvent ELSE NoEvent]

ReceivedAck(s, ack) ==
  IF ack > s.head THEN NewAck(s, ack)
  ELSE IF ack = s.head /\ ack > s.highTx THEN [s EXCEPT !.nextTx = ack]
  ELSE s

-----------------------------------------------------------------------------
(* The handlers of a segment, by state. *)

\* PSH and URG never appear; most states also disregard CWR and ECE.
Core(seg) == seg.flags \ {"ECE", "CWR"}

IsEcnSyn(s, seg) == s.useEcn # "Off" /\ {"ECE", "CWR"} \subseteq seg.flags
IsEcnSynAck(s, seg) == s.useEcn # "Off" /\ seg.flags \cap {"ECE", "CWR"} = {"ECE"}

\* The end of the handshake: the SYN is acknowledged.
Synchronize(s) ==
  [s EXCEPT !.retx = NoEvent, !.nextTx = s.nextTx + 1, !.highTx = s.nextTx + 1,
            !.head = s.nextTx + 1]

\* Faulty variant: a repeated SYN restarts the count of retries.
AnswerSynRestarts(s, seg) ==
  LET flags == {"SYN", "ACK"} \cup (IF IsEcnSyn(s, seg) THEN {"ECE"} ELSE {})
      r == SendEmptyPacket([s EXCEPT !.nextRx = seg.seq + 1, !.synCount = SynRetries], flags)
  IN  [r EXCEPT !.ecn = IsEcnSyn(s, seg)]

AnswerSyn(s, seg) ==
  LET flags == {"SYN", "ACK"} \cup (IF IsEcnSyn(s, seg) THEN {"ECE"} ELSE {})
      r == SendEmptyPacket([s EXCEPT !.nextRx = seg.seq + 1], flags)
  IN  [r EXCEPT !.ecn = IsEcnSyn(s, seg)]

CompleteFork(s, seg) ==
  AnswerSyn([s EXCEPT !.state = "SYN_RCVD", !.live = TRUE, !.shutdownSend = TRUE], seg)

\* The server never sends a SYN of its own, nor anyone a segment without flags.
ProcessSynSent(s, seg) ==
  LET c == [Synchronize(s) EXCEPT !.state = "ESTABLISHED", !.nextRx = seg.seq + 1]
  IN  IF "ACK" \in seg.flags /\ "SYN" \notin seg.flags THEN s
      ELSE IF "SYN" \in seg.flags /\ seg.ack = s.nextTx + 1
      THEN [SendEmptyPacket(c, {"ACK"}) EXCEPT !.ecn = IsEcnSynAck(s, seg)]
      ELSE CloseAndNotify(IF "RST" \in seg.flags THEN s ELSE SendRST(s))

\* Faulty variant: a repeated SYN is answered without ECE.
ProcessSynRcvdPlain(s, seg) ==
  CASE Core(seg) = {"ACK"} /\ seg.ack = s.nextTx + 1 ->
         ReceivedAck([Synchronize(s) EXCEPT !.state = "ESTABLISHED"], seg.ack)
    [] Core(seg) = {"SYN"} -> SendEmptyPacket([s EXCEPT !.nextRx = seg.seq + 1], {"SYN", "ACK"})
    [] Core(seg) = {"FIN", "ACK"} ->
         IF seg.seq = s.nextRx THEN PeerClose(Synchronize(s), seg) ELSE s
    [] OTHER -> Abort(s, Core(seg))

ProcessSynRcvd(s, seg) ==
  CASE Core(seg) = {"ACK"} /\ seg.ack = s.nextTx + 1 ->
         ReceivedAck([Synchronize(s) EXCEPT !.state = "ESTABLISHED"], seg.ack)
    [] Core(seg) = {"SYN"} -> AnswerSyn(s, seg)
    [] Core(seg) = {"FIN", "ACK"} ->
         IF seg.seq = s.nextRx THEN PeerClose(Synchronize(s), seg) ELSE s
    [] OTHER -> Abort(s, Core(seg))

ProcessEstablished(s, seg) ==
  CASE Core(seg) = {"ACK"} ->
         IF seg.ack < s.head THEN s
         ELSE IF seg.ack > s.highTx THEN SendEmptyPacket(s, {"ACK"})
         ELSE ReceivedAck(s, seg.ack)
    [] Core(seg) \in {{"SYN"}, {"SYN", "ACK"}} -> s
    [] Core(seg) = {"FIN", "ACK"} -> PeerClose(s, seg)
    [] OTHER -> Abort(s, Core(seg))

\* An in-sequence FIN of the peer, once this end has sent its own.
FinInWait(s, seg) ==
  IF s.state = "FIN_WAIT_1" /\ seg.ack # s.highTx + 1
  THEN SendEmptyPacket([s EXCEPT !.state = "CLOSING"], {"ACK"})
  ELSE SendEmptyPacket(TimeWait(s), {"ACK"})

\* Faulty variant: any acknowledgment is taken for that of the FIN.
ProcessWaitAnyAck(s, seg) ==
  LET a == ReceivedAck(s, seg.ack)
      f == SetFinSequence(a, seg.seq)
      w == IF a.state = "FIN_WAIT_1" THEN [a EXCEPT !.state = "FIN_WAIT_2"] ELSE a
      Then(c) == IF c.state \in {"FIN_WAIT_1", "FIN_WAIT_2"} /\ Finished(c)
                 THEN FinInWait(c, seg) ELSE c
  IN  CASE Core(seg) = {"ACK"} -> Then(w)
        [] Core(seg) = {"FIN", "ACK"} -> Then(f)
        [] Core(seg) \in {{"SYN"}, {"SYN", "ACK"}} -> s
        [] OTHER -> Abort(s, Core(seg))

ProcessWait(s, seg) ==
  LET a == ReceivedAck(s, seg.ack)
      f == SetFinSequence(a, seg.seq)
      w == IF a.state = "FIN_WAIT_1" /\ seg.ack = a.highTx + 1
           THEN [a EXCEPT !.state = "FIN_WAIT_2"] ELSE a
      Then(c) == IF c.state \in {"FIN_WAIT_1", "FIN_WAIT_2"} /\ Finished(c)
                 THEN FinInWait(c, seg) ELSE c
  IN  CASE Core(seg) = {"ACK"} -> Then(w)
        [] Core(seg) = {"FIN", "ACK"} -> Then(f)
        [] Core(seg) \in {{"SYN"}, {"SYN", "ACK"}} -> s
        [] OTHER -> Abort(s, Core(seg))

\* Neither this handler nor the next one disregards CWR and ECE.
ProcessClosing(s, seg) ==
  CASE seg.flags = {"ACK"} -> IF seg.seq = s.nextRx THEN TimeWait(s) ELSE s
    [] seg.flags = {"FIN", "ACK"} -> CloseAndNotify(SendEmptyPacket(s, {"ACK"}))
    [] OTHER -> Abort(s, seg.flags)

ProcessLastAck(s, seg) ==
  CASE seg.flags = {"ACK"} -> IF seg.seq = s.nextRx THEN CloseAndNotify(s) ELSE s
    [] seg.flags = {"FIN"} -> SendEmptyPacket(s, {"FIN", "ACK"})
    [] seg.flags = {"FIN", "ACK"} -> CloseAndNotify(s)
    [] OTHER -> Abort(s, seg.flags)

\* The CWR flag of any segment but a reset turns ECN on in ESTABLISHED.
CwrFlag(s, seg) ==
  IF s.state = "ESTABLISHED" /\ "CWR" \in seg.flags /\ "RST" \notin seg.flags
  THEN [s EXCEPT !.ecn = TRUE] ELSE s

DoForwardUp(s0, seg) ==
  LET s == CwrFlag(s0, seg)
  IN  CASE s.state = "SYN_SENT" -> ProcessSynSent(s, seg)
        [] s.state = "SYN_RCVD" -> ProcessSynRcvd(s, seg)
        [] s.state = "ESTABLISHED" -> ProcessEstablished(s, seg)
        [] s.state \in {"FIN_WAIT_1", "FIN_WAIT_2", "CLOSE_WAIT"} -> ProcessWait(s, seg)
        [] s.state = "CLOSING" -> ProcessClosing(s, seg)
        [] s.state = "LAST_ACK" -> ProcessLastAck(s, seg)
        [] OTHER -> s

NoEndPointsFound(seg) ==
  IF "RST" \in seg.flags THEN {}
  ELSE IF "ACK" \in seg.flags THEN {[flags |-> {"RST"}, seq |-> seg.ack, ack |-> 0]}
  ELSE {[flags |-> {"RST", "ACK"}, seq |-> 0, ack |-> seg.seq + 1]}

-----------------------------------------------------------------------------
(* The events. *)

\* What was sent may be lost, what was received may arrive again.
Transmit(e, sent, received) ==
  \E in \in {net[e], net[e] \ received}, out \in {net[Peer(e)], net[Peer(e)] \cup sent} :
    /\ Cardinality(out) <= NetSize
    /\ net' = [net EXCEPT ![e] = in, ![Peer(e)] = out]

Becomes(e, s, received) ==
  /\ sock' = [sock EXCEPT ![e] = [s EXCEPT !.out = {}]]
  /\ finSeen' = IF Finished(s) THEN finSeen \cup {Peer(e)} ELSE finSeen
  /\ Transmit(e, s.out, received)

Receive(e) ==
  /\ sock[e].live
  /\ \E seg \in net[e] : Becomes(e, DoForwardUp(sock[e], seg), {seg})
  /\ UNCHANGED listening

\* The listening socket gets what no forked socket takes, and ignores all but a SYN.
Listen ==
  /\ ~sock["server"].live /\ listening
  /\ \E seg \in net["server"] :
       LET s == IF Core(seg) = {"SYN"}
                THEN CompleteFork(NewSocket(sock["server"].useEcn), seg)
                ELSE sock["server"]
       IN  Becomes("server", s, {seg})
  /\ UNCHANGED listening

ReceiveWithoutEndPoint(e) ==
  /\ ~sock[e].live /\ ~(e = "server" /\ listening)
  /\ \E seg \in net[e] : Transmit(e, NoEndPointsFound(seg), {seg})
  /\ UNCHANGED <<sock, listening, finSeen>>

ReTxTimeout(s) ==
  IF s.state \in {"FIN_WAIT_1", "CLOSING"} THEN SendEmptyPacket(s, {"FIN"}) ELSE s

RetxEvent(e) ==
  LET s == [sock[e] EXCEPT !.retx = NoEvent]
      flags == sock[e].retx
  IN  /\ flags # NoEvent
      /\ Becomes(e, IF flags = RtoEvent THEN ReTxTimeout(s) ELSE SendEmptyPacket(s, flags), {})
      /\ UNCHANGED listening

LastAckTimeout(e) ==
  LET s == sock[e]
  IN  /\ s.lastAck
      /\ Becomes(e, IF s.state # "LAST_ACK" THEN [s EXCEPT !.lastAck = FALSE]
                    ELSE IF s.retrCount = 0 THEN DeallocateEndPoint(s)
                    ELSE SendEmptyPacket([s EXCEPT !.retrCount = @ - 1], {"FIN", "ACK"}), {})
      /\ UNCHANGED listening

TimeWaitTimeout(e) ==
  /\ sock[e].live /\ sock[e].state = "TIME_WAIT"
  /\ Becomes(e, CloseAndNotify(sock[e]), {})
  /\ UNCHANGED listening

\* The source's StopApplication.
StopSource ==
  /\ sock["client"].live
  /\ Becomes("client", Close(sock["client"]), {})
  /\ UNCHANGED listening

\* The sink's StopApplication closes the sockets it accepted and the listening one.
StopSink ==
  LET s == sock["server"]
  IN  /\ listening
      /\ listening' = FALSE
      /\ Becomes("server", IF s.state = "SYN_RCVD" THEN s ELSE Close(s), {})

Init ==
  \E modes \in EcnModes :
    LET c == DoConnect([NewSocket(modes["client"]) EXCEPT !.live = TRUE])
    IN  /\ sock = [e \in Ends |-> IF e = "client" THEN [c EXCEPT !.out = {}] ELSE NewSocket(modes["server"])]
        /\ listening = TRUE
        /\ net = [e \in Ends |-> IF e = "server" /\ NetSize > 0 THEN c.out ELSE {}]
        /\ finSeen = {}

Next ==
  \/ \E e \in Ends : \/ Receive(e) \/ ReceiveWithoutEndPoint(e) \/ RetxEvent(e)
                     \/ LastAckTimeout(e) \/ TimeWaitTimeout(e)
  \/ Listen \/ StopSource \/ StopSink

Spec == Init /\ [][Next]_vars

\* A scheduled event runs at its time unless it is cancelled.
FairSpec == Spec /\ \A e \in Ends : WF_vars(RetxEvent(e)) /\ WF_vars(LastAckTimeout(e))

-----------------------------------------------------------------------------
\* Every field keeps its range: the counters of retries never pass zero.
TypeOK ==
  /\ sock \in [Ends -> Socket]
  /\ listening \in BOOLEAN
  /\ net \in [Ends -> SUBSET Segments]
  /\ finSeen \subseteq Ends

\* Two sockets past their handshake have both negotiated ECN or neither has,
\* whatever SYNs and SYN+ACKs were lost, repeated or delayed (ProcessListen,
\* ProcessSynRcvd, ProcessSynSent, ProcessEstablished).
EcnAgreed ==
  sock["client"].state \notin {"CLOSED", "SYN_SENT"} /\ sock["server"].state # "CLOSED"
    => sock["client"].ecn = sock["server"].ecn

\* A socket that stops sending its FIN because it was acknowledged was right: the
\* other end has accepted a FIN of this end (ProcessWait, ProcessClosing).
FinAcked ==
  \A e \in Ends : sock[e].live /\ sock[e].state \in {"FIN_WAIT_2", "TIME_WAIT"} => e \in finSeen

Trying(e) == /\ sock[e].live
             /\ \/ sock[e].state \in {"SYN_SENT", "SYN_RCVD"}
                \/ sock[e].state = "LAST_ACK" /\ sock[e].lastAck

\* The retries of SYN and SYN+ACK, and of the FIN of a sink, come to an end even if
\* nothing arrives any more (SendEmptyPacket, LastAckTimeout).
AttemptsEnd == \A e \in Ends : Trying(e) ~> ~Trying(e)
=============================================================================
