------------------------- MODULE DctcpSenderProofs -------------------------
(***************************************************************************)
(* Theorems about DctcpSender, for every value of its constants.           *)
(*                                                                         *)
(* An action is a pipeline of operators on the socket record, so the       *)
(* inductive invariant is stated of a record (Good) and each operator has  *)
(* a lemma saying that it keeps it; a handler's proof chains the lemmas in *)
(* the order of its calls.  n is SND.NXT at the start of the handler.      *)
(***************************************************************************)
EXTENDS DctcpSender, TcpTxBufferProofs

\* Type, scoreboard, and the relations between fields the theorems need.
Shape(st) ==
  /\ st \in Socket
  /\ BufferOK(st.buf)
  /\ st.buf.nxt - st.buf.una <= RWnd
  /\ st.recover <= st.buf.nxt
  /\ st.bytesACKedECE <= st.bytesACKedAll

\* What this handler has sent so far.
NewInOrder(out, n, nxt) ==
  /\ \A i \in DOMAIN out : ~out[i].retrans => out[i].seq \in n .. nxt - 1
  /\ \A s \in n .. nxt - 1 :
       \E i \in DOMAIN out :
         /\ out[i].seq = s /\ ~out[i].retrans
         /\ \A j \in DOMAIN out : j # i /\ ~out[j].retrans => (j < i <=> out[j].seq < s)

OldIsMissing(st) ==
  \A i \in DOMAIN st.out :
    /\ st.out[i].seq \notin st.buf.sacked
    /\ st.out[i].retrans => /\ st.out[i].seq \in Sent(st.buf)
                            /\ st.cong = "RECOVERY" \/ st.out[i].seq \in st.buf.lost

Good(st, n) ==
  /\ Shape(st)
  /\ n \in SeqNum /\ n <= st.buf.nxt
  /\ NewInOrder(st.out, n, st.buf.nxt)
  /\ OldIsMissing(st)

Timed(st) == st.buf.una < st.buf.nxt => st.retx

\* CWR answers an echo the head has reached, and by then the segment that carried
\* the last CWR (q, when the handler started) is acknowledged.
CwrOnce(st, q) ==
  /\ st.echoSeq <= st.buf.una /\ q <= st.cwrSeq
  /\ \A i \in DOMAIN st.out : st.out[i].cwr => ~st.out[i].retrans /\ q < st.buf.una

\* What sending leaves alone.
Frame(st, c) ==
  /\ c.cong = st.cong /\ c.recover = st.recover
  /\ c.buf.una = st.buf.una /\ st.buf.nxt <= c.buf.nxt
  /\ c.buf.sacked = st.buf.sacked
  /\ \A q \in Int : CwrOnce(st, q) => CwrOnce(c, q)

-----------------------------------------------------------------------------
(* Sending *)

\* seq may be sent: listed and missing, or new and inside the window.
MaySend(st, seq) ==
  \/ /\ seq \in Sent(st.buf) \ st.buf.sacked
     /\ st.cong = "RECOVERY" \/ seq \in st.buf.lost
  \/ seq = st.buf.nxt /\ Unsent(st.buf) /\ st.buf.nxt - st.buf.una < RWnd

LEMMA AppendFacts ==
  ASSUME NEW out \in Seq(Segments), NEW seg \in Segments
  PROVE  /\ Append(out, seg) \in Seq(Segments)
         /\ Len(out) \in Nat /\ DOMAIN out = 1 .. Len(out)
         /\ DOMAIN Append(out, seg) = 1 .. Len(out) + 1
         /\ \A i \in 1 .. Len(out) : Append(out, seg)[i] = out[i]
         /\ Append(out, seg)[Len(out) + 1] = seg
OBVIOUS

\* A retransmission, or the next new segment, keeps the new segments in order.
LEMMA AppendInOrder ==
  ASSUME NEW out \in Seq(Segments), NEW n \in Int, NEW nxt \in Int, n <= nxt,
         NewInOrder(out, n, nxt), NEW seg \in Segments
  PROVE  /\ seg.retrans => NewInOrder(Append(out, seg), n, nxt)
         /\ ~seg.retrans /\ seg.seq = nxt => NewInOrder(Append(out, seg), n, nxt + 1)
<1> DEFINE o == Append(out, seg)
           k == Len(out) + 1
<1>1. /\ k \in Nat \ {0} /\ DOMAIN out = 1 .. k - 1 /\ DOMAIN o = 1 .. k
      /\ \A i \in 1 .. k - 1 : o[i] = out[i]
      /\ o[k] = seg
  BY AppendFacts
<1>2. \A i \in 1 .. k : i = k \/ i \in 1 .. k - 1
  BY <1>1
<1>3. \A i \in 1 .. k - 1 : i \in 1 .. k /\ i # k /\ i < k /\ ~(k < i)
  BY <1>1
<1>4. /\ \A i \in 1 .. k - 1 : ~out[i].retrans => out[i].seq \in n .. nxt - 1
      /\ \A s \in n .. nxt - 1 :
           \E i \in 1 .. k - 1 :
             /\ out[i].seq = s /\ ~out[i].retrans
             /\ \A j \in 1 .. k - 1 :
                  j # i /\ ~out[j].retrans => (j < i <=> out[j].seq < s)
  BY <1>1 DEF NewInOrder
<1> HIDE DEF o, k
<1>5. ASSUME seg.retrans
      PROVE  NewInOrder(o, n, nxt)
  <2>1. \A i \in DOMAIN o : ~o[i].retrans => o[i].seq \in n .. nxt - 1
    BY <1>1, <1>2, <1>4, <1>5
  <2>2. ASSUME NEW s \in n .. nxt - 1
        PROVE  \E i \in DOMAIN o :
                 /\ o[i].seq = s /\ ~o[i].retrans
                 /\ \A j \in DOMAIN o : j # i /\ ~o[j].retrans => (j < i <=> o[j].seq < s)
    <3>1. PICK i \in 1 .. k - 1 :
             /\ out[i].seq = s /\ ~out[i].retrans
             /\ \A j \in 1 .. k - 1 :
                  j # i /\ ~out[j].retrans => (j < i <=> out[j].seq < s)
      BY <1>4
    <3>2. ASSUME NEW j \in 1 .. k, j # i, ~o[j].retrans
          PROVE  j < i <=> o[j].seq < s
      <4>1. j \in 1 .. k - 1
        BY <1>1, <1>2, <1>5, <3>2
      <4> QED
        BY <1>1, <3>1, <3>2, <4>1
    <3> QED
      BY <1>1, <1>3, <3>1, <3>2
  <2> QED
    BY <2>1, <2>2 DEF NewInOrder
<1>6. ASSUME ~seg.retrans, seg.seq = nxt
      PROVE  NewInOrder(o, n, nxt + 1)
  <2>1. \A i \in DOMAIN o : ~o[i].retrans => o[i].seq \in n .. nxt
    BY <1>1, <1>2, <1>4, <1>6
  <2>2. ASSUME NEW s \in n .. nxt
        PROVE  \E i \in DOMAIN o :
                 /\ o[i].seq = s /\ ~o[i].retrans
                 /\ \A j \in DOMAIN o : j # i /\ ~o[j].retrans => (j < i <=> o[j].seq < s)
    <3>1. CASE s = nxt
      <4>1. \A j \in 1 .. k : j # k /\ ~o[j].retrans => (j < k /\ o[j].seq < nxt)
        BY <1>1, <1>2, <1>3, <1>4
      <4>2. o[k].seq = s /\ ~o[k].retrans /\ k \in 1 .. k
        BY <1>1, <1>6, <3>1
      <4> QED
        BY <1>1, <3>1, <4>1, <4>2
    <3>2. CASE s \in n .. nxt - 1
      <4>1. PICK i \in 1 .. k - 1 :
               /\ out[i].seq = s /\ ~out[i].retrans
               /\ \A j \in 1 .. k - 1 :
                    j # i /\ ~out[j].retrans => (j < i <=> out[j].seq < s)
        BY <1>4, <3>2
      <4>2. ASSUME NEW j \in 1 .. k, j # i, ~o[j].retrans
            PROVE  j < i <=> o[j].seq < s
        <5>1. CASE j = k
          BY <1>1, <1>3, <1>6, <3>2, <5>1
        <5>2. CASE j \in 1 .. k - 1
          BY <1>1, <4>1, <4>2, <5>2
        <5> QED
          BY <1>2, <5>1, <5>2
      <4> QED
        BY <1>1, <1>3, <4>1, <4>2
    <3> QED
      BY <3>1, <3>2
  <2>3. nxt + 1 - 1 = nxt
    OBVIOUS
  <2> QED
    BY <2>1, <2>2, <2>3 DEF NewInOrder
<1> QED
  BY <1>5, <1>6 DEF o

LEMMA SendDataPacketOK ==
  ASSUME NEW st, NEW n, Good(st, n), NEW seq, MaySend(st, seq)
  PROVE  /\ Good(SendDataPacket(st, seq), n)
         /\ SendDataPacket(st, seq).retx = TRUE
         /\ Frame(st, SendDataPacket(st, seq))
         /\ seq \in Seg
<1> DEFINE first == seq = st.buf.nxt
           cwr == first /\ st.ecn = "ECE_RCVD" /\ st.echoSeq > st.cwrSeq
           b == CopyFromSequence(st.buf, seq)
           ecn == IF cwr THEN "CWR_SENT" ELSE st.ecn
           cwrSeq == IF cwr THEN seq ELSE st.cwrSeq
           seg == [seq |-> seq, retrans |-> ~first, cwr |-> cwr]
           out == Append(st.out, seg)
           c == SendDataPacket(st, seq)
<1>1. st \in Socket /\ BufferOK(st.buf)
  BY DEF Good, Shape
<1>2. Sendable(st.buf, seq)
  BY DEF MaySend, Sendable
<1>3. /\ BufferOK(b) /\ b.una = st.buf.una
      /\ b.nxt = IF first THEN st.buf.nxt + 1 ELSE st.buf.nxt
      /\ b.sacked = st.buf.sacked /\ b.lost = st.buf.lost
      /\ seq \in Seg
  BY <1>1, <1>2, CopyFromSequenceOK
<1>4. c = [st EXCEPT !.buf = b, !.ecn = ecn, !.cwrSeq = cwrSeq, !.nextTx = seq,
                     !.retx = TRUE, !.out = out]
  BY DEF SendDataPacket
<1>5. seg \in Segments /\ seg.seq = seq /\ seg.retrans = ~first
  BY <1>3 DEF Segments
<1>6. /\ ecn \in EcnStates /\ cwrSeq \in {None} \cup Seg
      /\ seq \in SeqNum /\ b \in Buffer
  BY <1>1, <1>3, SeqAssumption DEF Socket, EcnStates, Seg, SeqNum, BufferOK
<1>7. st.out \in Seq(Segments)
  BY <1>1 DEF Socket
<1>8. out \in Seq(Segments)
  BY <1>5, <1>7
<1> HIDE DEF c, b, ecn, cwrSeq, out
<1>9. /\ c \in Socket
      /\ c.buf = b /\ c.retx = TRUE /\ c.out = out
      /\ c.cong = st.cong /\ c.recover = st.recover
      /\ c.bytesACKedAll = st.bytesACKedAll /\ c.bytesACKedECE = st.bytesACKedECE
      /\ c.echoSeq = st.echoSeq /\ c.cwrSeq = cwrSeq
  BY <1>1, <1>4, <1>6, <1>8 DEF Socket
<1>10. /\ n \in Int /\ st.buf.nxt \in Int /\ st.buf.una \in Int /\ n <= st.buf.nxt
       /\ n \in SeqNum /\ b.nxt \in Int /\ st.buf.nxt <= b.nxt
       /\ st.recover <= st.buf.nxt /\ st.recover \in Int
       /\ st.buf.nxt - st.buf.una <= RWnd
  BY <1>1, <1>3, SegOfList DEF Good, Shape, SeqNum, Socket, None
<1>11. b.nxt - b.una <= RWnd
  <2>1. CASE first
    <3>1. st.buf.nxt - st.buf.una < RWnd
      BY <1>10, <2>1 DEF MaySend, Sent
    <3> QED
      BY <1>3, <1>10, <2>1, <3>1, RWndAssumption
  <2>2. CASE ~first
    BY <1>3, <1>10, <2>2
  <2> QED
    BY <2>1, <2>2
<1>12. Shape(c)
  BY <1>3, <1>9, <1>10, <1>11 DEF Shape, Good
<1>13. NewInOrder(out, n, b.nxt)
  BY <1>3, <1>5, <1>7, <1>10, AppendInOrder DEF out, Good
<1>14. Sent(st.buf) \subseteq Sent(b)
  BY <1>3, <1>10 DEF Sent
<1>15. /\ seq \notin st.buf.sacked
       /\ ~first => /\ seq \in Sent(st.buf)
                    /\ st.cong = "RECOVERY" \/ seq \in st.buf.lost
  <2>1. st.buf.nxt \notin st.buf.sacked
    BY <1>1, <1>10 DEF BufferOK, Placed, Sent
  <2> QED
    BY <2>1 DEF MaySend
<1>16. OldIsMissing(c)
  <2> DEFINE k == Len(st.out) + 1
  <2>1. /\ k \in Nat /\ DOMAIN st.out = 1 .. k - 1 /\ DOMAIN out = 1 .. k
        /\ \A i \in 1 .. k - 1 : out[i] = st.out[i]
        /\ out[k] = seg
    BY <1>5, <1>7, AppendFacts DEF out
  <2> HIDE DEF k
  <2>2. ASSUME NEW i \in DOMAIN out
        PROVE  /\ out[i].seq \notin b.sacked
               /\ out[i].retrans => /\ out[i].seq \in Sent(b)
                                    /\ st.cong = "RECOVERY" \/ out[i].seq \in b.lost
    <3>1. CASE i = k
      BY <1>3, <1>5, <1>14, <1>15, <2>1, <3>1
    <3>2. CASE i \in 1 .. k - 1
      BY <1>3, <1>14, <2>1, <3>2 DEF Good, OldIsMissing
    <3> QED
      BY <2>1, <3>1, <3>2
  <2> QED
    BY <1>9, <2>2 DEF OldIsMissing
<1>17. Good(c, n)
  BY <1>9, <1>10, <1>12, <1>13, <1>16 DEF Good
<1>18. ASSUME NEW q \in Int, CwrOnce(st, q)
       PROVE  CwrOnce(c, q)
  <2> DEFINE k == Len(st.out) + 1
  <2>1. /\ k \in Nat /\ DOMAIN st.out = 1 .. k - 1 /\ DOMAIN out = 1 .. k
        /\ \A i \in 1 .. k - 1 : out[i] = st.out[i]
        /\ out[k] = seg
    BY <1>5, <1>7, AppendFacts DEF out
  <2> HIDE DEF k
  <2>2. /\ st.echoSeq \in Int /\ st.cwrSeq \in Int /\ st.echoSeq <= st.buf.una
        /\ q <= st.cwrSeq /\ st.buf.una <= st.buf.nxt
    BY <1>1, <1>10, <1>18 DEF CwrOnce, Socket, SeqNum, Seg, None, BufferOK, Placed
  <2>3. cwr => q < st.buf.una /\ first
    BY <1>10, <2>2
  <2>4. q <= cwrSeq
    BY <1>10, <2>2 DEF cwrSeq
  <2>5. ASSUME NEW i \in DOMAIN out, out[i].cwr
        PROVE  ~out[i].retrans /\ q < st.buf.una
    <3>1. CASE i = k
      <4>1. seg.cwr = cwr
        OBVIOUS
      <4> QED
        BY <1>5, <2>1, <2>3, <2>5, <3>1, <4>1
    <3>2. CASE i \in 1 .. k - 1
      BY <1>18, <2>1, <2>5, <3>2 DEF CwrOnce
    <3> QED
      BY <2>1, <3>1, <3>2
  <2> QED
    BY <1>3, <1>9, <2>2, <2>4, <2>5 DEF CwrOnce
<1>19. Frame(st, c)
  BY <1>3, <1>9, <1>10, <1>18 DEF Frame
<1> QED
  BY <1>3, <1>9, <1>17, <1>19 DEF c

\* A change of fields that do not describe what was sent.
LEMMA KeepGood ==
  ASSUME NEW st, NEW n, Good(st, n), NEW c \in Socket,
         c.buf = st.buf, c.out = st.out,
         c.recover <= st.buf.nxt, c.bytesACKedECE <= c.bytesACKedAll,
         st.out = <<>> \/ c.cong = st.cong \/ c.cong = "RECOVERY"
  PROVE  Good(c, n)
<1>1. Shape(c)
  BY DEF Good, Shape
<1>2. OldIsMissing(c)
  <2>1. CASE st.out = <<>>
    <3>1. DOMAIN c.out = {}
      BY <2>1
    <3> QED
      BY <3>1 DEF OldIsMissing
  <2>2. CASE c.cong = st.cong \/ c.cong = "RECOVERY"
    BY <2>2 DEF Good, OldIsMissing
  <2> QED
    BY <2>1, <2>2
<1> QED
  BY <1>1, <1>2 DEF Good

LEMMA FaultOK ==
  ASSUME NEW st, NEW n, Good(st, n)
  PROVE  /\ Good([st EXCEPT !.fault = TRUE], n)
         /\ [st EXCEPT !.fault = TRUE].retx = st.retx
         /\ [st EXCEPT !.fault = TRUE].fault = TRUE
         /\ Frame(st, [st EXCEPT !.fault = TRUE])
         /\ [st EXCEPT !.fault = TRUE].buf = st.buf
<1> DEFINE c == [st EXCEPT !.fault = TRUE]
<1>1. st \in Socket /\ BufferOK(st.buf) /\ st.recover <= st.buf.nxt
      /\ st.bytesACKedECE <= st.bytesACKedAll
  BY DEF Good, Shape
<1>2. /\ c \in Socket
      /\ c.buf = st.buf /\ c.out = st.out /\ c.recover = st.recover /\ c.cong = st.cong
      /\ c.bytesACKedECE = st.bytesACKedECE /\ c.bytesACKedAll = st.bytesACKedAll
      /\ c.retx = st.retx /\ c.fault = TRUE
      /\ c.echoSeq = st.echoSeq /\ c.cwrSeq = st.cwrSeq
  BY <1>1 DEF Socket
<1> HIDE DEF c
<1>3. Good(c, n)
  BY <1>1, <1>2, KeepGood
<1>4. Frame(st, c)
  BY <1>1, <1>2, SegOfList DEF Frame, SeqNum, CwrOnce
<1> QED
  BY <1>2, <1>3, <1>4 DEF c

LEMMA ShapeFacts ==
  ASSUME NEW st, NEW n, Good(st, n)
  PROVE  /\ st \in Socket /\ BufferOK(st.buf)
         /\ st.buf.una \in Int /\ st.buf.nxt \in Int /\ st.buf.tail \in Int
         /\ st.buf.una <= st.buf.nxt /\ st.buf.nxt <= st.buf.tail
         /\ st.buf.una \in SeqNum /\ st.buf.nxt \in SeqNum
         /\ st.buf.una \notin st.buf.sacked
         /\ st.recover \in Int /\ st.recover <= st.buf.nxt
         /\ st.bytesACKedAll \in Nat /\ st.bytesACKedECE \in Nat
         /\ st.bytesACKedECE <= st.bytesACKedAll
         /\ st.buf.nxt - st.buf.una <= RWnd
BY SegOfList DEF Good, Shape, BufferOK, Placed, Socket, SeqNum, None

LEMMA DoRetransmitOK ==
  ASSUME NEW st, NEW n, Good(st, n), st.cong = "RECOVERY", st.buf.una < st.buf.nxt
  PROVE  /\ Good(DoRetransmit(st), n)
         /\ Frame(st, DoRetransmit(st))
         /\ Timed(st) => Timed(DoRetransmit(st))
<1> DEFINE next == NextSeg(st.buf, FALSE)
<1>1. BufferOK(st.buf) /\ st.buf.una \in Sent(st.buf) \ st.buf.sacked
      /\ st.buf.nxt - st.buf.una <= RWnd /\ st.buf.una \in Int /\ st.buf.nxt \in Int
  BY ShapeFacts DEF Sent
<1>2. \/ next = None
      \/ next \in Sent(st.buf) \ st.buf.sacked
      \/ next = st.buf.nxt /\ Unsent(st.buf)
  BY <1>1, NextSegOK
<1> HIDE DEF next
<1>3. CASE next = None
  <2>1. DoRetransmit(st) = SendDataPacket(st, st.buf.una)
    BY <1>3 DEF DoRetransmit, next
  <2>2. MaySend(st, st.buf.una)
    BY <1>1 DEF MaySend
  <2> QED
    BY <2>1, <2>2, SendDataPacketOK DEF Timed
<1>4. CASE next # None /\ SegLen(st.buf, next) = 0
  <2>1. DoRetransmit(st) = [st EXCEPT !.fault = TRUE]
    BY <1>4 DEF DoRetransmit, next
  <2> QED
    BY <2>1, FaultOK DEF Timed
<1>5. CASE next # None /\ SegLen(st.buf, next) # 0
  <2>1. DoRetransmit(st) = SendDataPacket(st, next)
    BY <1>5 DEF DoRetransmit, next
  <2>2. next = st.buf.nxt => st.buf.nxt - st.buf.una < RWnd
    BY <1>1, <1>5, RWndAssumption DEF SegLen
  <2>3. MaySend(st, next)
    BY <1>2, <1>5, <2>2 DEF MaySend
  <2> QED
    BY <2>1, <2>3, SendDataPacketOK DEF Timed
<1> QED
  BY <1>3, <1>4, <1>5

LEMMA SendNextOK ==
  ASSUME NEW st, NEW n, Good(st, n)
  PROVE  /\ Good(SendNext(st), n)
         /\ Frame(st, SendNext(st))
         /\ Timed(st) => Timed(SendNext(st))
<1> DEFINE next == NextSeg(st.buf, st.cong = "RECOVERY")
           c == SendDataPacket(st, next)
           d == [c EXCEPT !.nextTx = next + 1]
<1>1. BufferOK(st.buf)
      /\ st.buf.nxt - st.buf.una <= RWnd /\ st.buf.una \in Int /\ st.buf.nxt \in Int
  BY ShapeFacts
<1>2. \/ next = None
      \/ /\ next \in Sent(st.buf) \ st.buf.sacked
         /\ st.cong = "RECOVERY" \/ next \in st.buf.lost
      \/ next = st.buf.nxt /\ Unsent(st.buf)
  BY <1>1, NextSegOK
<1> HIDE DEF next
<1>3. CASE \/ st.fault \/ Size(st.buf) = 0 \/ BytesInFlight(st.buf) >= RWnd
           \/ next = None
  <2>1. SendNext(st) = st
    BY <1>3 DEF SendNext, next
  <2> QED
    BY <1>1, <2>1 DEF Frame
<1>4. CASE ~(\/ st.fault \/ Size(st.buf) = 0 \/ BytesInFlight(st.buf) >= RWnd
             \/ next = None)
  <2>1. CASE SegLen(st.buf, next) = 0
    <3>1. SendNext(st) = [st EXCEPT !.fault = TRUE]
      BY <1>4, <2>1 DEF SendNext, next
    <3> QED
      BY <3>1, FaultOK DEF Timed
  <2>2. CASE SegLen(st.buf, next) # 0
    <3>1. SendNext(st) = d
      BY <1>4, <2>2 DEF SendNext, next
    <3>2. next = st.buf.nxt => st.buf.nxt - st.buf.una < RWnd
      BY <1>1, <2>2, RWndAssumption DEF SegLen
    <3>3. MaySend(st, next)
      BY <1>2, <1>4, <3>2 DEF MaySend
    <3> HIDE DEF c
    <3>4. Good(c, n) /\ c.retx = TRUE /\ Frame(st, c) /\ next \in Seg
      BY <3>3, SendDataPacketOK DEF c
    <3>5. c \in Socket /\ next + 1 \in SeqNum
      BY <3>4, ShapeFacts, SeqAssumption DEF Seg, SeqNum
    <3>6. /\ d \in Socket
          /\ d.buf = c.buf /\ d.out = c.out /\ d.recover = c.recover /\ d.cong = c.cong
          /\ d.bytesACKedECE = c.bytesACKedECE /\ d.bytesACKedAll = c.bytesACKedAll
          /\ d.retx = c.retx /\ d.echoSeq = c.echoSeq /\ d.cwrSeq = c.cwrSeq
      BY <3>5 DEF Socket
    <3> HIDE DEF d
    <3>7. c.recover <= c.buf.nxt /\ c.bytesACKedECE <= c.bytesACKedAll
      BY <3>4, ShapeFacts
    <3>8. Good(d, n)
      BY <3>4, <3>6, <3>7, KeepGood
    <3> QED
      BY <3>1, <3>4, <3>6, <3>8 DEF Frame, Timed, CwrOnce
  <2> QED
    BY <2>1, <2>2
<1> QED
  BY <1>3, <1>4

LEMMA SendPendingDataOK ==
  ASSUME NEW st, NEW n, Good(st, n), NEW c \in SendPendingData(st)
  PROVE  /\ Good(c, n)
         /\ Timed(st) => Timed(c)
         /\ c.buf.una = st.buf.una
<1>1. /\ Good(SendNext(st), n)
      /\ Timed(st) => Timed(SendNext(st))
      /\ SendNext(st).buf.una = st.buf.una
  BY SendNextOK DEF Frame
<1>2. /\ Good(SendNext(SendNext(st)), n)
      /\ Timed(SendNext(st)) => Timed(SendNext(SendNext(st)))
      /\ SendNext(SendNext(st)).buf.una = SendNext(st).buf.una
  BY <1>1, SendNextOK DEF Frame
<1> QED
  BY <1>1, <1>2 DEF SendPendingData

-----------------------------------------------------------------------------
(* Before anything is sent *)

LEMMA SilentGood ==
  ASSUME NEW c \in Socket, c.out = <<>>, BufferOK(c.buf),
         c.buf.nxt - c.buf.una <= RWnd,
         c.recover <= c.buf.nxt, c.bytesACKedECE <= c.bytesACKedAll
  PROVE  Good(c, c.buf.nxt)
<1>1. DOMAIN c.out = {}
  OBVIOUS
<1>2. c.buf.nxt \in SeqNum /\ c.buf.nxt \in Int
  BY SegOfList DEF SeqNum
<1>3. c.buf.nxt .. c.buf.nxt - 1 = {} /\ c.buf.nxt <= c.buf.nxt
  BY <1>2
<1> QED
  BY <1>1, <1>2, <1>3 DEF Good, Shape, NewInOrder, OldIsMissing

LEMMA SilentIsAtNxt ==
  ASSUME NEW st, NEW n, Good(st, n), st.out = <<>>
  PROVE  n = st.buf.nxt
<1>1. DOMAIN st.out = {}
  OBVIOUS
<1>2. n \in Int /\ st.buf.nxt \in Int /\ n <= st.buf.nxt
  BY ShapeFacts DEF Good, SeqNum
<1>3. n .. st.buf.nxt - 1 = {}
  BY <1>1 DEF Good, NewInOrder
<1>4. n < st.buf.nxt => n \in n .. st.buf.nxt - 1
  BY <1>2
<1> QED
  BY <1>2, <1>3, <1>4

\* What the bookkeeping of an ACK leaves alone.
Same(st, c) ==
  /\ c.buf = st.buf /\ c.out = st.out
  /\ c.cong = st.cong /\ c.recover = st.recover
  /\ c.firstPartial = st.firstPartial /\ c.recoverActive = st.recoverActive
  /\ c.echoSeq = st.echoSeq /\ c.cwrSeq = st.cwrSeq /\ c.cwrPoint = st.cwrPoint

LEMMA PktsAckedOK ==
  ASSUME NEW st, NEW n, Good(st, n), NEW a \in SeqNum, NEW segs \in Nat
  PROVE  /\ Good(PktsAcked(st, a, segs), n)
         /\ Same(st, PktsAcked(st, a, segs))
         /\ PktsAcked(st, a, segs).retx = st.retx
<1> DEFINE all == st.bytesACKedAll + segs
           ece == st.bytesACKedECE + (IF st.ecn = "ECE_RCVD" THEN segs ELSE 0)
           end == IF st.seqNextSend = None THEN st.nextTx ELSE st.seqNextSend
           c == PktsAcked(st, a, segs)
<1>1. /\ st \in Socket /\ st.recover <= st.buf.nxt
      /\ st.bytesACKedAll \in Nat /\ st.bytesACKedECE \in Nat
      /\ st.bytesACKedECE <= st.bytesACKedAll
  BY ShapeFacts
<1>2. all \in Nat /\ ece \in Nat /\ ece <= all
  BY <1>1
<1>3. end \in {None} \cup SeqNum /\ st.nextTx \in {None} \cup SeqNum
  BY <1>1 DEF Socket
<1>4. CASE a < end
  <2>1. c = [st EXCEPT !.bytesACKedAll = all, !.bytesACKedECE = ece, !.seqNextSend = end]
    BY <1>4 DEF PktsAcked
  <2> HIDE DEF c, all, ece, end
  <2>2. /\ c \in Socket /\ Same(st, c) /\ c.retx = st.retx
        /\ c.bytesACKedAll = all /\ c.bytesACKedECE = ece
    BY <1>1, <1>2, <1>3, <2>1 DEF Socket, Same
  <2>3. Good(c, n)
    BY <1>1, <1>2, <2>2, KeepGood DEF Same
  <2> QED
    BY <2>2, <2>3 DEF c
<1>5. CASE ~(a < end)
  <2>1. c = [st EXCEPT !.bytesACKedAll = 0, !.bytesACKedECE = 0, !.seqNextSend = st.nextTx]
    BY <1>5 DEF PktsAcked
  <2> HIDE DEF c, all, ece, end
  <2>2. /\ c \in Socket /\ Same(st, c) /\ c.retx = st.retx
        /\ c.bytesACKedAll = 0 /\ c.bytesACKedECE = 0
    BY <1>1, <1>3, <2>1 DEF Socket, Same
  <2>3. Good(c, n)
    BY <1>1, <2>2, KeepGood DEF Same
  <2> QED
    BY <2>2, <2>3 DEF c
<1> QED
  BY <1>4, <1>5

LEMMA NewAckOK ==
  ASSUME NEW st, NEW n, Good(st, n), NEW a \in SeqNum, NEW resetRTO \in BOOLEAN
  PROVE  /\ Good(NewAck(st, a, resetRTO), n)
         /\ Same(st, NewAck(st, a, resetRTO))
         /\ Timed(st) => Timed(NewAck(st, a, resetRTO))
<1> DEFINE retx == Size(st.buf) # 0 /\ (resetRTO \/ st.retx)
           nextTx == IF st.nextTx < a THEN a ELSE st.nextTx
           c == NewAck(st, a, resetRTO)
<1>1. /\ st \in Socket /\ st.recover <= st.buf.nxt
      /\ st.bytesACKedECE <= st.bytesACKedAll
      /\ st.buf.una \in Int /\ st.buf.nxt \in Int /\ st.buf.tail \in Int
      /\ st.buf.nxt <= st.buf.tail
  BY ShapeFacts
<1>2. retx \in BOOLEAN
  OBVIOUS
<1>3. nextTx \in SeqNum /\ DataRetries \in 0 .. DataRetries
  BY <1>1, RetriesAssumption DEF Socket
<1>4. c = [st EXCEPT !.retries = DataRetries, !.retx = retx, !.nextTx = nextTx]
  BY DEF NewAck
<1>5. Timed(st) /\ st.buf.una < st.buf.nxt => retx
  BY <1>1 DEF Timed, Size
<1> HIDE DEF c, retx, nextTx
<1>6. /\ c \in Socket /\ Same(st, c) /\ c.retx = retx
      /\ c.bytesACKedAll = st.bytesACKedAll /\ c.bytesACKedECE = st.bytesACKedECE
  BY <1>1, <1>2, <1>3, <1>4 DEF Socket, Same
<1>7. Good(c, n)
  BY <1>1, <1>6, KeepGood DEF Same
<1>8. Timed(st) => Timed(c)
  BY <1>5, <1>6 DEF Timed, Same
<1> QED
  BY <1>6, <1>7, <1>8 DEF c

-----------------------------------------------------------------------------
(* Congestion state *)

\* Silent so far, or a fast recovery whose end lies ahead has been entered.
Quiet(st, a) == st.out = <<>> \/ (st.cong = "RECOVERY" /\ a < st.recover)

LEMMA EnterRecoveryOK ==
  ASSUME NEW st, NEW n, Good(st, n), st.out = <<>>, st.buf.una < st.buf.nxt
  PROVE  /\ Good(EnterRecovery(st), n)
         /\ Timed(st) => Timed(EnterRecovery(st))
         /\ EnterRecovery(st).buf.una = st.buf.una
         /\ Quiet(EnterRecovery(st), st.buf.una)
<1> DEFINE b == IF IsLost(st.buf, st.buf.una) THEN st.buf ELSE MarkHeadAsLost(st.buf)
           r == [st EXCEPT !.buf = b, !.recover = st.buf.nxt,
                           !.recoverActive = TRUE, !.cong = "RECOVERY"]
<1>1. /\ st \in Socket /\ BufferOK(st.buf) /\ st.bytesACKedECE <= st.bytesACKedAll
      /\ st.buf.nxt - st.buf.una <= RWnd
      /\ st.buf.una \in Int /\ st.buf.nxt \in SeqNum
      /\ n = st.buf.nxt
  BY ShapeFacts, SilentIsAtNxt
<1>2. BufferOK(b) /\ b.una = st.buf.una /\ b.nxt = st.buf.nxt
  BY <1>1, MarkHeadAsLostOK
<1>3. b \in Buffer
  BY <1>2 DEF BufferOK
<1>4. EnterRecovery(st) = DoRetransmit(r)
  BY DEF EnterRecovery
<1> HIDE DEF b
<1>5. "RECOVERY" \in CongStates /\ st.buf.nxt \in {None} \cup SeqNum
  BY <1>1 DEF CongStates
<1>6. /\ r \in Socket
      /\ r.buf = b /\ r.recover = st.buf.nxt /\ r.cong = "RECOVERY"
      /\ r.out = st.out /\ r.retx = st.retx
      /\ r.bytesACKedAll = st.bytesACKedAll /\ r.bytesACKedECE = st.bytesACKedECE
  BY <1>1, <1>3, <1>5 DEF Socket
<1> HIDE DEF r
<1>7. st.buf.nxt <= st.buf.nxt
  BY ShapeFacts
<1>8. Good(r, n)
  BY <1>1, <1>2, <1>6, <1>7, SilentGood
<1>9. /\ Good(DoRetransmit(r), n)
      /\ Frame(r, DoRetransmit(r))
      /\ Timed(r) => Timed(DoRetransmit(r))
  BY <1>2, <1>6, <1>8, DoRetransmitOK
<1> QED
  BY <1>2, <1>4, <1>6, <1>9 DEF Frame, Timed, Quiet

LEMMA DupAckOK ==
  ASSUME NEW st, NEW n, Good(st, n), st.out = <<>>, st.buf.una < st.buf.nxt
  PROVE  /\ Good(DupAck(st, st.buf.una), n)
         /\ Timed(st) => Timed(DupAck(st, st.buf.una))
         /\ DupAck(st, st.buf.una).buf.una = st.buf.una
         /\ Quiet(DupAck(st, st.buf.una), st.buf.una)
<1> DEFINE a == st.buf.una
           counted == IF st.cong = "RECOVERY" THEN st
                      ELSE [st EXCEPT !.dupAckCount = @ + 1]
           now == IF st.cong = "OPEN" THEN [counted EXCEPT !.cong = "DISORDER"] ELSE counted
<1>1. /\ st \in Socket /\ st.recover <= st.buf.nxt
      /\ st.bytesACKedECE <= st.bytesACKedAll
  BY ShapeFacts
<1>2. /\ counted \in Socket
      /\ counted.buf = st.buf /\ counted.out = st.out
      /\ counted.recover = st.recover /\ counted.retx = st.retx
      /\ counted.bytesACKedAll = st.bytesACKedAll
      /\ counted.bytesACKedECE = st.bytesACKedECE
  BY <1>1 DEF Socket
<1> HIDE DEF counted
<1>3. /\ now \in Socket
      /\ now.buf = st.buf /\ now.out = st.out
      /\ now.recover = st.recover /\ now.retx = st.retx
      /\ now.bytesACKedAll = st.bytesACKedAll
      /\ now.bytesACKedECE = st.bytesACKedECE
  BY <1>2 DEF Socket, CongStates
<1>4. \/ DupAck(st, a) = st
      \/ DupAck(st, a) = EnterRecovery(now)
      \/ DupAck(st, a) = now
  BY DEF DupAck, counted
<1> HIDE DEF now
<1>5. Good(now, n)
  BY <1>1, <1>3, KeepGood
<1>6. /\ Good(EnterRecovery(now), n)
      /\ Timed(now) => Timed(EnterRecovery(now))
      /\ EnterRecovery(now).buf.una = now.buf.una
      /\ Quiet(EnterRecovery(now), now.buf.una)
  BY <1>3, <1>5, EnterRecoveryOK
<1> QED
  BY <1>3, <1>4, <1>5, <1>6 DEF Timed, Quiet

LEMMA LeaveCwrOK ==
  ASSUME NEW st, NEW n, Good(st, n), st.out = <<>>, NEW a
  PROVE  /\ Good(LeaveCwr(st, a), n)
         /\ LeaveCwr(st, a).buf = st.buf /\ LeaveCwr(st, a).out = <<>>
         /\ LeaveCwr(st, a).retx = st.retx
<1> DEFINE c == [st EXCEPT !.cong = "OPEN"]
<1>1. /\ st \in Socket /\ st.recover <= st.buf.nxt
      /\ st.bytesACKedECE <= st.bytesACKedAll
  BY ShapeFacts
<1>2. /\ c \in Socket /\ c.buf = st.buf /\ c.out = st.out
      /\ c.recover = st.recover /\ c.retx = st.retx
      /\ c.bytesACKedAll = st.bytesACKedAll /\ c.bytesACKedECE = st.bytesACKedECE
  BY <1>1 DEF Socket, CongStates
<1>3. LeaveCwr(st, a) = c \/ LeaveCwr(st, a) = st
  BY DEF LeaveCwr
<1> HIDE DEF c
<1>4. Good(c, n)
  BY <1>1, <1>2, KeepGood
<1> QED
  BY <1>2, <1>3, <1>4

LEMMA EcnEchoOK ==
  ASSUME NEW st, NEW n, Good(st, n), st.out = <<>>, NEW a \in SeqNum, NEW isNew, NEW ece
  PROVE  /\ Good(EcnEcho(st, a, isNew, ece), n)
         /\ EcnEcho(st, a, isNew, ece).buf = st.buf
         /\ EcnEcho(st, a, isNew, ece).out = <<>>
         /\ EcnEcho(st, a, isNew, ece).retx = st.retx
<1> DEFINE echo == [st EXCEPT !.echoSeq = a, !.ecn = "ECE_RCVD"]
           cwr == EnterCwr(echo)
           idle == [st EXCEPT !.ecn = "IDLE"]
<1>1. /\ st \in Socket /\ st.recover <= st.buf.nxt /\ st.buf.nxt <= st.buf.nxt
      /\ st.bytesACKedECE <= st.bytesACKedAll /\ st.buf.nxt \in SeqNum
  BY ShapeFacts
<1>2. /\ echo \in Socket /\ echo.buf = st.buf /\ echo.out = st.out
      /\ echo.recover = st.recover /\ echo.retx = st.retx
      /\ echo.bytesACKedAll = st.bytesACKedAll /\ echo.bytesACKedECE = st.bytesACKedECE
  BY <1>1 DEF Socket, EcnStates
<1>3. /\ idle \in Socket /\ idle.buf = st.buf /\ idle.out = st.out
      /\ idle.recover = st.recover /\ idle.retx = st.retx
      /\ idle.bytesACKedAll = st.bytesACKedAll /\ idle.bytesACKedECE = st.bytesACKedECE
  BY <1>1 DEF Socket, EcnStates
<1>4. \/ EcnEcho(st, a, isNew, ece) = st
      \/ EcnEcho(st, a, isNew, ece) = echo
      \/ EcnEcho(st, a, isNew, ece) = cwr
      \/ EcnEcho(st, a, isNew, ece) = idle
  BY DEF EcnEcho
<1> HIDE DEF echo, idle
<1>5. cwr = [echo EXCEPT !.cong = "CWR", !.recover = echo.buf.nxt, !.cwrPoint = echo.buf.nxt]
  BY DEF EnterCwr
<1> HIDE DEF cwr
<1>6. /\ cwr \in Socket /\ cwr.buf = st.buf /\ cwr.out = st.out
      /\ cwr.recover = st.buf.nxt /\ cwr.retx = st.retx
      /\ cwr.bytesACKedAll = st.bytesACKedAll /\ cwr.bytesACKedECE = st.bytesACKedECE
  BY <1>1, <1>2, <1>5 DEF Socket, CongStates
<1>7. Good(echo, n) /\ Good(idle, n) /\ Good(cwr, n)
  BY <1>1, <1>2, <1>3, <1>6, KeepGood
<1> QED
  BY <1>2, <1>3, <1>4, <1>6, <1>7

-----------------------------------------------------------------------------
(* ProcessAck *)

\* What each branch of ProcessAck keeps.
Kept(st, c, n) ==
  Good(c, n) /\ (Timed(st) => Timed(c)) /\ c.buf.una = st.buf.una

LEMMA PartialAckOK ==
  ASSUME NEW st, NEW n, Good(st, n), st.cong = "RECOVERY", st.buf.una < st.buf.nxt,
         NEW a \in SeqNum
  PROVE  Kept(st, PartialAck(st, a), n)
<1> DEFINE resent == IF IsRetransmittedDataAcked(st.buf, a) THEN st ELSE DoRetransmit(st)
           counted == PktsAcked(resent, a, 1)
           acked == NewAck(counted, a, st.firstPartial)
           c == [acked EXCEPT !.firstPartial = FALSE]
<1>1. PartialAck(st, a) = c
  BY DEF PartialAck
<1>2. st.firstPartial \in BOOLEAN
  BY ShapeFacts DEF Socket
<1> HIDE DEF c
<1>3. Good(resent, n) /\ (Timed(st) => Timed(resent)) /\ resent.buf.una = st.buf.una
  BY DoRetransmitOK DEF Frame
<1> HIDE DEF resent
<1>4. /\ Good(counted, n) /\ counted.buf = resent.buf /\ counted.retx = resent.retx
  BY <1>3, PktsAckedOK DEF Same
<1> HIDE DEF counted
<1>5. /\ Good(acked, n) /\ acked.buf = counted.buf
      /\ Timed(counted) => Timed(acked)
  BY <1>2, <1>4, NewAckOK DEF Same
<1> HIDE DEF acked
<1>6. /\ acked \in Socket /\ acked.recover <= acked.buf.nxt
      /\ acked.bytesACKedECE <= acked.bytesACKedAll
  BY <1>5, ShapeFacts
<1>7. /\ c \in Socket /\ c.buf = acked.buf /\ c.out = acked.out
      /\ c.recover = acked.recover /\ c.cong = acked.cong /\ c.retx = acked.retx
      /\ c.bytesACKedAll = acked.bytesACKedAll /\ c.bytesACKedECE = acked.bytesACKedECE
  BY <1>6 DEF Socket, c
<1>8. Good(c, n)
  BY <1>5, <1>6, <1>7, KeepGood
<1> QED
  BY <1>1, <1>3, <1>4, <1>5, <1>7, <1>8 DEF Kept, Timed

LEMMA LeaveRecoveryOK ==
  ASSUME NEW st, NEW n, Good(st, n), st.out = <<>>, NEW a \in SeqNum, NEW segs \in Nat
  PROVE  Kept(st, LeaveRecovery(st, a, segs), n) /\ LeaveRecovery(st, a, segs).out = <<>>
<1> DEFINE p == PktsAcked(st, a, segs)
           c == [p EXCEPT !.cong = "OPEN", !.dupAckCount = 0, !.firstPartial = TRUE]
<1>1. LeaveRecovery(st, a, segs) = c
  BY DEF LeaveRecovery
<1>2. Good(p, n) /\ p.buf = st.buf /\ p.out = <<>> /\ p.retx = st.retx
  BY PktsAckedOK DEF Same
<1> HIDE DEF p
<1>3. /\ p \in Socket /\ p.recover <= p.buf.nxt /\ p.bytesACKedECE <= p.bytesACKedAll
  BY <1>2, ShapeFacts
<1>4. /\ c \in Socket /\ c.buf = p.buf /\ c.out = p.out
      /\ c.recover = p.recover /\ c.retx = p.retx
      /\ c.bytesACKedAll = p.bytesACKedAll /\ c.bytesACKedECE = p.bytesACKedECE
  BY <1>3 DEF Socket, CongStates
<1> HIDE DEF c
<1>5. Good(c, n)
  BY <1>2, <1>3, <1>4, KeepGood
<1> QED
  BY <1>1, <1>2, <1>4, <1>5 DEF Kept, Timed

LEMMA LeaveLossOK ==
  ASSUME NEW st, NEW n, Good(st, n), st.out = <<>>, NEW a \in SeqNum, st.recover <= a
  PROVE  Kept(st, LeaveLoss(st, a), n) /\ LeaveLoss(st, a).out = <<>>
<1> DEFINE p == PktsAcked(st, a, a - st.recover)
           c == [p EXCEPT !.cong = "OPEN", !.firstPartial = TRUE]
<1>1. LeaveLoss(st, a) = c
  BY DEF LeaveLoss
<1>2. a - st.recover \in Nat
  BY ShapeFacts DEF SeqNum
<1>3. Good(p, n) /\ p.buf = st.buf /\ p.out = <<>> /\ p.retx = st.retx
  BY <1>2, PktsAckedOK DEF Same
<1> HIDE DEF p
<1>4. /\ p \in Socket /\ p.recover <= p.buf.nxt /\ p.bytesACKedECE <= p.bytesACKedAll
  BY <1>3, ShapeFacts
<1>5. /\ c \in Socket /\ c.buf = p.buf /\ c.out = p.out
      /\ c.recover = p.recover /\ c.retx = p.retx
      /\ c.bytesACKedAll = p.bytesACKedAll /\ c.bytesACKedECE = p.bytesACKedECE
  BY <1>4 DEF Socket, CongStates
<1> HIDE DEF c
<1>6. Good(c, n)
  BY <1>3, <1>4, <1>5, KeepGood
<1> QED
  BY <1>1, <1>3, <1>5, <1>6 DEF Kept, Timed

LEMMA AckInDisorderOK ==
  ASSUME NEW st, NEW n, Good(st, n), st.out = <<>>, NEW a \in SeqNum, NEW segs \in Nat,
         NEW old \in Nat, NEW isDup \in BOOLEAN
  PROVE  /\ Kept(st, AckInDisorder(st, a, segs, old, isDup), n)
         /\ AckInDisorder(st, a, segs, old, isDup).out = <<>>
<1> DEFINE p == IF segs >= old THEN PktsAcked(st, a, segs - old) ELSE st
           c == [p EXCEPT !.cong = "OPEN"]
<1>1. AckInDisorder(st, a, segs, old, isDup) \in {p, c}
  BY DEF AckInDisorder
<1>2. Good(p, n) /\ p.buf = st.buf /\ p.out = <<>> /\ p.retx = st.retx
  <2>1. CASE segs >= old
    <3>1. segs - old \in Nat
      BY <2>1
    <3> QED
      BY <2>1, <3>1, PktsAckedOK DEF Same
  <2>2. CASE ~(segs >= old)
    BY <2>2
  <2> QED
    BY <2>1, <2>2
<1> HIDE DEF p
<1>3. /\ p \in Socket /\ p.recover <= p.buf.nxt /\ p.bytesACKedECE <= p.bytesACKedAll
  BY <1>2, ShapeFacts
<1>4. /\ c \in Socket /\ c.buf = p.buf /\ c.out = p.out
      /\ c.recover = p.recover /\ c.retx = p.retx
      /\ c.bytesACKedAll = p.bytesACKedAll /\ c.bytesACKedECE = p.bytesACKedECE
  BY <1>3 DEF Socket, CongStates
<1> HIDE DEF c
<1>5. Good(c, n)
  BY <1>2, <1>3, <1>4, KeepGood
<1> QED
  BY <1>1, <1>2, <1>4, <1>5 DEF Kept, Timed

LEMMA CompleteAckOK ==
  ASSUME NEW st, NEW n, Good(st, n), st.out = <<>>, NEW a \in SeqNum, NEW segs \in Nat,
         NEW old \in Nat, NEW isDup \in BOOLEAN,
         st.cong # "CWR", st.cong = "LOSS" => st.recover <= a
  PROVE  Kept(st, CompleteAck(st, a, segs, old, isDup), n)
<1> DEFINE done ==
             CASE st.cong = "OPEN" -> PktsAcked(st, a, segs)
               [] st.cong = "DISORDER" -> AckInDisorder(st, a, segs, old, isDup)
               [] st.cong = "RECOVERY" -> LeaveRecovery(st, a, segs)
               [] st.cong = "LOSS" -> LeaveLoss(st, a)
           active == done.recoverActive /\ a < done.recover
           point == [done EXCEPT !.recoverActive = active]
<1>1. CompleteAck(st, a, segs, old, isDup)
        = IF point.cong = "OPEN" THEN NewAck(point, a, TRUE) ELSE point
  BY DEF CompleteAck
<1>2. Kept(st, done, n) /\ done.out = <<>>
  <2>1. CASE st.cong = "OPEN"
    <3> DEFINE p == PktsAcked(st, a, segs)
    <3>1. done = p
      BY <2>1
    <3>2. Good(p, n) /\ p.buf = st.buf /\ p.out = <<>> /\ p.retx = st.retx
      BY PktsAckedOK DEF Same
    <3> HIDE DEF p, done
    <3> QED
      BY <3>1, <3>2 DEF Kept, Timed
  <2>2. CASE st.cong = "DISORDER"
    <3> DEFINE p == AckInDisorder(st, a, segs, old, isDup)
    <3>1. done = p
      BY <2>2
    <3>2. Kept(st, p, n) /\ p.out = <<>>
      BY AckInDisorderOK
    <3> HIDE DEF p, done
    <3> QED
      BY <3>1, <3>2
  <2>3. CASE st.cong = "RECOVERY"
    <3> DEFINE p == LeaveRecovery(st, a, segs)
    <3>1. done = p
      BY <2>3
    <3>2. Kept(st, p, n) /\ p.out = <<>>
      BY LeaveRecoveryOK
    <3> HIDE DEF p, done
    <3> QED
      BY <3>1, <3>2
  <2>4. CASE st.cong = "LOSS"
    <3> DEFINE p == LeaveLoss(st, a)
    <3>1. done = p
      BY <2>4
    <3>2. Kept(st, p, n) /\ p.out = <<>>
      BY <2>4, LeaveLossOK
    <3> HIDE DEF p, done
    <3> QED
      BY <3>1, <3>2
  <2>5. st.cong \in CongStates
    BY ShapeFacts DEF Socket
  <2> QED
    BY <2>1, <2>2, <2>3, <2>4, <2>5 DEF CongStates
<1> HIDE DEF done
<1>3. /\ done \in Socket /\ done.recover <= done.buf.nxt
      /\ done.bytesACKedECE <= done.bytesACKedAll
  BY <1>2, ShapeFacts DEF Kept
<1>4. active \in BOOLEAN
  BY <1>3 DEF Socket
<1> HIDE DEF active
<1>5. /\ point \in Socket /\ point.buf = done.buf /\ point.out = done.out
      /\ point.recover = done.recover /\ point.retx = done.retx /\ point.cong = done.cong
      /\ point.bytesACKedAll = done.bytesACKedAll
      /\ point.bytesACKedECE = done.bytesACKedECE
  BY <1>3, <1>4 DEF Socket
<1> HIDE DEF point
<1>6. Good(point, n)
  BY <1>2, <1>3, <1>5, KeepGood DEF Kept
<1>7. /\ Good(NewAck(point, a, TRUE), n) /\ NewAck(point, a, TRUE).buf = point.buf
      /\ Timed(point) => Timed(NewAck(point, a, TRUE))
  BY <1>6, NewAckOK DEF Same
<1> QED
  BY <1>1, <1>2, <1>5, <1>6, <1>7 DEF Kept, Timed

LEMMA AdvanceAckOK ==
  ASSUME NEW st, NEW n, Good(st, n), NEW a \in SeqNum, a = st.buf.una, Quiet(st, a),
         NEW segs \in Nat, NEW old \in Nat, NEW isDup \in BOOLEAN
  PROVE  Kept(st, AdvanceAck(st, a, segs, old, isDup), n)
<1>1. /\ st.buf.una \in Int /\ st.buf.nxt \in Int
      /\ st.recover \in Int /\ st.recover <= st.buf.nxt
  BY ShapeFacts
<1>2. CASE st.cong = "RECOVERY" /\ a < st.recover
  <2>1. AdvanceAck(st, a, segs, old, isDup) = PartialAck(st, a)
    BY <1>2 DEF AdvanceAck
  <2>2. st.buf.una < st.buf.nxt
    BY <1>1, <1>2
  <2> QED
    BY <1>2, <2>1, <2>2, PartialAckOK
<1>3. CASE /\ ~(st.cong = "RECOVERY" /\ a < st.recover)
           /\ st.cong = "CWR" \/ (st.cong = "LOSS" /\ a < st.recover)
  <2> DEFINE p == PktsAcked(st, a, segs)
  <2>1. AdvanceAck(st, a, segs, old, isDup) = NewAck(p, a, TRUE)
    BY <1>3 DEF AdvanceAck
  <2>2. Good(p, n) /\ p.buf = st.buf /\ p.retx = st.retx
    BY PktsAckedOK DEF Same
  <2> HIDE DEF p
  <2>3. /\ Good(NewAck(p, a, TRUE), n) /\ NewAck(p, a, TRUE).buf = p.buf
        /\ Timed(p) => Timed(NewAck(p, a, TRUE))
    BY <2>2, NewAckOK DEF Same
  <2> QED
    BY <2>1, <2>2, <2>3 DEF Kept, Timed
<1>4. CASE /\ ~(st.cong = "RECOVERY" /\ a < st.recover)
           /\ ~(st.cong = "CWR" \/ (st.cong = "LOSS" /\ a < st.recover))
  <2>1. AdvanceAck(st, a, segs, old, isDup) = CompleteAck(st, a, segs, old, isDup)
    BY <1>4 DEF AdvanceAck
  <2>2. st.out = <<>> /\ st.cong # "CWR" /\ (st.cong = "LOSS" => st.recover <= a)
    BY <1>1, <1>4 DEF Quiet
  <2> QED
    BY <2>1, <2>2, CompleteAckOK
<1> QED
  BY <1>2, <1>3, <1>4

LEMMA ProcessAckOK ==
  ASSUME NEW st, NEW n, Good(st, n), st.out = <<>>,
         NEW a \in SeqNum, a = st.buf.una, NEW head \in SeqNum, head <= a,
         NEW isDup \in BOOLEAN, isDup => a < st.buf.nxt
  PROVE  Kept(st, ProcessAck(st, a, head, isDup), n)
<1> DEFINE dup == IF isDup THEN DupAck(st, a) ELSE st
           reset == [dup EXCEPT !.dupAckCount = 0]
           from == IF isDup THEN dup ELSE reset
<1>1. Kept(st, dup, n) /\ Quiet(dup, a)
  BY DupAckOK DEF Kept, Quiet
<1>2. ProcessAck(st, a, head, isDup)
        = IF a > head THEN AdvanceAck(from, a, a - head, st.dupAckCount, isDup)
          ELSE IF a = dup.buf.nxt THEN dup
          ELSE PktsAcked(dup, a, 1)
  BY DEF ProcessAck
<1> HIDE DEF dup
<1>3. /\ dup \in Socket /\ dup.recover <= dup.buf.nxt
      /\ dup.bytesACKedECE <= dup.bytesACKedAll
  BY <1>1, ShapeFacts DEF Kept
<1>4. /\ reset \in Socket /\ reset.buf = dup.buf /\ reset.out = dup.out
      /\ reset.recover = dup.recover /\ reset.retx = dup.retx /\ reset.cong = dup.cong
      /\ reset.bytesACKedAll = dup.bytesACKedAll
      /\ reset.bytesACKedECE = dup.bytesACKedECE
  BY <1>3 DEF Socket
<1> HIDE DEF reset
<1>5. Good(reset, n)
  BY <1>1, <1>3, <1>4, KeepGood DEF Kept
<1>6. Kept(st, from, n) /\ Quiet(from, a) /\ a = from.buf.una
  BY <1>1, <1>4, <1>5 DEF Kept, Quiet, Timed
<1> HIDE DEF from
<1>7. CASE a > head
  <2>1. a - head \in Nat
    BY <1>7 DEF SeqNum
  <2>2. st.dupAckCount \in Nat
    BY ShapeFacts DEF Socket
  <2>3. Kept(from, AdvanceAck(from, a, a - head, st.dupAckCount, isDup), n)
    BY <1>6, <2>1, <2>2, AdvanceAckOK DEF Kept
  <2> QED
    BY <1>2, <1>6, <1>7, <2>3 DEF Kept
<1>8. CASE ~(a > head)
  <2>1. /\ Good(PktsAcked(dup, a, 1), n) /\ PktsAcked(dup, a, 1).buf = dup.buf
        /\ PktsAcked(dup, a, 1).retx = dup.retx
    BY <1>1, PktsAckedOK DEF Kept, Same
  <2> QED
    BY <1>1, <1>2, <1>8, <2>1 DEF Kept, Timed
<1> QED
  BY <1>7, <1>8

LEMMA ReceivedAckOK ==
  ASSUME NEW st, NEW n, Good(st, n), st.out = <<>>,
         NEW a \in st.buf.una .. st.buf.nxt, a \notin st.buf.sacked,
         NEW blocks \in SUBSET (a + 1 .. st.buf.nxt - 1), NEW ece,
         NEW c \in ReceivedAck(st, a, blocks, ece)
  PROVE  Good(c, n) /\ (Timed(st) => Timed(c)) /\ c.buf.una = a
<1> DEFINE head == st.buf.una
           isDup == NewlySacked(st.buf, blocks) # {}
           b == DiscardUpTo(Update(st.buf, blocks), a)
           scored == [st EXCEPT !.buf = b]
           left == LeaveCwr(scored, a)
           echoed == EcnEcho(left, a, a > head, ece)
           processed == ProcessAck(echoed, a, head, isDup)
<1>1. /\ st \in Socket /\ BufferOK(st.buf)
      /\ st.buf.una \in Int /\ st.buf.nxt \in Int
      /\ st.buf.una \in SeqNum /\ st.buf.nxt \in SeqNum
      /\ st.buf.nxt - st.buf.una <= RWnd
      /\ st.recover <= st.buf.nxt /\ st.bytesACKedECE <= st.bytesACKedAll
      /\ n = st.buf.nxt
  BY ShapeFacts, SilentIsAtNxt
<1>2. /\ a \in Int /\ a \in SeqNum /\ head <= a /\ a <= st.buf.nxt
      /\ st.buf.una \notin blocks /\ a \notin blocks
      /\ st.buf.nxt - a <= RWnd
  <2>1. a \in Int /\ a \in SeqNum /\ head <= a /\ a <= st.buf.nxt
    BY <1>1, SeqAssumption DEF SeqNum
  <2>2. \A s \in blocks : s \in Int /\ a < s
    BY <2>1
  <2>3. st.buf.nxt - a <= RWnd
    BY <1>1, <2>1, RWndAssumption
  <2> QED
    BY <1>1, <2>1, <2>2, <2>3
<1>3. isDup \in BOOLEAN /\ (isDup => a < st.buf.nxt)
  <2>1. NewlySacked(st.buf, blocks) \subseteq blocks
    BY DEF NewlySacked
  <2>2. \A s \in blocks : a < st.buf.nxt
    BY <1>1, <1>2
  <2> QED
    BY <2>1, <2>2
<1>4. c \in SendPendingData(processed)
  BY DEF ReceivedAck
<1>5. /\ BufferOK(Update(st.buf, blocks))
      /\ Update(st.buf, blocks).una = st.buf.una
      /\ Update(st.buf, blocks).nxt = st.buf.nxt
      /\ Update(st.buf, blocks).sacked \subseteq st.buf.sacked \cup blocks
  BY <1>1, <1>2, UpdateOK
<1>6. BufferOK(b) /\ b.una = a /\ b.nxt = st.buf.nxt
  BY <1>2, <1>5, DiscardUpToOK
<1>7. b \in Buffer
  BY <1>6 DEF BufferOK
<1> HIDE DEF b, isDup, processed
<1>8. /\ scored \in Socket /\ scored.buf = b /\ scored.out = <<>>
      /\ scored.recover = st.recover /\ scored.retx = st.retx
      /\ scored.bytesACKedAll = st.bytesACKedAll
      /\ scored.bytesACKedECE = st.bytesACKedECE
  BY <1>1, <1>7 DEF Socket
<1> HIDE DEF scored
<1>9. Good(scored, n)
  BY <1>1, <1>2, <1>6, <1>8, SilentGood
<1>10. Good(left, n) /\ left.buf = b /\ left.out = <<>> /\ left.retx = st.retx
  BY <1>8, <1>9, LeaveCwrOK
<1> HIDE DEF left
<1>11. Good(echoed, n) /\ echoed.buf = b /\ echoed.out = <<>> /\ echoed.retx = st.retx
  BY <1>2, <1>10, EcnEchoOK
<1>12. Timed(st) => Timed(echoed)
  BY <1>1, <1>2, <1>6, <1>11 DEF Timed
<1>13. processed = ProcessAck(echoed, a, head, isDup)
  BY DEF processed
<1> HIDE DEF echoed
<1>14. Kept(echoed, processed, n)
  BY <1>1, <1>2, <1>3, <1>6, <1>11, <1>13, ProcessAckOK
<1>15. Good(c, n) /\ (Timed(processed) => Timed(c)) /\ c.buf.una = processed.buf.una
  BY <1>4, <1>14, SendPendingDataOK DEF Kept
<1> QED
  BY <1>6, <1>11, <1>12, <1>14, <1>15 DEF Kept

-----------------------------------------------------------------------------
(* The retransmission timeout *)

LEMMA ExpireOK ==
  ASSUME NEW st, NEW n, Good(st, n), st.out = <<>>, st.retries # 0
  PROVE  /\ Good(Expire(st), n) /\ Expire(st).out = <<>>
         /\ Expire(st).buf = SetSentListLost(st.buf)
         /\ Expire(st).fault = st.fault /\ Expire(st).cong = "LOSS"
<1> DEFINE b == SetSentListLost(st.buf)
           retries == st.retries - 1
           c == Expire(st)
<1>1. /\ st \in Socket /\ BufferOK(st.buf)
      /\ st.buf.nxt - st.buf.una <= RWnd /\ st.buf.nxt \in SeqNum
      /\ st.bytesACKedECE <= st.bytesACKedAll
      /\ st.buf.nxt <= st.buf.nxt /\ n = st.buf.nxt
  BY ShapeFacts, SilentIsAtNxt
<1>2. BufferOK(b) /\ b.una = st.buf.una /\ b.nxt = st.buf.nxt
  BY <1>1, SetSentListLostOK
<1>3. b \in Buffer /\ retries \in 0 .. DataRetries
  BY <1>1, <1>2, RetriesAssumption DEF BufferOK, Socket
<1>4. c = [st EXCEPT !.retries = retries, !.dupAckCount = 0, !.buf = b,
                     !.recover = st.buf.nxt, !.recoverActive = TRUE, !.cong = "LOSS"]
  BY DEF Expire
<1> HIDE DEF c, b, retries
<1>5. /\ c \in Socket /\ c.buf = b /\ c.out = <<>> /\ c.recover = st.buf.nxt
      /\ c.fault = st.fault /\ c.cong = "LOSS"
      /\ c.bytesACKedAll = st.bytesACKedAll /\ c.bytesACKedECE = st.bytesACKedECE
  BY <1>1, <1>3, <1>4 DEF Socket, CongStates
<1>6. Good(c, n)
  BY <1>1, <1>2, <1>5, SilentGood
<1> QED
  BY <1>5, <1>6 DEF c, b

\* With everything outstanding marked lost, nothing is in flight and the head, or
\* what is first missing, can be sent: the timer is started again.
LEMMA ResendRestartsTimer ==
  ASSUME NEW st, NEW n, Good(st, n), st.out = <<>>, st.retries # 0, ~st.fault
  PROVE  Timed(SendNext(Expire(st)))
<1> DEFINE e == Expire(st)
           left == Sent(st.buf) \ st.buf.sacked
           next == NextSeg(e.buf, e.cong = "RECOVERY")
<1>1. /\ Good(e, n) /\ e.buf = SetSentListLost(st.buf)
      /\ e.fault = st.fault /\ e.cong = "LOSS"
  BY ExpireOK
<1>2. /\ BufferOK(st.buf) /\ st.buf.una \in Int /\ st.buf.nxt \in Int
      /\ st.buf.tail \in Int /\ st.buf.una <= st.buf.nxt /\ st.buf.nxt <= st.buf.tail
      /\ st.buf.una \notin st.buf.sacked
  BY ShapeFacts
<1>3. /\ e.buf.una = st.buf.una /\ e.buf.nxt = st.buf.nxt /\ e.buf.tail = st.buf.tail
      /\ e.buf.sacked = st.buf.sacked /\ e.buf.lost = left /\ e.buf.retrans = {}
      /\ e.buf.retransOut = 0 /\ e.buf.sackedOut = st.buf.sackedOut
      /\ e.buf.lostOut = Cardinality(left)
  <2> DEFINE b == SetSentListLost(st.buf)
  <2>1. /\ b.una = st.buf.una /\ b.nxt = st.buf.nxt /\ b.tail = st.buf.tail
        /\ b.sacked = st.buf.sacked /\ b.lost = left /\ b.retrans = {}
        /\ b.retransOut = 0 /\ b.sackedOut = st.buf.sackedOut
        /\ b.lostOut = Cardinality(left)
    BY <1>2, SetSentListLostOK
  <2> HIDE DEF e, b, left, next
  <2>2. e.buf = b
    BY <1>1 DEF b
  <2> QED
    BY <2>1, <2>2
<1>4. BytesInFlight(e.buf) = 0
  <2>1. st.buf.sacked \in SUBSET Seg /\ left \in SUBSET Seg
    BY <1>2, SegOfList DEF BufferOK, Buffer
  <2>2. st.buf.sacked \cup left = Sent(st.buf) /\ st.buf.sacked \cap left = {}
    BY <1>2 DEF BufferOK, Placed
  <2>3. Cardinality(Sent(st.buf)) = Cardinality(st.buf.sacked) + Cardinality(left)
    BY <2>1, <2>2, CountUnion
  <2>4. Cardinality(Sent(st.buf)) = st.buf.nxt - st.buf.una
    <3>1. CASE st.buf.una = st.buf.nxt
      <4>1. Sent(st.buf) = {}
        BY <1>2, <3>1 DEF Sent
      <4> QED
        BY <1>2, <3>1, <4>1, FS_EmptySet
    <3>2. CASE st.buf.una < st.buf.nxt
      BY <1>2, <3>2, FS_Interval DEF Sent
    <3> QED
      BY <1>2, <3>1, <3>2
  <2>5. st.buf.sackedOut = Cardinality(st.buf.sacked)
    BY <1>2 DEF BufferOK, Counted
  <2>6. Cardinality(st.buf.sacked) \in Nat /\ Cardinality(left) \in Nat
    BY <2>1, SegFinite
  <2> QED
    BY <1>2, <1>3, <2>3, <2>4, <2>5, <2>6 DEF BytesInFlight
<1>5. CASE st.buf.una < st.buf.nxt
  <2>1. st.buf.una \in left
    BY <1>2, <1>5 DEF Sent
  <2>2. next \in left
    <3> DEFINE lost == {s \in Sent(e.buf) : s \notin e.buf.retrans \cup e.buf.sacked}
                         \cap e.buf.lost
    <3>1. lost = left
      BY <1>3 DEF Sent
    <3>2. next = Min(left)
      <4>1. lost # {}
        BY <2>1, <3>1
      <4>2. next = Min(lost)
        BY <4>1 DEF NextSeg
      <4> QED
        BY <3>1, <4>2
    <3>3. left \in SUBSET Seg
      BY <1>2, SegOfList
    <3> QED
      BY <2>1, <3>2, <3>3, MinIsMember
  <2> HIDE DEF next
  <2>3. next # None /\ next # e.buf.nxt
    BY <1>2, <1>3, <2>2, SegOfList DEF Sent, Seg, None
  <2>4. Size(e.buf) # 0 /\ ~(BytesInFlight(e.buf) >= RWnd) /\ ~e.fault
    BY <1>1, <1>2, <1>3, <1>4, <1>5, RWndAssumption DEF Size
  <2>5. SegLen(e.buf, next) # 0
    BY <2>3 DEF SegLen
  <2>6. SendNext(e) = [SendDataPacket(e, next) EXCEPT !.nextTx = next + 1]
    BY <2>3, <2>4, <2>5 DEF SendNext, next
  <2>7. MaySend(e, next)
    BY <1>3, <2>2 DEF MaySend, Sent
  <2>8. SendDataPacket(e, next).retx = TRUE /\ SendDataPacket(e, next) \in Socket
    BY <1>1, <2>7, SendDataPacketOK, ShapeFacts
  <2>9. SendNext(e).retx = TRUE
    BY <2>6, <2>8 DEF Socket
  <2> QED
    BY <2>9 DEF Timed
<1>6. CASE st.buf.una = st.buf.nxt
  <2>1. Timed(e)
    BY <1>2, <1>3, <1>6 DEF Timed
  <2> HIDE DEF e
  <2> QED
    BY <1>1, <2>1, SendNextOK DEF e
<1> QED
  BY <1>2, <1>5, <1>6

-----------------------------------------------------------------------------
(***************************************************************************)
(* The recovery point.  Sending and counting leave it alone (Stays).  An   *)
(* ACK first moves the head, maybe past it (Passed), and ProcessAck then   *)
(* leaves the episode or keeps the point ahead (Ahead).  Reduced is what   *)
(* makes a reduction wait for a window: what was outstanding at the last   *)
(* one is acknowledged, or will be when the present episode ends.          *)
(***************************************************************************)

Stays(st, c) ==
  /\ c.cong = st.cong /\ c.recover = st.recover
  /\ c.recoverActive = st.recoverActive /\ c.buf.una = st.buf.una
  /\ c.cwrPoint = st.cwrPoint

Reduced(st) ==
  st.cwrPoint <= IF st.cong \in {"OPEN", "DISORDER"} THEN st.buf.una ELSE st.recover

Ahead(st) ==
  /\ Reduced(st)
  /\ st.cong = "RECOVERY" => st.buf.una < st.recover
  /\ st.cong \in {"CWR", "LOSS"} => st.buf.una <= st.recover
  /\ st.recoverActive => st.cong \in {"RECOVERY", "LOSS", "CWR"}

Passed(st) ==
  /\ Reduced(st)
  /\ st.cong = "CWR" => st.buf.una <= st.recover
  /\ st.recoverActive /\ st.cong \in {"OPEN", "DISORDER"} => st.recover <= st.buf.una

LEMMA StaysKeeps ==
  ASSUME NEW st, NEW c, Stays(st, c)
  PROVE  (Ahead(st) => Ahead(c)) /\ (Passed(st) => Passed(c))
BY DEF Stays, Ahead, Passed, Reduced

LEMMA DoRetransmitStays ==
  ASSUME NEW st, NEW n, Good(st, n), st.cong = "RECOVERY", st.buf.una < st.buf.nxt
  PROVE  Stays(st, DoRetransmit(st))
<1>1. st \in Socket
  BY ShapeFacts
<1>2. /\ DoRetransmit(st).recoverActive = st.recoverActive
      /\ DoRetransmit(st).cwrPoint = st.cwrPoint
  BY <1>1 DEF DoRetransmit, SendDataPacket, Socket
<1> QED
  BY <1>2, DoRetransmitOK DEF Frame, Stays

LEMMA SendNextStays ==
  ASSUME NEW st, NEW n, Good(st, n)
  PROVE  Stays(st, SendNext(st)) /\ Good(SendNext(st), n)
<1>1. st \in Socket
  BY ShapeFacts
<1>2. SendNext(st).recoverActive = st.recoverActive /\ SendNext(st).cwrPoint = st.cwrPoint
  BY <1>1 DEF SendNext, SendDataPacket, Socket
<1> QED
  BY <1>2, SendNextOK DEF Frame, Stays

LEMMA SendPendingDataStays ==
  ASSUME NEW st, NEW n, Good(st, n), NEW c \in SendPendingData(st)
  PROVE  Stays(st, c)
<1>1. Stays(st, SendNext(st)) /\ Good(SendNext(st), n)
  BY SendNextStays
<1>2. Stays(SendNext(st), SendNext(SendNext(st)))
  BY <1>1, SendNextStays
<1> QED
  BY <1>1, <1>2 DEF SendPendingData, Stays

LEMMA CountingStays ==
  ASSUME NEW st, NEW n, Good(st, n), NEW a \in SeqNum
  PROVE  /\ \A segs \in Nat : Stays(st, PktsAcked(st, a, segs)) /\ Good(PktsAcked(st, a, segs), n)
                              /\ PktsAcked(st, a, segs).firstPartial = st.firstPartial
         /\ \A resetRTO \in BOOLEAN : Stays(st, NewAck(st, a, resetRTO))
                                      /\ Good(NewAck(st, a, resetRTO), n)
BY PktsAckedOK, NewAckOK DEF Same, Stays

LEMMA DupAckPoint ==
  ASSUME NEW st, NEW n, Good(st, n), st.out = <<>>, st.buf.una < st.buf.nxt
  PROVE  LET c == DupAck(st, st.buf.una)
         IN  (Ahead(st) => Ahead(c)) /\ (Passed(st) => Passed(c))
<1> DEFINE a == st.buf.una
           counted == IF st.cong = "RECOVERY" THEN st
                      ELSE [st EXCEPT !.dupAckCount = @ + 1]
           now == IF st.cong = "OPEN" THEN [counted EXCEPT !.cong = "DISORDER"] ELSE counted
           b == IF IsLost(now.buf, now.buf.una) THEN now.buf ELSE MarkHeadAsLost(now.buf)
           r == [now EXCEPT !.buf = b, !.recover = now.buf.nxt,
                            !.recoverActive = TRUE, !.cong = "RECOVERY"]
<1>1. /\ st \in Socket /\ st.recover <= st.buf.nxt
      /\ st.bytesACKedECE <= st.bytesACKedAll
      /\ st.buf.una \in Int /\ st.buf.nxt \in Int
  BY ShapeFacts
<1>2. /\ counted \in Socket
      /\ counted.buf = st.buf /\ counted.out = st.out /\ counted.cong = st.cong
      /\ counted.recover = st.recover /\ counted.recoverActive = st.recoverActive
      /\ counted.cwrPoint = st.cwrPoint
      /\ counted.bytesACKedAll = st.bytesACKedAll
      /\ counted.bytesACKedECE = st.bytesACKedECE
  BY <1>1 DEF Socket
<1> HIDE DEF counted
<1>3. /\ now \in Socket
      /\ now.buf = st.buf /\ now.out = st.out
      /\ now.recover = st.recover /\ now.recoverActive = st.recoverActive
      /\ now.cwrPoint = st.cwrPoint
      /\ now.cong = IF st.cong = "OPEN" THEN "DISORDER" ELSE st.cong
      /\ now.bytesACKedAll = st.bytesACKedAll
      /\ now.bytesACKedECE = st.bytesACKedECE
  BY <1>2 DEF Socket, CongStates
<1>4. \/ DupAck(st, a) = st
      \/ DupAck(st, a) = EnterRecovery(now) /\ now.cong = "DISORDER"
      \/ DupAck(st, a) = now
  BY DEF DupAck, counted
<1> HIDE DEF now
<1>5. Good(now, n)
  BY <1>1, <1>3, KeepGood
<1>6. EnterRecovery(now) = DoRetransmit(r)
  BY DEF EnterRecovery
<1>7. BufferOK(b) /\ b.una = st.buf.una /\ b.nxt = st.buf.nxt /\ b \in Buffer
  BY <1>1, <1>3, <1>5, MarkHeadAsLostOK, ShapeFacts DEF BufferOK
<1> HIDE DEF b
<1>8. /\ now.buf.nxt \in {None} \cup SeqNum /\ now.buf.nxt <= now.buf.nxt
      /\ n = now.buf.nxt /\ now.buf.nxt - now.buf.una <= RWnd
      /\ now.out = <<>>
  BY <1>3, <1>5, ShapeFacts, SilentIsAtNxt
<1>9. /\ r \in Socket /\ r.buf = b /\ r.out = now.out
      /\ r.recover = now.buf.nxt /\ r.cong = "RECOVERY" /\ r.cwrPoint = now.cwrPoint
      /\ r.bytesACKedAll = now.bytesACKedAll /\ r.bytesACKedECE = now.bytesACKedECE
  BY <1>3, <1>7, <1>8 DEF Socket, CongStates
<1> HIDE DEF r
<1>10. Good(r, n)
  BY <1>1, <1>3, <1>7, <1>8, <1>9, SilentGood
<1>11. Stays(r, DoRetransmit(r))
  BY <1>3, <1>7, <1>9, <1>10, DoRetransmitStays
<1>12. r.buf.una < r.recover
  BY <1>3, <1>7, <1>9
<1>13. ASSUME Ahead(st) \/ Passed(st), now.cong = "DISORDER"
       PROVE  Ahead(r) /\ Passed(r)
  <2>1. st.cwrPoint <= st.buf.una /\ st.cwrPoint \in Int
    BY <1>1, <1>3, <1>13 DEF Ahead, Passed, Reduced, Socket, None, SeqNum
  <2>2. Reduced(r)
    BY <1>1, <1>3, <1>7, <1>9, <1>12, <2>1 DEF Reduced
  <2> QED
    BY <1>9, <1>12, <2>2 DEF Ahead, Passed
<1>14. ASSUME Ahead(st) \/ Passed(st), now.cong = "DISORDER"
       PROVE  Ahead(EnterRecovery(now)) /\ Passed(EnterRecovery(now))
  BY <1>6, <1>11, <1>13, <1>14, StaysKeeps
<1>15. (Ahead(st) => Ahead(now)) /\ (Passed(st) => Passed(now))
  BY <1>3 DEF Ahead, Passed, Reduced
<1> QED
  BY <1>4, <1>14, <1>15

\* An ACK that does not move the head leaves no episode and begins no reduction.
LEMMA LeaveCwrPoint ==
  ASSUME NEW st, NEW n, Good(st, n), NEW head \in Int, head <= st.buf.una,
         Ahead([cong |-> st.cong, recover |-> st.recover, recoverActive |-> st.recoverActive,
                cwrPoint |-> st.cwrPoint, buf |-> [una |-> head]])
  PROVE  LET c == LeaveCwr(st, st.buf.una)
         IN  Passed(c) /\ (head = st.buf.una => Ahead(c))
<1> DEFINE a == st.buf.una
           o == [st EXCEPT !.cong = "OPEN"]
           c == LeaveCwr(st, a)
<1>1. /\ st \in Socket /\ a \in Int /\ st.recover \in Int /\ st.cwrPoint \in Int
  BY ShapeFacts DEF Socket, None, SeqNum
<1>2. /\ st.cong = "RECOVERY" => head < st.recover
      /\ st.cong \in {"CWR", "LOSS"} => head <= st.recover
      /\ st.recoverActive => st.cong \in {"RECOVERY", "LOSS", "CWR"}
      /\ st.cwrPoint <= IF st.cong \in {"OPEN", "DISORDER"} THEN head ELSE st.recover
  BY DEF Ahead, Reduced
<1>3. /\ o.cong = "OPEN" /\ o.recover = st.recover /\ o.buf = st.buf
      /\ o.recoverActive = st.recoverActive /\ o.cwrPoint = st.cwrPoint
  BY <1>1 DEF Socket
<1>4. c = IF st.cong = "CWR" /\ a > st.recover THEN o ELSE st
  BY DEF LeaveCwr
<1> HIDE DEF o, c
<1>5. CASE st.cong = "CWR" /\ a > st.recover
  <2>1. c = o
    BY <1>4, <1>5
  <2>2. Passed(c)
    BY <1>1, <1>2, <1>3, <1>5, <2>1 DEF Passed, Reduced
  <2>3. head # a
    BY <1>1, <1>2, <1>5
  <2> QED
    BY <2>2, <2>3 DEF c
<1>6. CASE ~(st.cong = "CWR" /\ a > st.recover)
  <2>1. c = st
    BY <1>4, <1>6
  <2>2. st.cong = "CWR" => a <= st.recover
    BY <1>1, <1>6
  <2>3. Passed(c)
    BY <1>1, <1>2, <2>1, <2>2 DEF Passed, Reduced
  <2>4. head = a => Ahead(c)
    BY <1>2, <2>1 DEF Ahead, Reduced
  <2> QED
    BY <2>3, <2>4 DEF c
<1> QED
  BY <1>5, <1>6

LEMMA EcnEchoPoint ==
  ASSUME NEW st, NEW n, Good(st, n), NEW a \in SeqNum, NEW isNew \in BOOLEAN, NEW ece \in BOOLEAN
  PROVE  LET c == EcnEcho(st, a, isNew, ece)
         IN  (Passed(st) => Passed(c)) /\ (Ahead(st) /\ ~isNew => Ahead(c))
<1> DEFINE echo == [st EXCEPT !.echoSeq = a, !.ecn = "ECE_RCVD"]
           cwr == EnterCwr(echo)
           idle == [st EXCEPT !.ecn = "IDLE"]
           c == EcnEcho(st, a, isNew, ece)
<1>1. st \in Socket /\ st.buf.una \in Int /\ st.buf.nxt \in Int /\ st.buf.una <= st.buf.nxt
  BY ShapeFacts
<1>2. Stays(st, echo) /\ Stays(st, idle) /\ echo.buf = st.buf
  BY <1>1 DEF Stays, Socket
<1>3. \/ c = st \/ c = echo \/ c = idle
      \/ c = cwr /\ isNew
  BY DEF EcnEcho
<1>4. /\ cwr.cong = "CWR" /\ cwr.recover = st.buf.nxt /\ cwr.buf = st.buf
      /\ cwr.cwrPoint = st.buf.nxt
  BY <1>1 DEF EnterCwr, Socket
<1> HIDE DEF echo, cwr, idle, c
<1>5. Passed(cwr)
  BY <1>1, <1>4 DEF Passed, Reduced
<1>6. /\ Passed(st) => Passed(echo) /\ Passed(idle)
      /\ Ahead(st) => Ahead(echo) /\ Ahead(idle)
  BY <1>2, StaysKeeps
<1>7. (Passed(st) => Passed(c)) /\ (Ahead(st) /\ ~isNew => Ahead(c))
  BY <1>3, <1>5, <1>6
<1> QED
  BY <1>7 DEF c

LEMMA PartialAckStays ==
  ASSUME NEW st, NEW n, Good(st, n), st.cong = "RECOVERY", st.buf.una < st.buf.nxt,
         NEW a \in SeqNum
  PROVE  Stays(st, PartialAck(st, a))
<1> DEFINE resent == IF IsRetransmittedDataAcked(st.buf, a) THEN st ELSE DoRetransmit(st)
           counted == PktsAcked(resent, a, 1)
           acked == NewAck(counted, a, st.firstPartial)
           c == [acked EXCEPT !.firstPartial = FALSE]
<1>1. PartialAck(st, a) = c
  BY DEF PartialAck
<1>2. st.firstPartial \in BOOLEAN
  BY ShapeFacts DEF Socket
<1> HIDE DEF c
<1>3. Good(resent, n) /\ Stays(st, resent)
  BY DoRetransmitOK, DoRetransmitStays DEF Stays
<1> HIDE DEF resent
<1>4. Good(counted, n) /\ Stays(resent, counted)
  BY <1>3, CountingStays
<1> HIDE DEF counted
<1>5. Good(acked, n) /\ Stays(counted, acked)
  BY <1>2, <1>4, CountingStays
<1> HIDE DEF acked
<1>6. Stays(acked, c)
  BY <1>5, ShapeFacts DEF c, Socket, Stays
<1> QED
  BY <1>1, <1>3, <1>4, <1>5, <1>6 DEF Stays

\* The episode is over: m_recover is inactive if it is not ahead.
LEMMA CompleteAckAhead ==
  ASSUME NEW st, NEW n, Good(st, n), st.out = <<>>, NEW a \in SeqNum, NEW segs \in Nat,
         NEW old \in Nat, NEW isDup \in BOOLEAN, a = st.buf.una, Passed(st),
         st.cong # "CWR", st.cong \in {"RECOVERY", "LOSS"} => st.recover <= a
  PROVE  Ahead(CompleteAck(st, a, segs, old, isDup))
<1> DEFINE done ==
             CASE st.cong = "OPEN" -> PktsAcked(st, a, segs)
               [] st.cong = "DISORDER" -> AckInDisorder(st, a, segs, old, isDup)
               [] st.cong = "RECOVERY" -> LeaveRecovery(st, a, segs)
               [] st.cong = "LOSS" -> LeaveLoss(st, a)
           active == done.recoverActive /\ a < done.recover
           point == [done EXCEPT !.recoverActive = active]
<1>0. /\ st.recover \in Int /\ a \in Int /\ st.cong \in CongStates
  BY ShapeFacts DEF Socket
<1>1. CompleteAck(st, a, segs, old, isDup)
        = IF point.cong = "OPEN" THEN NewAck(point, a, TRUE) ELSE point
  BY DEF CompleteAck
<1>2. /\ Good(done, n) /\ done.cong \in {"OPEN", "DISORDER"}
      /\ done.recover = st.recover /\ done.recoverActive = st.recoverActive
      /\ done.buf.una = a /\ done.cwrPoint = st.cwrPoint
  <2>1. CASE st.cong = "OPEN"
    <3> DEFINE p == PktsAcked(st, a, segs)
    <3>1. done = p
      BY <2>1
    <3>2. Good(p, n) /\ Stays(st, p)
      BY CountingStays
    <3> HIDE DEF p, done
    <3> QED
      BY <2>1, <3>1, <3>2 DEF Stays
  <2>2. CASE st.cong = "DISORDER"
    <3> DEFINE q == AckInDisorder(st, a, segs, old, isDup)
               p == IF segs >= old THEN PktsAcked(st, a, segs - old) ELSE st
               o == [p EXCEPT !.cong = "OPEN"]
    <3>1. done = q /\ q \in {p, o}
      BY <2>2 DEF AckInDisorder
    <3>2. Good(q, n)
      BY AckInDisorderOK DEF Kept
    <3>3. p \in Socket /\ Stays(st, p)
      <4>1. CASE segs >= old
        <5>1. segs - old \in Nat
          BY <4>1
        <5> QED
          BY <4>1, <5>1, CountingStays, ShapeFacts
      <4>2. CASE ~(segs >= old)
        BY <4>2, ShapeFacts DEF Stays
      <4> QED
        BY <4>1, <4>2
    <3> HIDE DEF q, p, done
    <3>4. /\ o.cong = "OPEN" /\ o.recover = p.recover /\ o.recoverActive = p.recoverActive
          /\ o.buf = p.buf /\ o.cwrPoint = p.cwrPoint
      BY <3>3 DEF Socket
    <3> HIDE DEF o
    <3> QED
      BY <2>2, <3>1, <3>2, <3>3, <3>4 DEF Stays
  <2>3. CASE st.cong = "RECOVERY"
    <3> DEFINE q == LeaveRecovery(st, a, segs)
               p == PktsAcked(st, a, segs)
    <3>1. done = q /\ q = [p EXCEPT !.cong = "OPEN", !.dupAckCount = 0, !.firstPartial = TRUE]
      BY <2>3 DEF LeaveRecovery
    <3>2. Good(q, n)
      BY LeaveRecoveryOK DEF Kept
    <3>3. p \in Socket /\ Stays(st, p)
      BY CountingStays, ShapeFacts
    <3> HIDE DEF q, p, done
    <3>4. /\ q.cong = "OPEN" /\ q.recover = p.recover /\ q.recoverActive = p.recoverActive
          /\ q.buf = p.buf /\ q.cwrPoint = p.cwrPoint
      BY <3>1, <3>3 DEF Socket
    <3> QED
      BY <3>1, <3>2, <3>3, <3>4 DEF Stays
  <2>4. CASE st.cong = "LOSS"
    <3> DEFINE q == LeaveLoss(st, a)
               p == PktsAcked(st, a, a - st.recover)
    <3>1. done = q /\ q = [p EXCEPT !.cong = "OPEN", !.firstPartial = TRUE]
      BY <2>4 DEF LeaveLoss
    <3>2. Good(q, n) /\ a - st.recover \in Nat
      BY <1>0, <2>4, LeaveLossOK DEF Kept
    <3>3. p \in Socket /\ Stays(st, p)
      BY <3>2, CountingStays, ShapeFacts
    <3> HIDE DEF q, p, done
    <3>4. /\ q.cong = "OPEN" /\ q.recover = p.recover /\ q.recoverActive = p.recoverActive
          /\ q.buf = p.buf /\ q.cwrPoint = p.cwrPoint
      BY <3>1, <3>3 DEF Socket
    <3> QED
      BY <3>1, <3>2, <3>3, <3>4 DEF Stays
  <2> QED
    BY <1>0, <2>1, <2>2, <2>3, <2>4 DEF CongStates
<1> HIDE DEF done
<1>3. ~active
  <2>1. st.recoverActive => st.recover <= a
    BY <1>0 DEF Passed, CongStates
  <2> QED
    BY <1>0, <1>2, <2>1
<1>4. done \in Socket
  BY <1>2, ShapeFacts
<1> DEFINE off == FALSE
<1>5. active = off /\ off \in BOOLEAN
  BY <1>3
<1>6. point = [done EXCEPT !.recoverActive = off]
  BY <1>5
<1> HIDE DEF active, off, point
<1>7. /\ point \in Socket /\ point.cong = done.cong /\ point.recover = done.recover
       /\ point.recoverActive = off /\ point.buf = done.buf /\ point.out = done.out
       /\ point.cwrPoint = done.cwrPoint
       /\ point.bytesACKedAll = done.bytesACKedAll
       /\ point.bytesACKedECE = done.bytesACKedECE
  BY <1>4, <1>5, <1>6 DEF Socket
<1>8. ~point.recoverActive
  BY <1>7 DEF off
<1>9. Good(point, n)
  BY <1>2, <1>7, KeepGood, ShapeFacts
<1>10. Ahead(point)
  <2>1. st.cwrPoint <= a
    <3>1. /\ st.cwrPoint <= IF st.cong \in {"OPEN", "DISORDER"} THEN a ELSE st.recover
          /\ st.cwrPoint \in Int
      BY ShapeFacts DEF Passed, Reduced, Socket, None, SeqNum
    <3> QED
      BY <1>0, <3>1 DEF CongStates
  <2>2. Reduced(point)
    BY <1>2, <1>7, <2>1 DEF Reduced
  <2> QED
    BY <1>2, <1>7, <1>8, <2>2 DEF Ahead
<1>11. Ahead(NewAck(point, a, TRUE))
  BY <1>9, <1>10, CountingStays, StaysKeeps
<1> QED
  BY <1>1, <1>10, <1>11

LEMMA AdvanceAckAhead ==
  ASSUME NEW st, NEW n, Good(st, n), NEW a \in SeqNum, a = st.buf.una, Quiet(st, a),
         NEW segs \in Nat, NEW old \in Nat, NEW isDup \in BOOLEAN, Passed(st)
  PROVE  Ahead(AdvanceAck(st, a, segs, old, isDup))
<1>1. /\ st.buf.una \in Int /\ st.buf.nxt \in Int
      /\ st.recover \in Int /\ st.recover <= st.buf.nxt
  BY ShapeFacts
<1>2. CASE st.cong = "RECOVERY" /\ a < st.recover
  <2>1. AdvanceAck(st, a, segs, old, isDup) = PartialAck(st, a)
    BY <1>2 DEF AdvanceAck
  <2>2. st.buf.una < st.buf.nxt
    BY <1>1, <1>2
  <2>3. Ahead(st)
    BY <1>2 DEF Ahead, Passed
  <2> QED
    BY <1>2, <2>1, <2>2, <2>3, PartialAckStays, StaysKeeps
<1>3. CASE /\ ~(st.cong = "RECOVERY" /\ a < st.recover)
           /\ st.cong = "CWR" \/ (st.cong = "LOSS" /\ a < st.recover)
  <2> DEFINE p == PktsAcked(st, a, segs)
  <2>1. AdvanceAck(st, a, segs, old, isDup) = NewAck(p, a, TRUE)
    BY <1>3 DEF AdvanceAck
  <2>2. Good(p, n) /\ Stays(st, p)
    BY CountingStays
  <2> HIDE DEF p
  <2>3. Stays(p, NewAck(p, a, TRUE))
    BY <2>2, CountingStays
  <2>4. Ahead(st)
    BY <1>1, <1>3 DEF Ahead, Passed
  <2> QED
    BY <2>1, <2>2, <2>3, <2>4, StaysKeeps
<1>4. CASE /\ ~(st.cong = "RECOVERY" /\ a < st.recover)
           /\ ~(st.cong = "CWR" \/ (st.cong = "LOSS" /\ a < st.recover))
  <2>1. AdvanceAck(st, a, segs, old, isDup) = CompleteAck(st, a, segs, old, isDup)
    BY <1>4 DEF AdvanceAck
  <2>2. /\ st.out = <<>> /\ st.cong # "CWR"
        /\ st.cong \in {"RECOVERY", "LOSS"} => st.recover <= a
    BY <1>1, <1>4 DEF Quiet
  <2> QED
    BY <2>1, <2>2, CompleteAckAhead
<1> QED
  BY <1>2, <1>3, <1>4

LEMMA ProcessAckAhead ==
  ASSUME NEW st, NEW n, Good(st, n), st.out = <<>>,
         NEW a \in SeqNum, a = st.buf.una, NEW head \in SeqNum, head <= a,
         NEW isDup \in BOOLEAN, isDup => a < st.buf.nxt,
         Passed(st), head = a => Ahead(st)
  PROVE  Ahead(ProcessAck(st, a, head, isDup))
<1> DEFINE dup == IF isDup THEN DupAck(st, a) ELSE st
           reset == [dup EXCEPT !.dupAckCount = 0]
           from == IF isDup THEN dup ELSE reset
<1>1. Kept(st, dup, n) /\ Quiet(dup, a)
  BY DupAckOK DEF Kept, Quiet
<1>2. (Ahead(st) => Ahead(dup)) /\ (Passed(st) => Passed(dup))
  BY DupAckPoint
<1>3. ProcessAck(st, a, head, isDup)
        = IF a > head THEN AdvanceAck(from, a, a - head, st.dupAckCount, isDup)
          ELSE IF a = dup.buf.nxt THEN dup
          ELSE PktsAcked(dup, a, 1)
  BY DEF ProcessAck
<1> HIDE DEF dup
<1>4. /\ dup \in Socket /\ dup.recover <= dup.buf.nxt
      /\ dup.bytesACKedECE <= dup.bytesACKedAll
  BY <1>1, ShapeFacts DEF Kept
<1>5. /\ reset \in Socket /\ reset.buf = dup.buf /\ reset.out = dup.out
      /\ reset.recover = dup.recover /\ reset.retx = dup.retx /\ reset.cong = dup.cong
      /\ reset.recoverActive = dup.recoverActive /\ reset.cwrPoint = dup.cwrPoint
      /\ reset.bytesACKedAll = dup.bytesACKedAll
      /\ reset.bytesACKedECE = dup.bytesACKedECE
  BY <1>4 DEF Socket
<1> HIDE DEF reset
<1>6. Good(reset, n)
  BY <1>1, <1>4, <1>5, KeepGood DEF Kept
<1>7. Good(from, n) /\ Quiet(from, a) /\ a = from.buf.una
  BY <1>1, <1>5, <1>6 DEF Kept, Quiet
<1>8. Passed(from)
  BY <1>2, <1>5 DEF Passed, Reduced
<1> HIDE DEF from
<1>9. a \in Int /\ head \in Int /\ st.dupAckCount \in Nat
  BY ShapeFacts DEF SeqNum, Socket
<1>10. CASE a > head
  <2>1. a - head \in Nat
    BY <1>9, <1>10
  <2>2. Ahead(AdvanceAck(from, a, a - head, st.dupAckCount, isDup))
    BY <1>7, <1>8, <1>9, <2>1, AdvanceAckAhead
  <2> QED
    BY <1>3, <1>10, <2>2
<1>11. CASE ~(a > head)
  <2>1. Ahead(dup)
    BY <1>2, <1>9, <1>11
  <2>2. Ahead(PktsAcked(dup, a, 1))
    BY <1>1, <2>1, CountingStays, StaysKeeps DEF Kept
  <2> QED
    BY <1>3, <1>11, <2>1, <2>2
<1> QED
  BY <1>10, <1>11

LEMMA ReceivedAckAhead ==
  ASSUME NEW st, NEW n, Good(st, n), st.out = <<>>, Ahead(st),
         NEW a \in st.buf.una .. st.buf.nxt, a \notin st.buf.sacked,
         NEW blocks \in SUBSET (a + 1 .. st.buf.nxt - 1), NEW ece \in BOOLEAN,
         NEW c \in ReceivedAck(st, a, blocks, ece)
  PROVE  Ahead(c)
<1> DEFINE head == st.buf.una
           isDup == NewlySacked(st.buf, blocks) # {}
           b == DiscardUpTo(Update(st.buf, blocks), a)
           scored == [st EXCEPT !.buf = b]
           left == LeaveCwr(scored, a)
           isNew == a > head
           echoed == EcnEcho(left, a, isNew, ece)
           processed == ProcessAck(echoed, a, head, isDup)
<1>1. /\ st \in Socket /\ BufferOK(st.buf)
      /\ st.buf.una \in Int /\ st.buf.nxt \in Int
      /\ st.buf.una \in SeqNum /\ st.buf.nxt \in SeqNum
      /\ st.buf.nxt - st.buf.una <= RWnd
      /\ st.recover <= st.buf.nxt /\ st.bytesACKedECE <= st.bytesACKedAll
      /\ n = st.buf.nxt
  BY ShapeFacts, SilentIsAtNxt
<1>2. /\ a \in Int /\ a \in SeqNum /\ head <= a /\ a <= st.buf.nxt
      /\ st.buf.una \notin blocks /\ a \notin blocks
      /\ st.buf.nxt - a <= RWnd
  <2>1. a \in Int /\ a \in SeqNum /\ head <= a /\ a <= st.buf.nxt
    BY <1>1, SeqAssumption DEF SeqNum
  <2>2. \A s \in blocks : s \in Int /\ a < s
    BY <2>1
  <2>3. st.buf.nxt - a <= RWnd
    BY <1>1, <2>1, RWndAssumption
  <2> QED
    BY <1>1, <2>1, <2>2, <2>3
<1>3. isDup \in BOOLEAN /\ (isDup => a < st.buf.nxt)
  <2>1. NewlySacked(st.buf, blocks) \subseteq blocks
    BY DEF NewlySacked
  <2>2. \A s \in blocks : a < st.buf.nxt
    BY <1>1, <1>2
  <2> QED
    BY <2>1, <2>2
<1>4. c \in SendPendingData(processed) /\ isNew \in BOOLEAN
  BY DEF ReceivedAck
<1>5. /\ BufferOK(Update(st.buf, blocks))
      /\ Update(st.buf, blocks).una = st.buf.una
      /\ Update(st.buf, blocks).nxt = st.buf.nxt
      /\ Update(st.buf, blocks).sacked \subseteq st.buf.sacked \cup blocks
  BY <1>1, <1>2, UpdateOK
<1>6. BufferOK(b) /\ b.una = a /\ b.nxt = st.buf.nxt
  BY <1>2, <1>5, DiscardUpToOK
<1>7. b \in Buffer
  BY <1>6 DEF BufferOK
<1> HIDE DEF b, isDup, processed
<1>8. /\ scored \in Socket /\ scored.buf = b /\ scored.out = <<>>
      /\ scored.cong = st.cong /\ scored.recover = st.recover
      /\ scored.recoverActive = st.recoverActive /\ scored.cwrPoint = st.cwrPoint
      /\ scored.bytesACKedAll = st.bytesACKedAll
      /\ scored.bytesACKedECE = st.bytesACKedECE
  BY <1>1, <1>7 DEF Socket
<1> HIDE DEF scored
<1>9. Good(scored, n) /\ scored.buf.una = a
  BY <1>1, <1>2, <1>6, <1>8, SilentGood
<1>10. Ahead([cong |-> scored.cong, recover |-> scored.recover,
              recoverActive |-> scored.recoverActive, cwrPoint |-> scored.cwrPoint,
              buf |-> [una |-> head]])
  BY <1>8 DEF Ahead, Reduced
<1>11. Passed(left) /\ (head = a => Ahead(left))
  BY <1>1, <1>2, <1>9, <1>10, LeaveCwrPoint
<1>12. Good(left, n) /\ left.buf = b /\ left.out = <<>>
  BY <1>8, <1>9, LeaveCwrOK
<1> HIDE DEF left
<1>13. Good(echoed, n) /\ echoed.buf = b /\ echoed.out = <<>>
  BY <1>2, <1>12, EcnEchoOK
<1>14. head = a => ~isNew
  BY <1>1, <1>2
<1>15. processed = ProcessAck(echoed, a, head, isDup)
  BY DEF processed
<1> HIDE DEF isNew
<1>16. Passed(echoed) /\ (head = a => Ahead(echoed))
  BY <1>2, <1>4, <1>11, <1>12, <1>14, EcnEchoPoint
<1> HIDE DEF echoed
<1>17. Good(processed, n) /\ Ahead(processed)
  BY <1>1, <1>2, <1>3, <1>6, <1>13, <1>15, <1>16, ProcessAckOK, ProcessAckAhead DEF Kept
<1>18. Stays(processed, c)
  BY <1>4, <1>17, SendPendingDataStays
<1> QED
  BY <1>17, <1>18, StaysKeeps

LEMMA ExpireAhead ==
  ASSUME NEW st, NEW n, Good(st, n), st.out = <<>>, st.retries # 0, Reduced(st)
  PROVE  Ahead(SendNext(Expire(st)))
<1> DEFINE e == Expire(st)
<1>1. /\ st \in Socket /\ BufferOK(st.buf)
      /\ st.buf.una \in Int /\ st.buf.nxt \in Int /\ st.buf.una <= st.buf.nxt
  BY ShapeFacts
<1>2. SetSentListLost(st.buf).una = st.buf.una
  BY <1>1, SetSentListLostOK
<1>3. Good(e, n) /\ e.buf = SetSentListLost(st.buf) /\ e.cong = "LOSS"
  BY ExpireOK
<1>4. e.recover = st.buf.nxt /\ e.cwrPoint = st.cwrPoint
  BY <1>1 DEF Expire, Socket
<1> HIDE DEF e
<1>5. Ahead(e)
  <2>1. st.cwrPoint \in Int /\ st.recover \in Int /\ st.recover <= st.buf.nxt
    BY ShapeFacts DEF Socket, None, SeqNum
  <2>2. Reduced(e)
    BY <1>1, <1>3, <1>4, <2>1 DEF Reduced
  <2> QED
    BY <1>1, <1>2, <1>3, <1>4, <2>2 DEF Ahead
<1>6. Stays(e, SendNext(e))
  BY <1>3, SendNextStays
<1> QED
  BY <1>5, <1>6, StaysKeeps DEF e

-----------------------------------------------------------------------------
(***************************************************************************)
(* The echo.  Only sending answers it (SendDataPacketOK keeps CwrOnce);    *)
(* everything else a handler does is silent (Mute).                        *)
(***************************************************************************)

Mute(st, c) ==
  /\ c.buf.una = st.buf.una /\ c.out = st.out
  /\ c.echoSeq = st.echoSeq /\ c.cwrSeq = st.cwrSeq

LEMMA MuteKeeps ==
  ASSUME NEW st, NEW c, Mute(st, c), NEW q, CwrOnce(st, q)
  PROVE  CwrOnce(c, q)
BY DEF Mute, CwrOnce

LEMMA SendPendingDataCwr ==
  ASSUME NEW st, NEW n, Good(st, n), NEW c \in SendPendingData(st),
         NEW q \in Int, CwrOnce(st, q)
  PROVE  CwrOnce(c, q) /\ c.cong = st.cong
<1>1. Good(SendNext(st), n) /\ CwrOnce(SendNext(st), q) /\ SendNext(st).cong = st.cong
  BY SendNextOK DEF Frame
<1>2. /\ CwrOnce(SendNext(SendNext(st)), q)
      /\ SendNext(SendNext(st)).cong = st.cong
  BY <1>1, SendNextOK DEF Frame
<1> QED
  BY <1>1, <1>2 DEF SendPendingData

LEMMA CountingCwr ==
  ASSUME NEW st, NEW n, Good(st, n), NEW a \in SeqNum
  PROVE  /\ \A segs \in Nat : /\ Mute(st, PktsAcked(st, a, segs))
                              /\ Good(PktsAcked(st, a, segs), n)
         /\ \A resetRTO \in BOOLEAN : Mute(st, NewAck(st, a, resetRTO))
BY PktsAckedOK, NewAckOK DEF Same, Mute

LEMMA DupAckCwr ==
  ASSUME NEW st, NEW n, Good(st, n), st.out = <<>>, st.buf.una < st.buf.nxt,
         NEW q \in Int, CwrOnce(st, q)
  PROVE  LET c == DupAck(st, st.buf.una)
         IN  CwrOnce(c, q) /\ (c.cong = "CWR" => st.cong = "CWR")
<1> DEFINE a == st.buf.una
           counted == IF st.cong = "RECOVERY" THEN st
                      ELSE [st EXCEPT !.dupAckCount = @ + 1]
           now == IF st.cong = "OPEN" THEN [counted EXCEPT !.cong = "DISORDER"] ELSE counted
           b == IF IsLost(now.buf, now.buf.una) THEN now.buf ELSE MarkHeadAsLost(now.buf)
           r == [now EXCEPT !.buf = b, !.recover = now.buf.nxt,
                            !.recoverActive = TRUE, !.cong = "RECOVERY"]
<1>1. /\ st \in Socket /\ st.recover <= st.buf.nxt
      /\ st.bytesACKedECE <= st.bytesACKedAll
  BY ShapeFacts
<1>2. /\ counted \in Socket /\ Mute(st, counted)
      /\ counted.buf = st.buf /\ counted.cong = st.cong /\ counted.recover = st.recover
      /\ counted.bytesACKedAll = st.bytesACKedAll
      /\ counted.bytesACKedECE = st.bytesACKedECE
  BY <1>1 DEF Socket, Mute
<1> HIDE DEF counted
<1>3. /\ now \in Socket /\ Mute(st, now)
      /\ now.buf = st.buf /\ now.recover = st.recover
      /\ now.cong = "CWR" => st.cong = "CWR"
      /\ now.bytesACKedAll = st.bytesACKedAll
      /\ now.bytesACKedECE = st.bytesACKedECE
  BY <1>2 DEF Socket, CongStates, Mute
<1>4. \/ DupAck(st, a) = st
      \/ DupAck(st, a) = EnterRecovery(now)
      \/ DupAck(st, a) = now
  BY DEF DupAck, counted
<1> HIDE DEF now
<1>5. Good(now, n)
  BY <1>1, <1>3, KeepGood DEF Mute
<1>6. EnterRecovery(now) = DoRetransmit(r)
  BY DEF EnterRecovery
<1>7. BufferOK(b) /\ b.una = st.buf.una /\ b.nxt = st.buf.nxt /\ b \in Buffer
  BY <1>1, <1>3, <1>5, MarkHeadAsLostOK, ShapeFacts DEF BufferOK
<1> HIDE DEF b
<1>8. /\ now.buf.nxt \in {None} \cup SeqNum /\ now.buf.nxt <= now.buf.nxt
      /\ n = now.buf.nxt /\ now.buf.nxt - now.buf.una <= RWnd
      /\ now.out = <<>>
  BY <1>3, <1>5, ShapeFacts, SilentIsAtNxt DEF Mute
<1>9. /\ r \in Socket /\ r.buf = b /\ r.out = now.out
      /\ r.recover = now.buf.nxt /\ r.cong = "RECOVERY"
      /\ r.echoSeq = now.echoSeq /\ r.cwrSeq = now.cwrSeq
      /\ r.bytesACKedAll = now.bytesACKedAll /\ r.bytesACKedECE = now.bytesACKedECE
  <2>1. /\ now \in Socket /\ b \in Buffer /\ now.buf.nxt \in {None} \cup SeqNum
        /\ "RECOVERY" \in CongStates
    BY <1>3, <1>7, <1>8 DEF CongStates
  <2> QED
    BY <2>1 DEF Socket
<1> HIDE DEF r
<1>10. Good(r, n)
  BY <1>1, <1>3, <1>7, <1>8, <1>9, SilentGood
<1>11. CwrOnce(now, q)
  BY <1>3, MuteKeeps
<1>12. CwrOnce(r, q)
  BY <1>3, <1>7, <1>9, <1>11, MuteKeeps DEF Mute
<1>13. CwrOnce(EnterRecovery(now), q) /\ EnterRecovery(now).cong = "RECOVERY"
  BY <1>3, <1>6, <1>7, <1>9, <1>10, <1>12, DoRetransmitOK DEF Frame
<1> QED
  BY <1>3, <1>4, <1>11, <1>13

LEMMA LeaveCwrCwr ==
  ASSUME NEW st \in Socket, NEW a
  PROVE  LET c == LeaveCwr(st, a)
         IN  Mute(st, c) /\ (c.cong = "CWR" => st.cong = "CWR")
BY DEF LeaveCwr, Mute, Socket

\* An ECE moves the echo to the head, and starts a reduction only if the head moved.
LEMMA EcnEchoCwr ==
  ASSUME NEW st, NEW n, Good(st, n), NEW isNew \in BOOLEAN, NEW ece \in BOOLEAN,
         NEW q \in Int, CwrOnce(st, q)
  PROVE  LET c == EcnEcho(st, st.buf.una, isNew, ece)
         IN  CwrOnce(c, q) /\ (c.cong = "CWR" /\ ~isNew => st.cong = "CWR")
<1> DEFINE a == st.buf.una
           echo == [st EXCEPT !.echoSeq = a, !.ecn = "ECE_RCVD"]
           cwr == EnterCwr(echo)
           idle == [st EXCEPT !.ecn = "IDLE"]
           c == EcnEcho(st, a, isNew, ece)
<1>1. st \in Socket /\ a \in Int
  BY ShapeFacts
<1>2. /\ echo.buf = st.buf /\ echo.out = st.out /\ echo.cwrSeq = st.cwrSeq
      /\ echo.echoSeq = a
  BY <1>1 DEF Socket
<1>3. /\ cwr.buf = st.buf /\ cwr.out = st.out /\ cwr.cwrSeq = st.cwrSeq
      /\ cwr.echoSeq = a
  BY <1>1 DEF Socket, EnterCwr
<1>4. /\ idle.buf = st.buf /\ idle.out = st.out /\ idle.cwrSeq = st.cwrSeq
      /\ idle.echoSeq = st.echoSeq /\ idle.cong = st.cong
  BY <1>1 DEF Socket
<1>5. \/ c = st
      \/ isNew /\ c \in {echo, cwr}
      \/ c = idle
  BY DEF EcnEcho
<1> HIDE DEF echo, cwr, idle, c
<1>6. CwrOnce(echo, q) /\ CwrOnce(cwr, q) /\ CwrOnce(idle, q)
  BY <1>1, <1>2, <1>3, <1>4 DEF CwrOnce
<1>7. CwrOnce(c, q) /\ (c.cong = "CWR" /\ ~isNew => st.cong = "CWR")
  BY <1>4, <1>5, <1>6
<1> QED
  BY <1>7 DEF c

LEMMA PartialAckCwr ==
  ASSUME NEW st, NEW n, Good(st, n), st.cong = "RECOVERY", st.buf.una < st.buf.nxt,
         NEW a \in SeqNum, NEW q \in Int, CwrOnce(st, q)
  PROVE  CwrOnce(PartialAck(st, a), q)
<1> DEFINE resent == IF IsRetransmittedDataAcked(st.buf, a) THEN st ELSE DoRetransmit(st)
           counted == PktsAcked(resent, a, 1)
           acked == NewAck(counted, a, st.firstPartial)
           c == [acked EXCEPT !.firstPartial = FALSE]
<1>1. PartialAck(st, a) = c
  BY DEF PartialAck
<1>2. st.firstPartial \in BOOLEAN
  BY ShapeFacts DEF Socket
<1> HIDE DEF c
<1>3. Good(resent, n) /\ CwrOnce(resent, q)
  BY DoRetransmitOK DEF Frame
<1> HIDE DEF resent
<1>4. Good(counted, n) /\ Mute(resent, counted)
  BY <1>3, CountingCwr
<1> HIDE DEF counted
<1>5. Mute(counted, acked) /\ acked \in Socket
  BY <1>2, <1>4, CountingCwr, NewAckOK, ShapeFacts
<1> HIDE DEF acked
<1>6. Mute(acked, c)
  BY <1>5 DEF c, Socket, Mute
<1> QED
  BY <1>1, <1>3, <1>4, <1>5, <1>6, MuteKeeps

LEMMA CompleteAckCwr ==
  ASSUME NEW st, NEW n, Good(st, n), st.out = <<>>, NEW a \in SeqNum, NEW segs \in Nat,
         NEW old \in Nat, NEW isDup \in BOOLEAN, a = st.buf.una,
         st.cong # "CWR", st.cong = "LOSS" => st.recover <= a
  PROVE  Mute(st, CompleteAck(st, a, segs, old, isDup))
<1> DEFINE done ==
             CASE st.cong = "OPEN" -> PktsAcked(st, a, segs)
               [] st.cong = "DISORDER" -> AckInDisorder(st, a, segs, old, isDup)
               [] st.cong = "RECOVERY" -> LeaveRecovery(st, a, segs)
               [] st.cong = "LOSS" -> LeaveLoss(st, a)
           active == done.recoverActive /\ a < done.recover
           point == [done EXCEPT !.recoverActive = active]
           count(k) == PktsAcked(st, a, k)
<1>0. /\ st \in Socket /\ st.recover \in Int /\ a \in Int /\ st.cong \in CongStates
  BY ShapeFacts DEF Socket
<1>1. CompleteAck(st, a, segs, old, isDup)
        = IF point.cong = "OPEN" THEN NewAck(point, a, TRUE) ELSE point
  BY DEF CompleteAck
<1>2. \A k \in Nat : Mute(st, count(k)) /\ count(k) \in Socket
  BY CountingCwr, ShapeFacts
<1>3. Mute(st, done) /\ Good(done, n)
  <2>1. CASE st.cong = "OPEN"
    BY <1>2, <2>1, CountingCwr
  <2>2. CASE st.cong = "DISORDER"
    <3> DEFINE p == IF segs >= old THEN count(segs - old) ELSE st
    <3>1. done = AckInDisorder(st, a, segs, old, isDup)
      BY <2>2
    <3>2. AckInDisorder(st, a, segs, old, isDup) \in {p, [p EXCEPT !.cong = "OPEN"]}
      BY DEF AckInDisorder
    <3>3. segs >= old => segs - old \in Nat
      OBVIOUS
    <3>4. Mute(st, p) /\ p \in Socket
      BY <1>0, <1>2, <3>3 DEF Mute
    <3>5. Good(AckInDisorder(st, a, segs, old, isDup), n)
      BY AckInDisorderOK DEF Kept
    <3> HIDE DEF p, done
    <3>6. Mute(st, [p EXCEPT !.cong = "OPEN"])
      BY <3>4 DEF Mute, Socket
    <3> QED
      BY <3>1, <3>2, <3>4, <3>5, <3>6
  <2>3. CASE st.cong = "RECOVERY"
    <3>1. done = LeaveRecovery(st, a, segs)
      BY <2>3
    <3>2. Mute(st, LeaveRecovery(st, a, segs))
      BY <1>2 DEF LeaveRecovery, Mute, Socket
    <3> QED
      BY <3>1, <3>2, LeaveRecoveryOK DEF Kept
  <2>4. CASE st.cong = "LOSS"
    <3>1. done = LeaveLoss(st, a)
      BY <2>4
    <3>2. a - st.recover \in Nat
      BY <1>0, <2>4
    <3>3. Mute(st, LeaveLoss(st, a))
      BY <1>2, <3>2 DEF LeaveLoss, Mute, Socket
    <3> QED
      BY <1>0, <2>4, <3>1, <3>3, LeaveLossOK DEF Kept
  <2> QED
    BY <1>0, <2>1, <2>2, <2>3, <2>4 DEF CongStates
<1> HIDE DEF done, count
<1>4. done \in Socket /\ done.recover <= done.buf.nxt
      /\ done.bytesACKedECE <= done.bytesACKedAll
  BY <1>3, ShapeFacts
<1>5. active \in BOOLEAN
  OBVIOUS
<1> HIDE DEF active
<1>6. /\ point \in Socket /\ Mute(done, point) /\ point.buf = done.buf
      /\ point.cong = done.cong /\ point.recover = done.recover
      /\ point.bytesACKedAll = done.bytesACKedAll
      /\ point.bytesACKedECE = done.bytesACKedECE
  BY <1>4, <1>5 DEF Socket, Mute
<1> HIDE DEF point
<1>7. Good(point, n)
  BY <1>3, <1>4, <1>6, KeepGood DEF Mute
<1>8. Mute(point, NewAck(point, a, TRUE))
  BY <1>7, CountingCwr
<1> QED
  BY <1>1, <1>3, <1>6, <1>8 DEF Mute

LEMMA AdvanceAckCwr ==
  ASSUME NEW st, NEW n, Good(st, n), NEW a \in SeqNum, a = st.buf.una, Quiet(st, a),
         NEW segs \in Nat, NEW old \in Nat, NEW isDup \in BOOLEAN,
         NEW q \in Int, CwrOnce(st, q)
  PROVE  CwrOnce(AdvanceAck(st, a, segs, old, isDup), q)
<1>1. /\ st.buf.una \in Int /\ st.buf.nxt \in Int
      /\ st.recover \in Int /\ st.recover <= st.buf.nxt
  BY ShapeFacts
<1>2. CASE st.cong = "RECOVERY" /\ a < st.recover
  <2>1. AdvanceAck(st, a, segs, old, isDup) = PartialAck(st, a)
    BY <1>2 DEF AdvanceAck
  <2>2. st.buf.una < st.buf.nxt
    BY <1>1, <1>2
  <2> QED
    BY <1>2, <2>1, <2>2, PartialAckCwr
<1>3. CASE /\ ~(st.cong = "RECOVERY" /\ a < st.recover)
           /\ st.cong = "CWR" \/ (st.cong = "LOSS" /\ a < st.recover)
  <2> DEFINE p == PktsAcked(st, a, segs)
  <2>1. AdvanceAck(st, a, segs, old, isDup) = NewAck(p, a, TRUE)
    BY <1>3 DEF AdvanceAck
  <2>2. Good(p, n) /\ Mute(st, p)
    BY CountingCwr
  <2> HIDE DEF p
  <2>3. Mute(p, NewAck(p, a, TRUE))
    BY <2>2, CountingCwr
  <2> QED
    BY <2>1, <2>2, <2>3, MuteKeeps
<1>4. CASE /\ ~(st.cong = "RECOVERY" /\ a < st.recover)
           /\ ~(st.cong = "CWR" \/ (st.cong = "LOSS" /\ a < st.recover))
  <2>1. AdvanceAck(st, a, segs, old, isDup) = CompleteAck(st, a, segs, old, isDup)
    BY <1>4 DEF AdvanceAck
  <2>2. /\ st.out = <<>> /\ st.cong # "CWR"
        /\ st.cong = "LOSS" => st.recover <= a
    BY <1>1, <1>4 DEF Quiet
  <2> QED
    BY <2>1, <2>2, CompleteAckCwr, MuteKeeps
<1> QED
  BY <1>2, <1>3, <1>4

LEMMA ProcessAckCwr ==
  ASSUME NEW st, NEW n, Good(st, n), st.out = <<>>,
         NEW a \in SeqNum, a = st.buf.una, NEW head \in SeqNum, head <= a,
         NEW isDup \in BOOLEAN, isDup => a < st.buf.nxt,
         NEW q \in Int, CwrOnce(st, q)
  PROVE  LET c == ProcessAck(st, a, head, isDup)
         IN  CwrOnce(c, q) /\ (head = a /\ c.cong = "CWR" => st.cong = "CWR")
<1> DEFINE dup == IF isDup THEN DupAck(st, a) ELSE st
           reset == [dup EXCEPT !.dupAckCount = 0]
           from == IF isDup THEN dup ELSE reset
<1>1. Kept(st, dup, n) /\ Quiet(dup, a)
  BY DupAckOK DEF Kept, Quiet
<1>2. CwrOnce(dup, q) /\ (dup.cong = "CWR" => st.cong = "CWR")
  BY DupAckCwr
<1>3. ProcessAck(st, a, head, isDup)
        = IF a > head THEN AdvanceAck(from, a, a - head, st.dupAckCount, isDup)
          ELSE IF a = dup.buf.nxt THEN dup
          ELSE PktsAcked(dup, a, 1)
  BY DEF ProcessAck
<1> HIDE DEF dup
<1>4. /\ dup \in Socket /\ dup.recover <= dup.buf.nxt
      /\ dup.bytesACKedECE <= dup.bytesACKedAll
  BY <1>1, ShapeFacts DEF Kept
<1>5. /\ reset \in Socket /\ Mute(dup, reset) /\ reset.buf = dup.buf
      /\ reset.out = dup.out /\ reset.recover = dup.recover /\ reset.cong = dup.cong
      /\ reset.bytesACKedAll = dup.bytesACKedAll
      /\ reset.bytesACKedECE = dup.bytesACKedECE
  BY <1>4 DEF Socket, Mute
<1> HIDE DEF reset
<1>6. Good(reset, n)
  BY <1>1, <1>4, <1>5, KeepGood DEF Kept
<1>7. Good(from, n) /\ Quiet(from, a) /\ a = from.buf.una
  BY <1>1, <1>5, <1>6 DEF Kept, Quiet
<1>8. CwrOnce(from, q)
  BY <1>2, <1>5, MuteKeeps
<1> HIDE DEF from
<1>9. a \in Int /\ head \in Int /\ st.dupAckCount \in Nat
  BY ShapeFacts DEF SeqNum, Socket
<1>10. CASE a > head
  <2>1. a - head \in Nat
    BY <1>9, <1>10
  <2>2. CwrOnce(AdvanceAck(from, a, a - head, st.dupAckCount, isDup), q)
    BY <1>7, <1>8, <1>9, <2>1, AdvanceAckCwr
  <2> QED
    BY <1>3, <1>9, <1>10, <2>2
<1>11. CASE ~(a > head)
  <2>1. Good(dup, n)
    BY <1>1 DEF Kept
  <2>2. Mute(dup, PktsAcked(dup, a, 1)) /\ PktsAcked(dup, a, 1).cong = dup.cong
    BY <2>1, CountingCwr, PktsAckedOK DEF Same
  <2>3. CwrOnce(PktsAcked(dup, a, 1), q)
    BY <1>2, <2>2, MuteKeeps
  <2> QED
    BY <1>2, <1>3, <1>11, <2>2, <2>3
<1> QED
  BY <1>10, <1>11

LEMMA ReceivedAckCwr ==
  ASSUME NEW st, NEW n, Good(st, n), st.out = <<>>,
         NEW a \in st.buf.una .. st.buf.nxt, a \notin st.buf.sacked,
         NEW blocks \in SUBSET (a + 1 .. st.buf.nxt - 1), NEW ece \in BOOLEAN,
         NEW q \in Int, CwrOnce(st, q),
         NEW c \in ReceivedAck(st, a, blocks, ece)
  PROVE  CwrOnce(c, q) /\ (a = st.buf.una /\ c.cong = "CWR" => st.cong = "CWR")
<1> DEFINE head == st.buf.una
           isDup == NewlySacked(st.buf, blocks) # {}
           b == DiscardUpTo(Update(st.buf, blocks), a)
           scored == [st EXCEPT !.buf = b]
           left == LeaveCwr(scored, a)
           isNew == a > head
           echoed == EcnEcho(left, a, isNew, ece)
           processed == ProcessAck(echoed, a, head, isDup)
<1>1. /\ st \in Socket /\ BufferOK(st.buf)
      /\ st.buf.una \in Int /\ st.buf.nxt \in Int
      /\ st.buf.una \in SeqNum /\ st.buf.nxt \in SeqNum
      /\ st.buf.nxt - st.buf.una <= RWnd
      /\ st.recover <= st.buf.nxt /\ st.bytesACKedECE <= st.bytesACKedAll
      /\ n = st.buf.nxt
  BY ShapeFacts, SilentIsAtNxt
<1>2. /\ a \in Int /\ a \in SeqNum /\ head <= a /\ a <= st.buf.nxt
      /\ st.buf.una \notin blocks /\ a \notin blocks
      /\ st.buf.nxt - a <= RWnd
  <2>1. a \in Int /\ a \in SeqNum /\ head <= a /\ a <= st.buf.nxt
    BY <1>1, SeqAssumption DEF SeqNum
  <2>2. \A s \in blocks : s \in Int /\ a < s
    BY <2>1
  <2>3. st.buf.nxt - a <= RWnd
    BY <1>1, <2>1, RWndAssumption
  <2> QED
    BY <1>1, <2>1, <2>2, <2>3
<1>3. isDup \in BOOLEAN /\ (isDup => a < st.buf.nxt)
  <2>1. NewlySacked(st.buf, blocks) \subseteq blocks
    BY DEF NewlySacked
  <2>2. \A s \in blocks : a < st.buf.nxt
    BY <1>1, <1>2
  <2> QED
    BY <2>1, <2>2
<1>4. c \in SendPendingData(processed) /\ isNew \in BOOLEAN
  BY DEF ReceivedAck
<1>5. /\ BufferOK(Update(st.buf, blocks))
      /\ Update(st.buf, blocks).una = st.buf.una
      /\ Update(st.buf, blocks).nxt = st.buf.nxt
      /\ Update(st.buf, blocks).sacked \subseteq st.buf.sacked \cup blocks
  BY <1>1, <1>2, UpdateOK
<1>6. BufferOK(b) /\ b.una = a /\ b.nxt = st.buf.nxt
  BY <1>2, <1>5, DiscardUpToOK
<1>7. b \in Buffer
  BY <1>6 DEF BufferOK
<1> HIDE DEF b, isDup, processed
<1>8. /\ scored \in Socket /\ scored.buf = b /\ scored.out = <<>>
      /\ scored.cong = st.cong /\ scored.recover = st.recover
      /\ scored.echoSeq = st.echoSeq /\ scored.cwrSeq = st.cwrSeq
      /\ scored.bytesACKedAll = st.bytesACKedAll
      /\ scored.bytesACKedECE = st.bytesACKedECE
  BY <1>1, <1>7 DEF Socket
<1> HIDE DEF scored
<1>9. Good(scored, n) /\ scored.buf.una = a
  BY <1>1, <1>2, <1>6, <1>8, SilentGood
<1>10. CwrOnce(scored, q)
  <2>1. st.echoSeq \in Int /\ st.echoSeq <= head /\ q <= st.cwrSeq
    BY <1>1 DEF CwrOnce, Socket, SeqNum, None
  <2>2. st.echoSeq <= a
    BY <1>1, <1>2, <2>1
  <2>3. DOMAIN scored.out = {}
    BY <1>8
  <2> QED
    BY <1>8, <1>9, <2>1, <2>2, <2>3 DEF CwrOnce
<1>11. CwrOnce(left, q) /\ (left.cong = "CWR" => st.cong = "CWR")
  BY <1>8, <1>10, LeaveCwrCwr, MuteKeeps
<1>12. Good(left, n) /\ left.buf = b /\ left.out = <<>>
  BY <1>8, <1>9, LeaveCwrOK
<1> HIDE DEF left
<1>13. Good(echoed, n) /\ echoed.buf = b /\ echoed.out = <<>>
  BY <1>2, <1>12, EcnEchoOK
<1>14. head = a => ~isNew
  BY <1>1, <1>2
<1>15. processed = ProcessAck(echoed, a, head, isDup)
  BY DEF processed
<1> HIDE DEF isNew
<1>16. CwrOnce(echoed, q) /\ (head = a /\ echoed.cong = "CWR" => st.cong = "CWR")
  <2>1. a = left.buf.una
    BY <1>6, <1>12
  <2> QED
    BY <1>4, <1>11, <1>12, <1>14, <2>1, EcnEchoCwr
<1> HIDE DEF echoed
<1>17. Good(processed, n)
  BY <1>1, <1>2, <1>3, <1>6, <1>13, <1>15, ProcessAckOK DEF Kept
<1>18. /\ CwrOnce(processed, q)
       /\ head = a /\ processed.cong = "CWR" => st.cong = "CWR"
  BY <1>1, <1>2, <1>3, <1>6, <1>13, <1>15, <1>16, ProcessAckCwr
<1> QED
  BY <1>4, <1>17, <1>18, SendPendingDataCwr

LEMMA ExpireCwr ==
  ASSUME NEW st, NEW n, Good(st, n), st.out = <<>>, st.retries # 0,
         NEW q \in Int, CwrOnce(st, q)
  PROVE  /\ CwrOnce(SendNext(Expire(st)), q)
         /\ SendNext(Expire(st)).cong = "LOSS"
<1> DEFINE e == Expire(st)
<1>1. st \in Socket /\ BufferOK(st.buf)
  BY ShapeFacts
<1>2. SetSentListLost(st.buf).una = st.buf.una
  BY <1>1, SetSentListLostOK
<1>3. /\ Good(e, n) /\ e.buf = SetSentListLost(st.buf) /\ e.cong = "LOSS"
      /\ e.out = <<>>
  BY ExpireOK
<1>4. e.echoSeq = st.echoSeq /\ e.cwrSeq = st.cwrSeq
  BY <1>1 DEF Expire, Socket
<1> HIDE DEF e
<1>5. CwrOnce(e, q)
  BY <1>2, <1>3, <1>4, MuteKeeps DEF Mute
<1> QED
  BY <1>3, <1>5, SendNextOK DEF Frame, e

-----------------------------------------------------------------------------
(* The inductive invariant and the steps *)

IInv == Shape(tx) /\ (Running => Timed(tx))

\* What a step does, seen from its end.
Progress ==
  /\ Good(tx', tx.buf.nxt)
  /\ Running' => Timed(tx')
  /\ tx.buf.una <= tx'.buf.una /\ tx'.buf.una <= tx.buf.nxt

LEMMA InitInv == Init => IInv
<1> SUFFICES ASSUME Init PROVE IInv
  OBVIOUS
<1>1. BufferOK(EmptyBuffer) /\ EmptyBuffer \in Buffer
  BY EmptyBufferOK DEF BufferOK
<1>2. <<>> \in Seq(Segments)
  OBVIOUS
<1>3. 1 \in SeqNum /\ DataRetries \in 0 .. DataRetries
  BY SeqAssumption, RetriesAssumption DEF SeqNum
<1> HIDE DEF None
<1>4. tx \in Socket
  BY <1>1, <1>2, <1>3 DEF Init, Socket, CongStates, EcnStates
<1>5. /\ tx.buf = EmptyBuffer /\ tx.recover = None
      /\ tx.bytesACKedECE = 0 /\ tx.bytesACKedAll = 0
  BY DEF Init
<1>6. EmptyBuffer.una = 1 /\ EmptyBuffer.nxt = 1
  BY DEF EmptyBuffer
<1>7. Shape(tx)
  BY <1>1, <1>4, <1>5, <1>6, RWndAssumption DEF Shape, None
<1> QED
  BY <1>5, <1>6, <1>7 DEF IInv, Timed

LEMMA IdleOK ==
  ASSUME Shape(tx)
  PROVE  /\ Good(Idle, tx.buf.nxt)
         /\ Idle.buf = tx.buf /\ Idle.out = <<>> /\ Idle.retx = tx.retx
         /\ Idle.retries = tx.retries /\ Idle.fault = tx.fault /\ Idle.closed = tx.closed
<1>1. <<>> \in Seq(Segments)
  OBVIOUS
<1>2. tx \in Socket
  BY DEF Shape
<1>3. /\ Idle \in Socket /\ Idle.buf = tx.buf /\ Idle.out = <<>> /\ Idle.retx = tx.retx
      /\ Idle.retries = tx.retries /\ Idle.fault = tx.fault /\ Idle.closed = tx.closed
      /\ Idle.recover = tx.recover
      /\ Idle.bytesACKedAll = tx.bytesACKedAll /\ Idle.bytesACKedECE = tx.bytesACKedECE
  BY <1>1, <1>2 DEF Idle, Socket
<1> QED
  BY <1>3, SilentGood DEF Shape

LEMMA WriteStep ==
  ASSUME IInv, Write
  PROVE  Progress
<1> DEFINE b == Add(tx.buf)
           w == [Idle EXCEPT !.buf = Add(@)]
<1>1. Shape(tx) /\ Running /\ Timed(tx) /\ tx.buf.tail <= MaxSeq
  BY DEF IInv, Write
<1>2. /\ Good(Idle, tx.buf.nxt) /\ Idle.buf = tx.buf /\ Idle.out = <<>>
      /\ Idle.retx = tx.retx
  BY <1>1, IdleOK
<1>3. /\ Idle \in Socket /\ Idle.recover <= tx.buf.nxt
      /\ Idle.bytesACKedECE <= Idle.bytesACKedAll
      /\ tx.buf.nxt - tx.buf.una <= RWnd /\ BufferOK(tx.buf)
      /\ tx.buf.una \in Int /\ tx.buf.nxt \in Int /\ tx.buf.una <= tx.buf.nxt
  BY <1>2, ShapeFacts
<1>4. BufferOK(b) /\ b.una = tx.buf.una /\ b.nxt = tx.buf.nxt
  BY <1>1, <1>3, AddOK
<1>5. b \in Buffer
  BY <1>4 DEF BufferOK
<1>6. w = [Idle EXCEPT !.buf = b]
  BY <1>2
<1>7. tx' \in SendPendingData(w)
  BY DEF Write
<1> HIDE DEF b, w
<1>8. /\ w \in Socket /\ w.buf = b /\ w.out = <<>> /\ w.recover = Idle.recover
      /\ w.retx = tx.retx
      /\ w.bytesACKedAll = Idle.bytesACKedAll /\ w.bytesACKedECE = Idle.bytesACKedECE
  BY <1>2, <1>3, <1>5, <1>6 DEF Socket
<1>9. Good(w, tx.buf.nxt)
  BY <1>3, <1>4, <1>8, SilentGood
<1>10. Timed(w)
  BY <1>1, <1>4, <1>8 DEF Timed
<1>11. Good(tx', tx.buf.nxt) /\ Timed(tx') /\ tx'.buf.una = tx.buf.una
  BY <1>4, <1>7, <1>8, <1>9, <1>10, SendPendingDataOK
<1> QED
  BY <1>3, <1>11 DEF Progress

LEMMA ReceiveAckStep ==
  ASSUME IInv, ReceiveAck
  PROVE  Progress
<1>1. Shape(tx) /\ Timed(tx)
  BY DEF IInv, ReceiveAck
<1>2. /\ Good(Idle, tx.buf.nxt) /\ Idle.buf = tx.buf /\ Idle.out = <<>>
      /\ Idle.retx = tx.retx
  BY <1>1, IdleOK
<1>3. PICK a \in (tx.buf.una .. tx.buf.nxt) \ tx.buf.sacked, ece \in Echoes :
        \E blocks \in SUBSET (a + 1 .. tx.buf.nxt - 1) :
          tx' \in ReceivedAck(Idle, a, blocks, ece)
  BY DEF ReceiveAck
<1>4. PICK blocks \in SUBSET (a + 1 .. tx.buf.nxt - 1) :
      tx' \in ReceivedAck(Idle, a, blocks, ece)
  BY <1>3
<1>5. Timed(Idle)
  BY <1>1, <1>2 DEF Timed
<1>6. tx.buf.una \in Int /\ tx.buf.nxt \in Int
  BY <1>2, ShapeFacts
<1> HIDE DEF Idle
<1>7. Good(tx', tx.buf.nxt) /\ Timed(tx') /\ tx'.buf.una = a
  BY <1>2, <1>3, <1>4, <1>5, ReceivedAckOK
<1> QED
  BY <1>3, <1>6, <1>7 DEF Progress

LEMMA ReTxTimeoutStep ==
  ASSUME IInv, ReTxTimeout
  PROVE  Progress
<1> DEFINE x == [Idle EXCEPT !.retx = FALSE]
           down == [x EXCEPT !.closed = TRUE]
<1>1. Shape(tx) /\ Running
  BY DEF IInv, ReTxTimeout
<1>2. /\ Good(Idle, tx.buf.nxt) /\ Idle.buf = tx.buf /\ Idle.out = <<>>
      /\ Idle.retries = tx.retries /\ Idle.fault = tx.fault /\ Idle.closed = tx.closed
  BY <1>1, IdleOK
<1>3. /\ Idle \in Socket /\ Idle.recover <= tx.buf.nxt
      /\ Idle.bytesACKedECE <= Idle.bytesACKedAll
      /\ tx.buf.una \in Int /\ tx.buf.nxt \in Int /\ tx.buf.tail \in Int
      /\ tx.buf.una <= tx.buf.nxt /\ tx.buf.nxt <= tx.buf.tail
  BY <1>2, ShapeFacts
<1>4. \/ Size(tx.buf) = 0 /\ tx' = x
      \/ Size(tx.buf) # 0 /\ tx.retries = 0 /\ tx' = down
      \/ Size(tx.buf) # 0 /\ tx.retries # 0 /\ tx' = SendNext(Expire(x))
  BY DEF ReTxTimeout
<1>5. /\ x \in Socket /\ x.buf = tx.buf /\ x.out = <<>> /\ x.recover = Idle.recover
      /\ x.cong = Idle.cong /\ x.retries = tx.retries /\ x.fault = tx.fault
      /\ x.bytesACKedAll = Idle.bytesACKedAll /\ x.bytesACKedECE = Idle.bytesACKedECE
  BY <1>2, <1>3 DEF Socket
<1> HIDE DEF x
<1>6. Good(x, tx.buf.nxt)
  BY <1>2, <1>3, <1>5, KeepGood
<1>7. CASE Size(tx.buf) = 0 /\ tx' = x
  <2>1. Timed(x)
    BY <1>3, <1>5, <1>7 DEF Timed, Size
  <2> QED
    BY <1>3, <1>5, <1>6, <1>7, <2>1 DEF Progress
<1>8. CASE Size(tx.buf) # 0 /\ tx.retries = 0 /\ tx' = down
  <2>1. /\ down \in Socket /\ down.buf = tx.buf /\ down.out = <<>>
        /\ down.recover = x.recover /\ down.cong = x.cong /\ down.closed = TRUE
        /\ down.bytesACKedAll = x.bytesACKedAll /\ down.bytesACKedECE = x.bytesACKedECE
    BY <1>5 DEF Socket
  <2> HIDE DEF down
  <2>2. Good(down, tx.buf.nxt)
    BY <1>3, <1>5, <1>6, <2>1, KeepGood
  <2> QED
    BY <1>3, <1>8, <2>1, <2>2 DEF Progress, Running
<1>9. CASE Size(tx.buf) # 0 /\ tx.retries # 0 /\ tx' = SendNext(Expire(x))
  <2>1. ~x.fault /\ x.retries # 0
    BY <1>1, <1>5, <1>9 DEF Running
  <2>2. /\ Good(Expire(x), tx.buf.nxt) /\ Expire(x).buf = SetSentListLost(x.buf)
    BY <1>5, <1>6, <2>1, ExpireOK
  <2>3. Expire(x).buf.una = tx.buf.una
    <3>1. BufferOK(x.buf)
      BY <1>6, ShapeFacts
    <3>2. SetSentListLost(x.buf).una = x.buf.una
      BY <3>1, SetSentListLostOK
    <3> QED
      BY <1>5, <2>2, <3>2
  <2>4. Good(tx', tx.buf.nxt) /\ tx'.buf.una = Expire(x).buf.una
    BY <1>9, <2>2, SendNextOK DEF Frame
  <2>5. Timed(tx')
    BY <1>5, <1>6, <1>9, <2>1, ResendRestartsTimer
  <2> QED
    BY <1>3, <2>3, <2>4, <2>5 DEF Progress
<1> QED
  BY <1>4, <1>7, <1>8, <1>9

LEMMA NextProgress == IInv /\ Next => Progress
BY WriteStep, ReceiveAckStep, ReTxTimeoutStep DEF Next

LEMMA NextInv == IInv /\ [Next]_vars => IInv'
<1>1. Progress => IInv'
  BY DEF Progress, Good, IInv
<1>2. UNCHANGED vars /\ IInv => IInv'
  BY DEF vars, IInv, Running
<1> QED
  BY <1>1, <1>2, NextProgress

THEOREM InvHolds == Spec => []IInv
BY InitInv, NextInv, PTL DEF Spec

-----------------------------------------------------------------------------
(* The steps and the recovery point *)

LEMMA IdleAhead ==
  ASSUME Shape(tx), Ahead(tx)
  PROVE  Ahead(Idle)
<1>1. tx \in Socket
  BY DEF Shape
<1>2. Stays(tx, Idle)
  BY <1>1 DEF Idle, Socket, Stays
<1> QED
  BY <1>2, StaysKeeps

LEMMA WriteAhead ==
  ASSUME IInv, Ahead(tx), Write
  PROVE  Ahead(tx')
<1> DEFINE b == Add(tx.buf)
           w == [Idle EXCEPT !.buf = Add(@)]
<1>1. Shape(tx) /\ tx.buf.tail <= MaxSeq
  BY DEF IInv, Write
<1>2. Good(Idle, tx.buf.nxt) /\ Idle.buf = tx.buf /\ Idle.out = <<>> /\ Ahead(Idle)
  BY <1>1, IdleOK, IdleAhead
<1>3. /\ Idle \in Socket /\ Idle.recover <= tx.buf.nxt
      /\ Idle.bytesACKedECE <= Idle.bytesACKedAll
      /\ tx.buf.nxt - tx.buf.una <= RWnd /\ BufferOK(tx.buf)
  BY <1>2, ShapeFacts
<1>4. BufferOK(b) /\ b.una = tx.buf.una /\ b.nxt = tx.buf.nxt
  BY <1>1, <1>3, AddOK
<1>5. b \in Buffer
  BY <1>4 DEF BufferOK
<1>6. w = [Idle EXCEPT !.buf = b]
  BY <1>2
<1>7. tx' \in SendPendingData(w)
  BY DEF Write
<1> HIDE DEF b, w
<1>8. /\ w \in Socket /\ w.buf = b /\ w.out = <<>> /\ w.recover = Idle.recover
      /\ w.cong = Idle.cong /\ w.recoverActive = Idle.recoverActive
      /\ w.cwrPoint = Idle.cwrPoint
      /\ w.bytesACKedAll = Idle.bytesACKedAll /\ w.bytesACKedECE = Idle.bytesACKedECE
  BY <1>2, <1>3, <1>5, <1>6 DEF Socket
<1>9. Good(w, tx.buf.nxt)
  BY <1>3, <1>4, <1>8, SilentGood
<1>10. Stays(Idle, w)
  BY <1>2, <1>4, <1>8 DEF Stays
<1>11. Stays(w, tx')
  BY <1>7, <1>9, SendPendingDataStays
<1> QED
  BY <1>2, <1>10, <1>11, StaysKeeps

LEMMA ReceiveAckAhead ==
  ASSUME IInv, Ahead(tx), ReceiveAck
  PROVE  Ahead(tx')
<1>1. Shape(tx)
  BY DEF IInv
<1>2. Good(Idle, tx.buf.nxt) /\ Idle.buf = tx.buf /\ Idle.out = <<>> /\ Ahead(Idle)
  BY <1>1, IdleOK, IdleAhead
<1>3. PICK a \in (tx.buf.una .. tx.buf.nxt) \ tx.buf.sacked, ece \in Echoes :
        \E blocks \in SUBSET (a + 1 .. tx.buf.nxt - 1) :
          tx' \in ReceivedAck(Idle, a, blocks, ece)
  BY DEF ReceiveAck
<1>4. PICK blocks \in SUBSET (a + 1 .. tx.buf.nxt - 1) :
      tx' \in ReceivedAck(Idle, a, blocks, ece)
  BY <1>3
<1>5. ece \in BOOLEAN
  BY EchoAssumption
<1> HIDE DEF Idle
<1> QED
  BY <1>2, <1>3, <1>4, <1>5, ReceivedAckAhead

LEMMA ReTxTimeoutAhead ==
  ASSUME IInv, Ahead(tx), ReTxTimeout
  PROVE  Ahead(tx')
<1> DEFINE x == [Idle EXCEPT !.retx = FALSE]
           down == [x EXCEPT !.closed = TRUE]
<1>1. Shape(tx)
  BY DEF IInv
<1>2. /\ Good(Idle, tx.buf.nxt) /\ Idle.buf = tx.buf /\ Idle.out = <<>>
      /\ Idle.retries = tx.retries /\ Ahead(Idle)
  BY <1>1, IdleOK, IdleAhead
<1>3. /\ Idle \in Socket /\ Idle.recover <= tx.buf.nxt
      /\ Idle.bytesACKedECE <= Idle.bytesACKedAll
  BY <1>2, ShapeFacts
<1>4. \/ tx' = x
      \/ tx' = down
      \/ tx.retries # 0 /\ tx' = SendNext(Expire(x))
  BY DEF ReTxTimeout
<1>5. /\ x \in Socket /\ x.buf = tx.buf /\ x.out = <<>> /\ x.recover = Idle.recover
      /\ x.cong = Idle.cong /\ x.retries = tx.retries /\ Stays(Idle, x)
      /\ x.bytesACKedAll = Idle.bytesACKedAll /\ x.bytesACKedECE = Idle.bytesACKedECE
  BY <1>2, <1>3 DEF Socket, Stays
<1> HIDE DEF x
<1>6. Good(x, tx.buf.nxt)
  BY <1>2, <1>3, <1>5, KeepGood
<1>7. Ahead(x)
  BY <1>2, <1>5, StaysKeeps
<1>8. Stays(x, down)
  BY <1>5 DEF Socket, Stays
<1> HIDE DEF down
<1>9. tx.retries # 0 => Ahead(SendNext(Expire(x)))
  BY <1>5, <1>6, <1>7, ExpireAhead DEF Ahead
<1> QED
  BY <1>4, <1>7, <1>8, <1>9, StaysKeeps

LEMMA AheadHolds == Spec => []Ahead(tx)
<1>1. Init => Ahead(tx)
  BY DEF Init, Ahead, Reduced, EmptyBuffer, None
<1>2. IInv /\ Ahead(tx) /\ [Next]_vars => Ahead(tx)'
  BY WriteAhead, ReceiveAckAhead, ReTxTimeoutAhead DEF Next, vars, Ahead, Reduced
<1> QED
  BY <1>1, <1>2, InvHolds, PTL DEF Spec

-----------------------------------------------------------------------------
(* The steps and the echo *)

\* What a step says to the peer, and when it may start a reduction.
Answers ==
  /\ CwrOnce(tx', tx.cwrSeq)
  /\ tx'.cong = "CWR" /\ tx.cong # "CWR" => tx.buf.una < tx'.buf.una

LEMMA IdleCwr ==
  ASSUME Shape(tx), tx.echoSeq <= tx.buf.una
  PROVE  /\ CwrOnce(Idle, tx.cwrSeq) /\ Idle.cong = tx.cong
         /\ tx.cwrSeq \in Int
<1>1. tx \in Socket
  BY DEF Shape
<1>2. /\ Idle.buf = tx.buf /\ Idle.out = <<>> /\ Idle.cong = tx.cong
      /\ Idle.echoSeq = tx.echoSeq /\ Idle.cwrSeq = tx.cwrSeq
  BY <1>1 DEF Idle, Socket
<1>3. tx.cwrSeq \in Int /\ tx.cwrSeq <= tx.cwrSeq
  BY <1>1 DEF Socket, Seg, None
<1>4. DOMAIN Idle.out = {}
  BY <1>2
<1> QED
  BY <1>2, <1>3, <1>4 DEF CwrOnce

LEMMA WriteAnswers ==
  ASSUME IInv, tx.echoSeq <= tx.buf.una, Write
  PROVE  Answers
<1> DEFINE b == Add(tx.buf)
           w == [Idle EXCEPT !.buf = Add(@)]
<1>1. Shape(tx) /\ tx.buf.tail <= MaxSeq
  BY DEF IInv, Write
<1>2. /\ Good(Idle, tx.buf.nxt) /\ Idle.buf = tx.buf /\ Idle.out = <<>>
      /\ CwrOnce(Idle, tx.cwrSeq) /\ Idle.cong = tx.cong /\ tx.cwrSeq \in Int
  BY <1>1, IdleOK, IdleCwr
<1>3. /\ Idle \in Socket /\ Idle.recover <= tx.buf.nxt
      /\ Idle.bytesACKedECE <= Idle.bytesACKedAll
      /\ tx.buf.nxt - tx.buf.una <= RWnd /\ BufferOK(tx.buf)
  BY <1>2, ShapeFacts
<1>4. BufferOK(b) /\ b.una = tx.buf.una /\ b.nxt = tx.buf.nxt
  BY <1>1, <1>3, AddOK
<1>5. b \in Buffer
  BY <1>4 DEF BufferOK
<1>6. w = [Idle EXCEPT !.buf = b]
  BY <1>2
<1>7. tx' \in SendPendingData(w)
  BY DEF Write
<1> HIDE DEF b, w
<1>8. /\ w \in Socket /\ w.buf = b /\ w.out = <<>> /\ w.recover = Idle.recover
      /\ w.cong = Idle.cong /\ w.echoSeq = Idle.echoSeq /\ w.cwrSeq = Idle.cwrSeq
      /\ w.bytesACKedAll = Idle.bytesACKedAll /\ w.bytesACKedECE = Idle.bytesACKedECE
  BY <1>2, <1>3, <1>5, <1>6 DEF Socket
<1>9. Good(w, tx.buf.nxt)
  BY <1>3, <1>4, <1>8, SilentGood
<1>10. CwrOnce(w, tx.cwrSeq)
  BY <1>2, <1>4, <1>8, MuteKeeps DEF Mute
<1>11. CwrOnce(tx', tx.cwrSeq) /\ tx'.cong = w.cong
  BY <1>2, <1>7, <1>9, <1>10, SendPendingDataCwr
<1> QED
  BY <1>2, <1>8, <1>11 DEF Answers

LEMMA ReceiveAckAnswers ==
  ASSUME IInv, tx.echoSeq <= tx.buf.una, ReceiveAck
  PROVE  Answers
<1>1. Shape(tx) /\ Timed(tx)
  BY DEF IInv, ReceiveAck
<1>2. /\ Good(Idle, tx.buf.nxt) /\ Idle.buf = tx.buf /\ Idle.out = <<>>
      /\ CwrOnce(Idle, tx.cwrSeq) /\ Idle.cong = tx.cong /\ tx.cwrSeq \in Int
      /\ Timed(Idle)
  BY <1>1, IdleOK, IdleCwr DEF Timed
<1>3. PICK a \in (tx.buf.una .. tx.buf.nxt) \ tx.buf.sacked, ece \in Echoes :
        \E blocks \in SUBSET (a + 1 .. tx.buf.nxt - 1) :
          tx' \in ReceivedAck(Idle, a, blocks, ece)
  BY DEF ReceiveAck
<1>4. PICK blocks \in SUBSET (a + 1 .. tx.buf.nxt - 1) :
      tx' \in ReceivedAck(Idle, a, blocks, ece)
  BY <1>3
<1>5. ece \in BOOLEAN
  BY EchoAssumption
<1>6. tx.buf.una \in Int /\ tx.buf.nxt \in Int
  BY <1>2, ShapeFacts
<1> HIDE DEF Idle
<1>7. /\ CwrOnce(tx', tx.cwrSeq)
      /\ a = tx.buf.una /\ tx'.cong = "CWR" => tx.cong = "CWR"
  BY <1>2, <1>3, <1>4, <1>5, ReceivedAckCwr
<1>8. tx'.buf.una = a
  BY <1>2, <1>3, <1>4, ReceivedAckOK
<1>9. a # tx.buf.una => tx.buf.una < a
  BY <1>3, <1>6
<1> QED
  BY <1>7, <1>8, <1>9 DEF Answers

LEMMA ReTxTimeoutAnswers ==
  ASSUME IInv, tx.echoSeq <= tx.buf.una, ReTxTimeout
  PROVE  Answers
<1> DEFINE x == [Idle EXCEPT !.retx = FALSE]
           down == [x EXCEPT !.closed = TRUE]
<1>1. Shape(tx)
  BY DEF IInv
<1>2. /\ Good(Idle, tx.buf.nxt) /\ Idle.buf = tx.buf /\ Idle.out = <<>>
      /\ CwrOnce(Idle, tx.cwrSeq) /\ Idle.cong = tx.cong /\ tx.cwrSeq \in Int
      /\ Idle.retries = tx.retries
  BY <1>1, IdleOK, IdleCwr
<1>3. /\ Idle \in Socket /\ Idle.recover <= tx.buf.nxt
      /\ Idle.bytesACKedECE <= Idle.bytesACKedAll
  BY <1>2, ShapeFacts
<1>4. \/ tx' = x
      \/ tx' = down
      \/ tx.retries # 0 /\ tx' = SendNext(Expire(x))
  BY DEF ReTxTimeout
<1>5. /\ x \in Socket /\ x.buf = tx.buf /\ x.out = <<>> /\ x.recover = Idle.recover
      /\ x.cong = Idle.cong /\ x.retries = tx.retries /\ Mute(Idle, x)
      /\ x.bytesACKedAll = Idle.bytesACKedAll /\ x.bytesACKedECE = Idle.bytesACKedECE
  BY <1>2, <1>3 DEF Socket, Mute
<1> HIDE DEF x
<1>6. Good(x, tx.buf.nxt)
  BY <1>2, <1>3, <1>5, KeepGood
<1>7. CwrOnce(x, tx.cwrSeq)
  BY <1>2, <1>5, MuteKeeps
<1>8. Mute(x, down) /\ down.cong = x.cong
  BY <1>5 DEF Socket, Mute
<1> HIDE DEF down
<1>9. tx.retries # 0 => /\ CwrOnce(SendNext(Expire(x)), tx.cwrSeq)
                        /\ SendNext(Expire(x)).cong = "LOSS"
  BY <1>2, <1>5, <1>6, <1>7, ExpireCwr
<1> QED
  BY <1>2, <1>4, <1>5, <1>7, <1>8, <1>9, MuteKeeps DEF Answers

LEMMA NextAnswers == IInv /\ tx.echoSeq <= tx.buf.una /\ Next => Answers
BY WriteAnswers, ReceiveAckAnswers, ReTxTimeoutAnswers DEF Next

LEMMA EchoReached == Spec => [](tx.echoSeq <= tx.buf.una)
<1>1. Init => tx.echoSeq <= tx.buf.una
  BY DEF Init, EmptyBuffer, None
<1>2. IInv /\ tx.echoSeq <= tx.buf.una /\ [Next]_vars => (tx.echoSeq <= tx.buf.una)'
  BY NextAnswers DEF Answers, CwrOnce, vars
<1> QED
  BY <1>1, <1>2, InvHolds, PTL DEF Spec

-----------------------------------------------------------------------------
(* Theorems *)

\* The socket never leaves its type: no segment is sent that was not written.
THEOREM TypeCorrect == Spec => []TypeOK
<1>1. IInv => TypeOK
  BY DEF IInv, Shape, TypeOK
<1> QED
  BY <1>1, InvHolds, PTL

\* The totals of the scoreboard are the numbers of flags, for every window and
\* every order of ACKs, SACK blocks, retransmissions and timeouts.
THEOREM TotalsCorrect == Spec => []CountersInSync
<1>1. IInv => CountersInSync
  BY DEF IInv, Shape, BufferOK, Counted, CountersInSync
<1> QED
  BY <1>1, InvHolds, PTL

\* The flags always describe the list of sent segments.
THEOREM ScoreboardCorrect == Spec => []ScoreboardSound
<1>1. IInv => ScoreboardSound
  BY DEF IInv, Shape, BufferOK, Placed, ScoreboardSound
<1> QED
  BY <1>1, InvHolds, PTL

\* An episode always has an end to reach: the recovery point of a fast recovery is
\* ahead of the head, that of a reduction or a timeout is not behind it, and none is
\* beyond what was sent (EnterRecovery, EnterCwr, ReTxTimeout, ProcessAck).
THEOREM RecoveryPointCorrect == Spec => []RecoveryPointAhead
<1>1. IInv /\ Ahead(tx) => RecoveryPointAhead
  BY DEF IInv, Shape, Ahead, RecoveryPointAhead
<1> QED
  BY <1>1, InvHolds, AheadHolds, PTL

\* DCTCP's fraction of marked bytes never exceeds one.
THEOREM FractionCorrect == Spec => []FractionIsFraction
<1>1. IInv => FractionIsFraction
  BY DEF IInv, Shape, FractionIsFraction
<1> QED
  BY <1>1, InvHolds, PTL

\* Outstanding data always has a retransmission timer.
THEOREM TimerRuns == Spec => []OutstandingHasTimer
<1>1. IInv => OutstandingHasTimer
  BY DEF IInv, Timed, OutstandingHasTimer
<1> QED
  BY <1>1, InvHolds, PTL

\* Nothing the peer reported is sent again, and outside a fast recovery only what
\* is marked lost is.
THEOREM ResendsCorrect == Spec => ResendsOnlyMissing
<1>1. IInv /\ [Next]_vars
        => [\A i \in DOMAIN tx'.out :
              /\ tx'.out[i].seq \notin tx'.buf.sacked
              /\ tx'.out[i].retrans /\ tx'.cong # "RECOVERY"
                   => tx'.out[i].seq \in tx'.buf.lost]_vars
  BY NextProgress DEF Progress, Good, OldIsMissing
<1> QED
  BY <1>1, InvHolds, PTL DEF Spec, ResendsOnlyMissing

\* A reduction for an ECE waits until everything outstanding at the last one is
\* acknowledged: once per window of data.
THEOREM ReductionsArePerWindow == Spec => ReducesOncePerWindow
<1>1. ASSUME IInv, Ahead(tx), tx.echoSeq <= tx.buf.una, Next,
             tx.cong \in {"OPEN", "DISORDER"}, tx'.cong = "CWR"
      PROVE  tx'.buf.una > tx.cwrPoint
  <2>1. tx.buf.una < tx'.buf.una
    BY <1>1, NextAnswers DEF Answers
  <2>2. tx.cwrPoint <= tx.buf.una
    BY <1>1 DEF Ahead, Reduced
  <2>3. tx.cwrPoint \in Int /\ tx.buf.una \in Int
    BY <1>1, SegOfList DEF IInv, Shape, Socket, SeqNum, None
  <2>4. tx'.buf.una \in Int
    BY <1>1, NextProgress, ShapeFacts DEF Progress
  <2> QED
    BY <2>1, <2>2, <2>3, <2>4
<1>2. IInv /\ Ahead(tx) /\ tx.echoSeq <= tx.buf.una /\ [Next]_vars
        => [tx.cong \in {"OPEN", "DISORDER"} /\ tx'.cong = "CWR"
              => tx'.buf.una > tx.cwrPoint]_vars
  BY <1>1
<1> QED
  BY <1>2, InvHolds, AheadHolds, EchoReached, PTL DEF Spec, ReducesOncePerWindow

\* CWR is set on new data only, and not again before the segment that carried the
\* last one is acknowledged.
THEOREM CwrIsPerWindow == Spec => CwrOncePerWindow
<1>1. ASSUME IInv, tx.echoSeq <= tx.buf.una, Next,
             NEW i \in DOMAIN tx'.out, tx'.out[i].cwr
      PROVE  ~tx'.out[i].retrans /\ tx'.buf.una > tx.cwrSeq
  <2>1. ~tx'.out[i].retrans /\ tx.cwrSeq < tx'.buf.una
    BY <1>1, NextAnswers DEF Answers, CwrOnce
  <2>2. tx.cwrSeq \in Int /\ tx'.buf.una \in Int
    BY <1>1, NextProgress, ShapeFacts DEF Progress, IInv, Shape, Socket, Seg, None
  <2> QED
    BY <2>1, <2>2
<1>2. IInv /\ tx.echoSeq <= tx.buf.una /\ [Next]_vars
        => [\A i \in DOMAIN tx'.out :
              tx'.out[i].cwr => ~tx'.out[i].retrans /\ tx'.buf.una > tx.cwrSeq]_vars
  BY <1>1
<1> QED
  BY <1>2, InvHolds, EchoReached, PTL DEF Spec, CwrOncePerWindow

LEMMA WindowStep ==
  ASSUME IInv, [Next]_vars
  PROVE  [Window!Step]_(Window!vars)
<1>1. CASE UNCHANGED vars
  BY <1>1 DEF vars, Window!vars
<1>2. CASE Next
  <2>1. Progress
    BY <1>2, NextProgress
  <2>2. /\ tx.buf.una \in Int /\ tx.buf.nxt \in Int
    BY SegOfList DEF IInv, Shape, SeqNum
  <2>3. /\ tx'.buf.una \in Int /\ tx'.buf.nxt \in SeqNum /\ tx'.buf.nxt \in Int
        /\ tx.buf.nxt <= tx'.buf.nxt /\ tx'.buf.nxt - tx'.buf.una <= RWnd
    BY <2>1, ShapeFacts DEF Progress, Good
  <2>4. tx'.buf.una \in tx.buf.una .. tx.buf.nxt
    BY <2>1, <2>2, <2>3 DEF Progress
  <2>5. tx'.buf.nxt \in tx.buf.nxt .. MaxSeq + 1
    BY <2>2, <2>3, SeqAssumption DEF SeqNum
  <2>6. \A i \in DOMAIN tx'.out :
          IF tx'.out[i].retrans THEN tx'.out[i].seq \in tx'.buf.una .. tx'.buf.nxt - 1
          ELSE tx'.out[i].seq \in tx.buf.nxt .. tx'.buf.nxt - 1
    BY <2>1 DEF Progress, Good, NewInOrder, OldIsMissing, Sent
  <2>7. \A s \in tx.buf.nxt .. tx'.buf.nxt - 1 :
          \E i \in DOMAIN tx'.out :
            /\ tx'.out[i].seq = s /\ ~tx'.out[i].retrans
            /\ \A j \in DOMAIN tx'.out :
                 j # i /\ ~tx'.out[j].retrans => (j < i <=> tx'.out[j].seq < s)
    BY <2>1 DEF Progress, Good, NewInOrder
  <2> QED
    BY <2>3, <2>4, <2>5, <2>6, <2>7 DEF Window!Step
<1> QED
  BY <1>1, <1>2

\* The whole sender, with its recoveries, reductions and timeouts, implements the
\* window protocol.
THEOREM SenderImplementsWindow == Spec => ImplementsWindow
<1>1. Init => Window!Init
  BY DEF Init, EmptyBuffer, Window!Init
<1>2. IInv /\ [Next]_vars => [Window!Step]_(Window!vars)
  BY WindowStep
<1> QED
  BY <1>1, <1>2, InvHolds, PTL DEF Spec, Window!Spec, ImplementsWindow
=============================================================================
