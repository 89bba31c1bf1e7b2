---------------------------- MODULE DctcpWindow ----------------------------
(***************************************************************************)
(* The congestion window of an ESTABLISHED DCTCP sender in bytes: the      *)
(* increase of TcpLinuxReno, the reduction of TcpDctcpMy, the proportional *)
(* rate reduction of TcpPrrRecovery that carries it out, and how the       *)
(* socket's CWR and LOSS states drive them.                                *)
(*                                                                         *)
(* The application writes whole segments.  Segments arrive in order; only  *)
(* the last ones outstanding can be lost, and the retransmission timer may *)
(* also expire without a loss.  So no ACK carries SACK blocks, and what    *)
(* the timer marked lost is always the end of what is outstanding.         *)
(***************************************************************************)
EXTENDS Integers

CONSTANTS
  SegmentSize,
  InitialCwnd,   \* m_initialCWnd, in segments
  RWnd,          \* the window the peer advertises, in bytes
  TxBufferSize,  \* m_maxBuffer, in bytes
  AlphaSteps,    \* alpha is a multiple of 1 / AlphaSteps
  Word,          \* integers of the window arithmetic are below it: 2^32
  MaxCwnd        \* bound on the window, and its first slow start threshold

ASSUME WindowAssumption ==
  /\ {SegmentSize, InitialCwnd, RWnd, TxBufferSize, AlphaSteps, Word} \subseteq Nat \ {0}
  /\ MaxCwnd \in Nat /\ MaxCwnd < Word

VARIABLE w
vars == <<w>>

CongStates == {"OPEN", "CWR", "LOSS"}

\* flight, lost and unsent are the bytes of the transmission buffer, in this order;
\* toRecover is m_recover - HeadSequence.  History: "share" is a use of
\* PRR's share that was no reduction, "timedOut" a timeout.
Window ==
  [cong: CongStates, cWnd: Nat, ssThresh: Nat, cWndCnt: Nat,
   flight: Nat, lost: Nat, unsent: Nat, toRecover: Int,
   prrOut: Nat, prrDelivered: 0 .. Word - 1, recoveryFlightSize: Nat,
   sendPending: BOOLEAN, retx: BOOLEAN, share: BOOLEAN, timedOut: BOOLEAN]

Larger(a, b) == IF a < b THEN b ELSE a
Smaller(a, b) == IF a < b THEN a ELSE b
Ceiling(a, b) == -((-a) \div b)

WholeSegments(bytes) == bytes - (bytes % SegmentSize)

UnAckDataCount(s) == s.flight + s.lost
AvailableWindow(s) == Larger(0, Smaller(RWnd, s.cWnd) - s.flight)

-----------------------------------------------------------------------------
(* The window algorithms. *)

\* TcpDctcpMy: alpha is any value it may have by now.
GetSsThresh(s, alpha) == ((2 * AlphaSteps - alpha) * s.cWnd) \div (2 * AlphaSteps)

SlowStart(s, segs) ==
  IF segs = 0 THEN s
  ELSE [s EXCEPT !.cWnd = Smaller(@ + segs * SegmentSize, s.ssThresh)]

CongestionAvoidance(s, segs) ==
  LET n == Larger(1, s.cWnd \div SegmentSize)
      overdue == IF s.cWndCnt >= n THEN 1 ELSE 0
      count == (IF overdue = 1 THEN 0 ELSE s.cWndCnt) + segs
  IN  [s EXCEPT !.cWnd = @ + (overdue + count \div n) * SegmentSize,
                !.cWndCnt = count % n]

IncreaseWindow(s, segs) ==
  IF s.cWnd < s.ssThresh THEN SlowStart(s, segs) ELSE CongestionAvoidance(s, segs)

\* The share of ssThresh, a product of 32 bits, and the slow start reduction bound.
ProportionalCount(s, delivered) ==
  Ceiling((delivered * s.ssThresh) % Word, s.recoveryFlightSize) - s.prrOut
BoundedCount(s, bytes) == Smaller(bytes, s.ssThresh - s.flight)

\* Faulty variant: the bytes delivered are not added up.
DoRecoveryForgets(s, bytes) ==
  LET above == s.flight > s.ssThresh
      count == IF ~above THEN BoundedCount(s, bytes)
               ELSE IF s.recoveryFlightSize = 0 THEN 0
               ELSE ProportionalCount(s, bytes)
      forced == IF s.prrOut > 0 THEN 0 ELSE SegmentSize
  IN  [s EXCEPT !.prrDelivered = bytes,
                !.cWnd = s.flight + Larger(count, forced),
                !.share = @ \/ (above /\ s.ssThresh >= s.recoveryFlightSize)]

DoRecovery(s, bytes) ==
  LET delivered == (s.prrDelivered + bytes) % Word
      above == s.flight > s.ssThresh
      count == IF ~above THEN BoundedCount(s, bytes)
               ELSE IF s.recoveryFlightSize = 0 THEN 0
               ELSE ProportionalCount(s, delivered)
      forced == IF s.prrOut > 0 THEN 0 ELSE SegmentSize
  IN  [s EXCEPT !.prrDelivered = delivered,
                !.cWnd = s.flight + Larger(count, forced),
                !.share = @ \/ (above /\ s.ssThresh >= s.recoveryFlightSize)]

\* Faulty variants: the flight size or the counters of the last reduction kept.
EnterCwrKeepsFlight(s, alpha, bytes) ==
  DoRecovery([s EXCEPT !.cong = "CWR",
                       !.ssThresh = GetSsThresh(s, alpha),
                       !.toRecover = UnAckDataCount(s),
                       !.prrOut = 0,
                       !.prrDelivered = 0], bytes)

EnterCwrKeepsCounts(s, alpha, bytes) ==
  DoRecovery([s EXCEPT !.cong = "CWR",
                       !.ssThresh = GetSsThresh(s, alpha),
                       !.toRecover = UnAckDataCount(s),
                       !.recoveryFlightSize = UnAckDataCount(s)], bytes)

EnterCwr(s, alpha, bytes) ==
  DoRecovery([s EXCEPT !.cong = "CWR",
                       !.ssThresh = GetSsThresh(s, alpha),
                       !.toRecover = UnAckDataCount(s),
                       !.prrOut = 0,
                       !.prrDelivered = 0,
                       !.recoveryFlightSize = UnAckDataCount(s)], bytes)

-----------------------------------------------------------------------------
(* Sending. *)

\* What is lost goes first, then new data, as whole segments: less than a segment of
\* window waits for more (the silly window test).
Sendable(s) == Smaller(WholeSegments(AvailableWindow(s)), s.lost + s.unsent)

\* Faulty variant: what is sent again is taken from the new data.
SendPendingDataSkips(s) ==
  LET n == Sendable(s)
  IN  [s EXCEPT !.flight = @ + n,
                !.lost = @ - Smaller(n, @),
                !.unsent = @ - n,
                !.prrOut = IF s.cong = "CWR" THEN @ + n ELSE @,
                !.retx = @ \/ n > 0]

SendPendingData(s) ==
  LET n == Sendable(s)
      again == Smaller(n, s.lost)
  IN  [s EXCEPT !.flight = @ + n,
                !.lost = @ - again,
                !.unsent = @ - (n - again),
                !.prrOut = IF s.cong = "CWR" THEN @ + n ELSE @,
                !.retx = @ \/ n > 0]

-----------------------------------------------------------------------------
(* The events. *)

\* ReceivedAck before ProcessAck.
Discard(s, bytes) ==
  LET inFlight == Smaller(bytes, s.flight)
  IN  [s EXCEPT !.flight = @ - inFlight,
                !.lost = @ - (bytes - inFlight),
                !.toRecover = @ - bytes]

LeaveCwr(s) ==
  IF s.cong = "CWR" /\ s.toRecover < 0
  THEN [s EXCEPT !.cong = "OPEN", !.cWnd = s.ssThresh] ELSE s

EcnEcho(s, ece, alpha, bytes) ==
  IF ece /\ s.cong # "CWR" THEN EnterCwr(s, alpha, bytes) ELSE s

ProcessAck(s, bytes) ==
  CASE s.cong = "CWR" -> DoRecovery(s, bytes)
    [] s.cong = "OPEN" \/ (s.cong = "LOSS" /\ s.toRecover > 0) ->
         IncreaseWindow(s, bytes \div SegmentSize)
    [] OTHER -> IncreaseWindow([s EXCEPT !.cong = "OPEN"], (-s.toRecover) \div SegmentSize)

\* A past m_recover is kept as -1.
NewAck(s) ==
  [s EXCEPT !.retx = s.flight + s.lost + s.unsent > 0,
            !.toRecover = IF @ < 0 THEN -1 ELSE @]

ReceivedAck(s, bytes, ece, alpha) ==
  LET echoed == EcnEcho(LeaveCwr(Discard(s, bytes)), ece, alpha, bytes)
  IN  SendPendingData(NewAck(ProcessAck(echoed, bytes)))

\* The ACK of one or more segments, every one with its size.
ReceiveAck ==
  \E segs \in 1 .. UnAckDataCount(w) \div SegmentSize, ece \in BOOLEAN, alpha \in 0 .. AlphaSteps :
    /\ w' = ReceivedAck(w, segs * SegmentSize, ece, alpha)
    /\ w'.cWnd <= MaxCwnd

Write ==
  \E segs \in 1 .. (TxBufferSize - UnAckDataCount(w) - w.unsent) \div SegmentSize :
    w' = [w EXCEPT !.unsent = @ + segs * SegmentSize,
                   !.sendPending = @ \/ AvailableWindow(w) > 0]

SendPendingEvent ==
  /\ w.sendPending
  /\ w' = SendPendingData([w EXCEPT !.sendPending = FALSE])

\* SetSentListLost clears the mark that IsHeadRetransmitted looks for, so every
\* timeout lowers ssThresh.
Expire(s, alpha) ==
  [s EXCEPT !.cong = "LOSS",
            !.ssThresh = GetSsThresh(s, alpha),
            !.cWnd = SegmentSize,
            !.flight = 0,
            !.lost = UnAckDataCount(s),
            !.toRecover = UnAckDataCount(s),
            !.retx = FALSE,
            !.timedOut = TRUE]

ReTxTimeout ==
  /\ w.retx
  /\ \E alpha \in 0 .. AlphaSteps : w' = SendPendingData(Expire(w, alpha))

Init ==
  w = [cong |-> "OPEN", cWnd |-> InitialCwnd * SegmentSize, ssThresh |-> MaxCwnd,
       cWndCnt |-> 0, flight |-> 0, lost |-> 0, unsent |-> 0, toRecover |-> -1,
       prrOut |-> 0, prrDelivered |-> 0, recoveryFlightSize |-> 0,
       sendPending |-> FALSE, retx |-> FALSE, share |-> FALSE, timedOut |-> FALSE]

Next == ReceiveAck \/ Write \/ SendPendingEvent \/ ReTxTimeout

Spec == Init /\ [][Next]_vars

-----------------------------------------------------------------------------
\* Every field keeps its type and the buffer its size.
TypeOK == w \in Window /\ w.flight + w.lost + w.unsent <= TxBufferSize

\* The share PRR sends of what is delivered is less than one whenever it is used; in
\* particular the flight size it divides by is not zero (TcpPrrRecovery::DoRecovery).
ShareReduces == ~w.share

\* While the window is reduced, no more is sent than was delivered and one segment
\* that is forced out, also where the product of 32 bits wraps.
SendsWhatLeaves ==
  w.cong = "CWR" => w.prrOut <= w.prrDelivered + SegmentSize

\* Data waits for a larger window only if something will make it larger: an event
\* or, as long as no timeout came, an ACK of something outstanding.
Waits == w.unsent > 0 /\ ~w.sendPending
WaitsForSomething == Waits => w.retx
WaitsBeforeTimeout == Waits /\ ~w.timedOut => w.flight > 0 /\ w.retx

=============================================================================
