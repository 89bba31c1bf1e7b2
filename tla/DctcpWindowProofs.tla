-------------------------- MODULE DctcpWindowProofs --------------------------
(***************************************************************************)
(* Proofs about the congestion window: types, and the invariant Resting    *)
(* from which follow that a reduction is one, that it sends no more than   *)
(* it may, and that data does not wait for nothing before a timeout.       *)
(***************************************************************************)
EXTENDS DctcpWindow, TLAPS

-----------------------------------------------------------------------------
(* Arithmetic. *)

LEMMA DivMod ==
  ASSUME NEW x \in Int, NEW m \in Nat \ {0}
  PROVE  /\ x \div m \in Int /\ x % m \in 0 .. m - 1
         /\ x = (m * (x \div m)) + (x % m)
OBVIOUS

LEMMA TimesMonotone ==
  ASSUME NEW a \in Int, NEW b \in Int, NEW m \in Nat, a <= b
  PROVE  m * a <= m * b
OBVIOUS

LEMMA DivBounds ==
  ASSUME NEW x \in Nat, NEW m \in Nat \ {0}
  PROVE  /\ x \div m \in Nat /\ (x \div m) * m <= x
         /\ x % m \in Nat /\ x % m <= x
         /\ x - (x % m) \in Nat
         /\ x >= m => x - (x % m) >= m
<1> DEFINE d == x \div m
           e == x % m
<1>1. d \in Int /\ e \in 0 .. m - 1 /\ x = (m * d) + e
  BY DivMod
<1> HIDE DEF d, e
<1>2. d >= 0
  <2>1. CASE d <= -1
    <3>1. m * d <= m * (-1)
      BY <1>1, <2>1, TimesMonotone
    <3> QED
      BY <1>1, <3>1
  <2> QED
    BY <1>1, <2>1
<1>3. m * d >= 0
  BY <1>1, <1>2
<1>4. x >= m => m * d >= m
  <2>1. CASE d >= 1
    <3>1. m * 1 <= m * d
      BY <1>1, <2>1, TimesMonotone
    <3> QED
      BY <3>1
  <2>2. CASE d = 0
    BY <1>1, <2>2
  <2> QED
    BY <1>1, <1>2, <2>1, <2>2
<1>5. d * m = m * d
  BY <1>1
<1> QED
  BY <1>1, <1>2, <1>3, <1>4, <1>5 DEF d, e

LEMMA SmallDiv ==
  ASSUME NEW x \in Nat, NEW m \in Nat \ {0}, x < m
  PROVE  x \div m = 0
<1> DEFINE d == x \div m
           e == x % m
<1>1. d \in Nat /\ e \in Nat /\ x = (m * d) + e
  BY DivMod, DivBounds
<1> HIDE DEF d, e
<1>2. CASE d >= 1
  <2>1. m * 1 <= m * d
    BY <1>1, <1>2, TimesMonotone
  <2> QED
    BY <1>1, <2>1
<1> QED
  BY <1>1, <1>2 DEF d

LEMMA DivTimes ==
  ASSUME NEW k \in Nat, NEW m \in Nat \ {0}
  PROVE  (k * m) \div m = k
<1> DEFINE x == k * m
           d == x \div m
           e == x % m
<1>1. x \in Int /\ d \in Int /\ e \in 0 .. m - 1 /\ x = (m * d) + e /\ x = m * k
  <2>1. x \in Int /\ x = m * k
    OBVIOUS
  <2> HIDE DEF x
  <2> QED
    BY <2>1, DivMod
<1> HIDE DEF x, d, e
<1>2. CASE d <= k - 1
  <2>1. m * (d + 1) <= m * k /\ m * (d + 1) = (m * d) + m
    BY <1>1, <1>2, TimesMonotone
  <2> QED
    BY <1>1, <2>1
<1>3. CASE d >= k + 1
  <2>1. m * (k + 1) <= m * d /\ m * (k + 1) = (m * k) + m
    BY <1>1, <1>3, TimesMonotone
  <2> QED
    BY <1>1, <2>1
<1>4. d = k
  BY <1>1, <1>2, <1>3
<1> QED
  BY <1>4 DEF x, d

\* A quotient rounded up is no more than what the dividend is a part of.
LEMMA CeilingBound ==
  ASSUME NEW a \in Nat, NEW b \in Nat \ {0}, NEW d \in Nat, a <= b * d
  PROVE  Ceiling(a, b) \in Nat /\ Ceiling(a, b) <= d
<1> DEFINE x == -a
           q == x \div b
           r == x % b
<1>1. x \in Int /\ q \in Int /\ r \in 0 .. b - 1 /\ x = (b * q) + r /\ x = -a
  BY DivMod
<1>2. Ceiling(a, b) = -q
  BY DEF Ceiling
<1> HIDE DEF x, q, r
<1>3. CASE q <= -d - 1
  <2>1. b * (q + 1) <= b * (-d) /\ b * (q + 1) = (b * q) + b /\ b * (-d) = -(b * d)
    BY <1>1, <1>3, TimesMonotone
  <2>2. b * d \in Int /\ b * q \in Int
    BY <1>1
  <2> QED
    BY <1>1, <2>1, <2>2
<1>4. CASE q >= 1
  <2>1. b * 1 <= b * q
    BY <1>1, <1>4, TimesMonotone
  <2> QED
    BY <1>1, <2>1
<1> QED
  BY <1>1, <1>2, <1>3, <1>4

LEMMA TimesNat == ASSUME NEW a \in Nat, NEW b \in Nat PROVE a * b \in Nat
OBVIOUS

-----------------------------------------------------------------------------
(* The operators keep the type of the record and say which fields they set. *)

\* r differs from s in the window only.
SameButWindow(s, r) ==
  /\ r.cong = s.cong /\ r.ssThresh = s.ssThresh
  /\ r.flight = s.flight /\ r.lost = s.lost /\ r.unsent = s.unsent /\ r.toRecover = s.toRecover
  /\ r.prrOut = s.prrOut /\ r.recoveryFlightSize = s.recoveryFlightSize
  /\ r.sendPending = s.sendPending /\ r.retx = s.retx /\ r.timedOut = s.timedOut

LEMMA GetSsThreshType ==
  ASSUME NEW s \in Window, NEW alpha \in 0 .. AlphaSteps
  PROVE  GetSsThresh(s, alpha) \in Nat
<1> DEFINE x == (2 * AlphaSteps - alpha) * s.cWnd
<1>1. x \in Nat
  BY WindowAssumption, TimesNat DEF Window
<1>2. 2 * AlphaSteps \in Nat \ {0}
  BY WindowAssumption
<1>3. GetSsThresh(s, alpha) = x \div (2 * AlphaSteps)
  BY DEF GetSsThresh
<1> HIDE DEF x
<1> QED
  BY <1>1, <1>2, <1>3, DivBounds

LEMMA IncreaseWindowType ==
  ASSUME NEW s \in Window, NEW segs \in Nat
  PROVE  /\ IncreaseWindow(s, segs) \in Window /\ SameButWindow(s, IncreaseWindow(s, segs))
         /\ IncreaseWindow(s, segs).share = s.share
         /\ segs >= 1 /\ (s.cWnd >= SegmentSize \/ s.cWnd >= s.ssThresh)
              => IncreaseWindow(s, segs).cWnd >= SegmentSize
<1> DEFINE slow == Smaller(s.cWnd + segs * SegmentSize, s.ssThresh)
           n == Larger(1, s.cWnd \div SegmentSize)
           overdue == IF s.cWndCnt >= n THEN 1 ELSE 0
           count == (IF overdue = 1 THEN 0 ELSE s.cWndCnt) + segs
           more == overdue + (count \div n)
           avoid == s.cWnd + more * SegmentSize
           left == count % n
<1>1. SegmentSize \in Nat \ {0} /\ segs * SegmentSize \in Nat
  BY WindowAssumption, TimesNat
<1>2. slow \in Nat /\ (s.cWnd < s.ssThresh => slow >= s.cWnd)
  BY <1>1 DEF Smaller, Window
<1>3. n \in Nat \ {0}
  BY <1>1, DivBounds DEF Larger, Window
<1>4. overdue \in {0, 1} /\ count \in Nat /\ (overdue = 0 => count = s.cWndCnt + segs /\ s.cWndCnt < n)
  BY <1>3 DEF Window
<1>5. more \in Nat /\ left \in Nat
  BY <1>3, <1>4, DivBounds
<1>6. more * SegmentSize \in Nat /\ avoid \in Nat
  BY <1>1, <1>5, TimesNat DEF Window
<1>7. /\ SlowStart(s, segs) \in {s, [s EXCEPT !.cWnd = slow]}
      /\ CongestionAvoidance(s, segs) = [s EXCEPT !.cWnd = avoid, !.cWndCnt = left]
  BY DEF SlowStart, CongestionAvoidance
<1> HIDE DEF slow, n, overdue, count, more, avoid, left
<1>8. /\ SlowStart(s, segs) \in Window /\ SameButWindow(s, SlowStart(s, segs))
      /\ SlowStart(s, segs).share = s.share
      /\ s.cWnd < s.ssThresh => SlowStart(s, segs).cWnd >= s.cWnd
  BY <1>2, <1>7 DEF Window, SameButWindow
<1>9. /\ CongestionAvoidance(s, segs) \in Window /\ SameButWindow(s, CongestionAvoidance(s, segs))
      /\ CongestionAvoidance(s, segs).share = s.share
      /\ CongestionAvoidance(s, segs).cWnd = avoid
  BY <1>5, <1>6, <1>7 DEF Window, SameButWindow
<1>10. s.cWnd \in Nat /\ s.ssThresh \in Nat
  BY DEF Window
<1>11. segs >= 1 => avoid >= SegmentSize
  <2>1. CASE s.cWnd >= SegmentSize
    BY <1>1, <1>6, <1>10, <2>1 DEF avoid
  <2>2. ASSUME s.cWnd < SegmentSize, segs >= 1 PROVE avoid >= SegmentSize
    <3>1. s.cWnd \div SegmentSize = 0
      BY <1>1, <1>10, <2>2, SmallDiv
    <3>2. n = 1
      BY <3>1 DEF n, Larger
    <3>3. more >= 1
      <4>1. CASE overdue = 1
        BY <1>3, <1>4, <4>1, DivBounds DEF more
      <4>2. CASE overdue = 0
        <5>1. count >= 1 /\ count \div 1 = count
          BY <1>4, <2>2, <4>2 DEF Window
        <5> QED
          BY <1>4, <3>2, <4>2, <5>1 DEF more
      <4> QED
        BY <1>4, <4>1, <4>2
    <3>4. more * SegmentSize >= SegmentSize
      <4>1. SegmentSize * 1 <= SegmentSize * more /\ SegmentSize * more = more * SegmentSize
        BY <1>1, <1>5, <3>3, TimesMonotone
      <4> QED
        BY <1>1, <4>1
    <3> QED
      BY <1>1, <1>6, <1>10, <3>4 DEF avoid
  <2> QED
    BY <1>1, <1>10, <2>1, <2>2
<1>12. CASE s.cWnd < s.ssThresh
  BY <1>1, <1>8, <1>10, <1>12 DEF IncreaseWindow, Window
<1>13. CASE ~(s.cWnd < s.ssThresh)
  BY <1>9, <1>11, <1>13 DEF IncreaseWindow
<1> QED
  BY <1>12, <1>13

LEMMA DoRecoveryType ==
  ASSUME NEW s \in Window, NEW bytes \in Nat
  PROVE  /\ DoRecovery(s, bytes) \in Window
         /\ SameButWindow(s, DoRecovery(s, bytes))
<1> DEFINE delivered == (s.prrDelivered + bytes) % Word
           above == s.flight > s.ssThresh
           count == IF ~above THEN BoundedCount(s, bytes)
                    ELSE IF s.recoveryFlightSize = 0 THEN 0
                    ELSE ProportionalCount(s, delivered)
           forced == IF s.prrOut > 0 THEN 0 ELSE SegmentSize
           cWnd == s.flight + Larger(count, forced)
           share == s.share \/ (above /\ s.ssThresh >= s.recoveryFlightSize)
<1>1. delivered \in 0 .. Word - 1
  <2> DEFINE sum == s.prrDelivered + bytes
  <2>1. sum \in Int /\ Word \in Nat \ {0}
    BY WindowAssumption DEF Window
  <2>2. delivered = sum % Word
    OBVIOUS
  <2> HIDE DEF sum, delivered
  <2>3. sum % Word \in 0 .. Word - 1
    BY <2>1, DivMod
  <2> QED
    BY <2>2, <2>3
<1>2. BoundedCount(s, bytes) \in Int
  BY DEF BoundedCount, Smaller, Window
<1>3. s.recoveryFlightSize # 0 => ProportionalCount(s, delivered) \in Int
  <2> DEFINE x == (delivered * s.ssThresh) % Word
  <2>1. delivered * s.ssThresh \in Nat
    BY <1>1, TimesNat DEF Window
  <2>2. x \in Int
    BY <2>1, WindowAssumption, DivMod
  <2>3. ProportionalCount(s, delivered) = Ceiling(x, s.recoveryFlightSize) - s.prrOut
    BY DEF ProportionalCount
  <2> HIDE DEF x, delivered
  <2>4. ASSUME s.recoveryFlightSize # 0 PROVE Ceiling(x, s.recoveryFlightSize) \in Int
    <3> DEFINE f == s.recoveryFlightSize
               y == -x
    <3>1. f \in Nat \ {0} /\ y \in Int
      BY <2>2, <2>4 DEF Window
    <3>2. Ceiling(x, f) = -(y \div f)
      BY DEF Ceiling
    <3> HIDE DEF f, y
    <3>3. y \div f \in Int
      BY <3>1, DivMod
    <3> QED
      BY <3>2, <3>3 DEF f
  <2> QED
    BY <2>3, <2>4 DEF Window
<1>4. count \in Int
  BY <1>2, <1>3
<1>5. forced \in Nat
  BY WindowAssumption
<1>6. DoRecovery(s, bytes) = [s EXCEPT !.prrDelivered = delivered, !.cWnd = cWnd, !.share = share]
  BY DEF DoRecovery
<1>7. share \in BOOLEAN
  BY DEF Window
<1> HIDE DEF delivered, count, forced, share
<1>8. cWnd \in Nat
  BY <1>4, <1>5 DEF Larger, Window
<1> HIDE DEF cWnd
<1> QED
  BY <1>1, <1>6, <1>7, <1>8 DEF Window, SameButWindow

\* With a threshold below the flight size the reduction began with, PRR's share is no more
\* than what was delivered. That holds whether or not the product wraps in 32 bits: a
\* product that wraps is smaller still.
LEMMA ShareIsLess ==
  ASSUME NEW s \in Window, NEW sum \in Nat, s.ssThresh < s.recoveryFlightSize
  PROVE  /\ ProportionalCount(s, sum) + s.prrOut <= sum
         /\ s.recoveryFlightSize # 0
         /\ ProportionalCount(s, sum) \in Int
<1> DEFINE y == sum * s.ssThresh
           x == y % Word
           f == s.recoveryFlightSize
<1>1. s.prrOut \in Nat /\ s.ssThresh \in Nat /\ Word \in Nat \ {0}
  BY WindowAssumption DEF Window
<1>2. f \in Nat \ {0} /\ s.ssThresh <= f
  BY DEF Window
<1>3. y \in Nat /\ y <= f * sum
  <2>1. y <= sum * f /\ sum * f = f * sum
    BY <1>1, <1>2, TimesMonotone
  <2>2. y \in Nat
    BY <1>1, TimesNat
  <2> HIDE DEF f, y
  <2> QED
    BY <2>1, <2>2
<1>4. ProportionalCount(s, sum) = Ceiling(x, f) - s.prrOut
  BY DEF ProportionalCount
<1> HIDE DEF y, f
<1>5. x \in Nat /\ x <= y
  BY <1>1, <1>3, DivBounds
<1> HIDE DEF x
<1>6. f * sum \in Nat
  BY <1>2, TimesNat
<1>7. x <= f * sum
  BY <1>3, <1>5, <1>6
<1>8. Ceiling(x, f) \in Nat /\ Ceiling(x, f) <= sum
  BY <1>2, <1>5, <1>7, CeilingBound
<1> QED
  BY <1>1, <1>2, <1>4, <1>8 DEF f

\* What a reduction relies on when an ACK has delivered bytes: the share is used in it
\* only if it is less than one, and the count of what was delivered does not wrap.
Reducible(s, bytes) ==
  /\ ~s.share
  /\ s.prrOut <= s.prrDelivered + SegmentSize
  /\ s.prrDelivered + bytes < Word
  /\ s.ssThresh >= s.recoveryFlightSize => s.flight <= s.ssThresh

LEMMA DoRecoveryReduces ==
  ASSUME NEW s \in Window, NEW bytes \in Nat, Reducible(s, bytes)
  PROVE  LET r == DoRecovery(s, bytes)
         IN  /\ ~r.share
             /\ r.prrDelivered = s.prrDelivered + bytes
             /\ s.prrOut + r.cWnd - s.flight <= r.prrDelivered + SegmentSize
             /\ s.ssThresh >= s.recoveryFlightSize => r.cWnd <= s.ssThresh + SegmentSize
             /\ s.prrOut = 0 => r.cWnd >= s.flight + SegmentSize
<1> DEFINE delivered == (s.prrDelivered + bytes) % Word
           sum == s.prrDelivered + bytes
           above == s.flight > s.ssThresh
           count == IF ~above THEN BoundedCount(s, bytes)
                    ELSE IF s.recoveryFlightSize = 0 THEN 0
                    ELSE ProportionalCount(s, delivered)
           forced == IF s.prrOut > 0 THEN 0 ELSE SegmentSize
           cWnd == s.flight + Larger(count, forced)
           share == s.share \/ (above /\ s.ssThresh >= s.recoveryFlightSize)
           r == DoRecovery(s, bytes)
<1>1. /\ s.prrDelivered \in Nat /\ s.prrOut \in Nat /\ s.flight \in Nat /\ s.ssThresh \in Nat
      /\ s.recoveryFlightSize \in Nat /\ SegmentSize \in Nat \ {0} /\ Word \in Nat \ {0}
  BY WindowAssumption DEF Window
<1>2. delivered = sum /\ sum \in Nat /\ sum < Word
  <2>1. sum \in Nat /\ sum < Word
    BY <1>1 DEF Reducible
  <2>2. delivered = sum % Word
    OBVIOUS
  <2> HIDE DEF delivered, sum
  <2>3. sum \in Int /\ Word \in Nat \ {0}
    BY <1>1, <2>1
  <2>4. sum \div Word = 0
    BY <2>1, <2>3, SmallDiv
  <2>5. sum % Word \in 0 .. Word - 1 /\ sum = (Word * (sum \div Word)) + (sum % Word)
    BY <2>3, DivMod
  <2> QED
    BY <2>1, <2>2, <2>3, <2>4, <2>5
<1>3. r = [s EXCEPT !.prrDelivered = delivered, !.cWnd = cWnd, !.share = share]
  BY DEF DoRecovery
<1>4. above => s.ssThresh < s.recoveryFlightSize
  BY <1>1 DEF Reducible
<1>5. ~share
  BY <1>1, <1>4 DEF Reducible
<1>6. above => ProportionalCount(s, delivered) + s.prrOut <= sum /\ s.recoveryFlightSize # 0
               /\ ProportionalCount(s, delivered) \in Int
  <2>1. CASE above
    <3>1. s.ssThresh < s.recoveryFlightSize
      BY <2>1, <1>4
    <3> HIDE DEF sum, delivered, above
    <3>2. ProportionalCount(s, sum) + s.prrOut <= sum /\ s.recoveryFlightSize # 0
          /\ ProportionalCount(s, sum) \in Int
      BY <1>2, <3>1, ShareIsLess
    <3> QED
      BY <1>2, <3>2
  <2> QED
    BY <2>1
<1>7. ~above => /\ BoundedCount(s, bytes) \in Int /\ BoundedCount(s, bytes) <= bytes
                /\ BoundedCount(s, bytes) <= s.ssThresh - s.flight
  BY <1>1 DEF BoundedCount, Smaller
<1>8. count \in Int /\ count + s.prrOut <= sum + SegmentSize
  BY <1>1, <1>2, <1>6, <1>7 DEF Reducible
<1>9. forced \in Nat /\ forced + s.prrOut <= sum + SegmentSize /\ forced <= SegmentSize
      /\ (s.prrOut = 0 => forced = SegmentSize)
  BY <1>1 DEF Reducible
<1>10. s.ssThresh >= s.recoveryFlightSize => ~above /\ count <= s.ssThresh - s.flight
  BY <1>1, <1>4, <1>7
<1> HIDE DEF delivered, sum, count, forced, share, r
<1>11. cWnd \in Nat /\ cWnd - s.flight + s.prrOut <= sum + SegmentSize
       /\ (s.ssThresh >= s.recoveryFlightSize => cWnd <= s.ssThresh + SegmentSize)
       /\ (s.prrOut = 0 => cWnd >= s.flight + SegmentSize)
  BY <1>1, <1>2, <1>8, <1>9, <1>10 DEF Larger
<1> HIDE DEF cWnd
<1>12. r.prrDelivered = delivered /\ r.cWnd = cWnd /\ r.share = share
  BY <1>3 DEF Window
<1> QED
  BY <1>1, <1>2, <1>5, <1>11, <1>12 DEF r, sum

\* What goes out is no more than the window holds, and something does if a segment fits.
LEMMA SendableBounds ==
  ASSUME NEW s \in Window
  PROVE  LET n == Sendable(s)
         IN  /\ n \in Nat /\ n <= s.lost + s.unsent
             /\ n > 0 => s.flight + n <= s.cWnd
             /\ SegmentSize <= RWnd /\ s.cWnd >= SegmentSize /\ s.flight = 0 /\ s.lost + s.unsent > 0
                  => n > 0
<1> DEFINE a == AvailableWindow(s)
           k == WholeSegments(a)
           n == Sendable(s)
<1>1. SegmentSize \in Nat \ {0} /\ RWnd \in Nat /\ s.cWnd \in Nat /\ s.flight \in Nat
      /\ s.lost \in Nat /\ s.unsent \in Nat
  BY WindowAssumption DEF Window
<1>2. a \in Nat /\ (a > 0 => s.flight + a <= s.cWnd)
      /\ (SegmentSize <= RWnd /\ s.cWnd >= SegmentSize /\ s.flight = 0 => a >= SegmentSize)
  BY <1>1 DEF AvailableWindow, Larger, Smaller
<1> HIDE DEF a
<1>3. k \in Nat /\ k <= a /\ (a >= SegmentSize => k >= SegmentSize)
  BY <1>1, <1>2, DivBounds DEF WholeSegments
<1>4. n = IF k < s.lost + s.unsent THEN k ELSE s.lost + s.unsent
  BY DEF Sendable, Smaller, a
<1> HIDE DEF k, n
<1> QED
  BY <1>1, <1>2, <1>3, <1>4 DEF n

LEMMA SendPendingDataType ==
  ASSUME NEW s \in Window
  PROVE  LET r == SendPendingData(s)
             n == Sendable(s)
         IN  /\ r \in Window
             /\ r.flight = s.flight + n /\ r.lost + r.unsent = s.lost + s.unsent - n
             /\ r.lost <= s.lost
             /\ r.prrOut = IF s.cong = "CWR" THEN s.prrOut + n ELSE s.prrOut
             /\ (r.retx <=> s.retx \/ n > 0)
             /\ r.cong = s.cong /\ r.cWnd = s.cWnd /\ r.ssThresh = s.ssThresh
             /\ r.toRecover = s.toRecover /\ r.prrDelivered = s.prrDelivered
             /\ r.recoveryFlightSize = s.recoveryFlightSize /\ r.sendPending = s.sendPending
             /\ r.share = s.share /\ r.timedOut = s.timedOut
<1> DEFINE n == Sendable(s)
           again == Smaller(n, s.lost)
           flight == s.flight + n
           lost == s.lost - again
           unsent == s.unsent - (n - again)
           out == IF s.cong = "CWR" THEN s.prrOut + n ELSE s.prrOut
           retx == s.retx \/ n > 0
           r == SendPendingData(s)
<1>1. n \in Nat /\ n <= s.lost + s.unsent
  BY SendableBounds
<1>2. r = [s EXCEPT !.flight = flight, !.lost = lost, !.unsent = unsent, !.prrOut = out,
                    !.retx = retx]
  BY DEF SendPendingData
<1> HIDE DEF n
<1>3. /\ flight \in Nat /\ lost \in Nat /\ unsent \in Nat /\ out \in Nat
      /\ lost + unsent = s.lost + s.unsent - n /\ lost <= s.lost
  BY <1>1 DEF Smaller, Window
<1>4. retx \in BOOLEAN
  BY DEF Window
<1> HIDE DEF flight, lost, unsent, out, retx, again, r
<1>5. /\ r \in Window
      /\ r.flight = flight /\ r.lost = lost /\ r.unsent = unsent /\ r.prrOut = out /\ r.retx = retx
      /\ r.cong = s.cong /\ r.cWnd = s.cWnd /\ r.ssThresh = s.ssThresh
      /\ r.toRecover = s.toRecover /\ r.prrDelivered = s.prrDelivered
      /\ r.recoveryFlightSize = s.recoveryFlightSize /\ r.sendPending = s.sendPending
      /\ r.share = s.share /\ r.timedOut = s.timedOut
  BY <1>2, <1>3, <1>4 DEF Window
<1>6. r.flight = s.flight + n /\ r.lost + r.unsent = s.lost + s.unsent - n /\ r.lost <= s.lost
      /\ r.prrOut = IF s.cong = "CWR" THEN s.prrOut + n ELSE s.prrOut
  BY <1>3, <1>5 DEF flight, out
<1>7. r.retx <=> s.retx \/ n > 0
  BY <1>5 DEF retx
<1> QED
  BY <1>5, <1>6, <1>7 DEF r, n

LEMMA DiscardType ==
  ASSUME NEW s \in Window, NEW bytes \in Nat, bytes <= s.flight + s.lost
  PROVE  LET r == Discard(s, bytes)
         IN  /\ r \in Window
             /\ r.flight + r.lost = s.flight + s.lost - bytes
             /\ r.flight = 0 \/ r.flight = s.flight - bytes
             /\ s.lost = 0 => r.lost = 0
             /\ r.toRecover = s.toRecover - bytes
             /\ r.cong = s.cong /\ r.cWnd = s.cWnd /\ r.ssThresh = s.ssThresh
             /\ r.unsent = s.unsent /\ r.prrOut = s.prrOut /\ r.prrDelivered = s.prrDelivered
             /\ r.recoveryFlightSize = s.recoveryFlightSize /\ r.sendPending = s.sendPending
             /\ r.share = s.share /\ r.timedOut = s.timedOut
<1> DEFINE inFlight == Smaller(bytes, s.flight)
           flight == s.flight - inFlight
           lost == s.lost - (bytes - inFlight)
           toRecover == s.toRecover - bytes
           r == Discard(s, bytes)
<1>1. r = [s EXCEPT !.flight = flight, !.lost = lost, !.toRecover = toRecover]
  BY DEF Discard
<1>2. /\ flight \in Nat /\ lost \in Nat /\ toRecover \in Int
      /\ flight + lost = s.flight + s.lost - bytes
      /\ flight = 0 \/ flight = s.flight - bytes
      /\ s.lost = 0 => lost = 0
  BY DEF Smaller, Window
<1>3. toRecover = s.toRecover - bytes
  OBVIOUS
<1> HIDE DEF inFlight, flight, lost, toRecover, r
<1>4. /\ r \in Window
      /\ r.flight = flight /\ r.lost = lost /\ r.toRecover = toRecover
      /\ r.cong = s.cong /\ r.cWnd = s.cWnd /\ r.ssThresh = s.ssThresh
      /\ r.unsent = s.unsent /\ r.prrOut = s.prrOut /\ r.prrDelivered = s.prrDelivered
      /\ r.recoveryFlightSize = s.recoveryFlightSize /\ r.sendPending = s.sendPending
      /\ r.share = s.share /\ r.timedOut = s.timedOut
  BY <1>1, <1>2 DEF Window
<1> QED
  BY <1>2, <1>3, <1>4 DEF r

LEMMA LeaveCwrType ==
  ASSUME NEW s \in Window
  PROVE  LET r == LeaveCwr(s)
         IN  /\ r \in Window
             /\ \/ r = s /\ (s.cong = "CWR" => s.toRecover >= 0)
                \/ /\ s.cong = "CWR" /\ r.cong = "OPEN" /\ r.cWnd = s.ssThresh
                   /\ r.ssThresh = s.ssThresh
             /\ r.flight = s.flight /\ r.lost = s.lost /\ r.unsent = s.unsent
             /\ r.share = s.share /\ r.timedOut = s.timedOut
<1> DEFINE r == LeaveCwr(s)
<1>1. CASE s.cong = "CWR" /\ s.toRecover < 0
  <2>1. r = [s EXCEPT !.cong = "OPEN", !.cWnd = s.ssThresh]
    BY <1>1 DEF LeaveCwr
  <2>2. s.ssThresh \in Nat
    BY DEF Window
  <2> HIDE DEF r
  <2>3. /\ r \in Window /\ r.cong = "OPEN" /\ r.cWnd = s.ssThresh /\ r.ssThresh = s.ssThresh
        /\ r.flight = s.flight /\ r.lost = s.lost /\ r.unsent = s.unsent
        /\ r.share = s.share /\ r.timedOut = s.timedOut
    BY <2>1, <2>2 DEF Window, CongStates
  <2> QED
    BY <1>1, <2>3 DEF r
<1>2. CASE ~(s.cong = "CWR" /\ s.toRecover < 0)
  <2>1. r = s
    BY <1>2 DEF LeaveCwr
  <2>2. s.cong = "CWR" => s.toRecover >= 0
    BY <1>2 DEF Window
  <2> QED
    BY <2>1, <2>2
<1> QED
  BY <1>1, <1>2

\* The record DoRecovery takes when the socket enters CWR.
Reduced(s, alpha) ==
  [s EXCEPT !.cong = "CWR",
            !.ssThresh = GetSsThresh(s, alpha),
            !.toRecover = UnAckDataCount(s),
            !.prrOut = 0,
            !.prrDelivered = 0,
            !.recoveryFlightSize = UnAckDataCount(s)]

LEMMA ReducedType ==
  ASSUME NEW s \in Window, NEW alpha \in 0 .. AlphaSteps
  PROVE  LET r == Reduced(s, alpha)
         IN  /\ r \in Window
             /\ r.cong = "CWR" /\ r.toRecover = s.flight + s.lost
             /\ r.prrOut = 0 /\ r.prrDelivered = 0
             /\ r.recoveryFlightSize = s.flight + s.lost
             /\ r.flight = s.flight /\ r.lost = s.lost /\ r.unsent = s.unsent
             /\ r.share = s.share /\ r.timedOut = s.timedOut
<1> DEFINE ssThresh == GetSsThresh(s, alpha)
           count == UnAckDataCount(s)
           none == 0
           cwr == "CWR"
           r == Reduced(s, alpha)
<1>1. ssThresh \in Nat
  BY GetSsThreshType
<1>2. count \in Nat /\ count = s.flight + s.lost
  BY DEF UnAckDataCount, Window
<1>3. none \in 0 .. Word - 1 /\ none \in Nat /\ none = 0 /\ cwr \in CongStates /\ cwr = "CWR"
  BY WindowAssumption DEF CongStates
<1> DEFINE t == [s EXCEPT !.cong = cwr, !.ssThresh = ssThresh, !.toRecover = count]
<1>4. r = [t EXCEPT !.prrOut = none, !.prrDelivered = none, !.recoveryFlightSize = count]
  BY DEF Reduced, Window
<1> HIDE DEF ssThresh, count, r, none, cwr
<1>5. ssThresh \in Nat /\ count \in Int /\ cwr \in CongStates
  BY <1>1, <1>2, <1>3
<1>6. /\ t \in Window
      /\ t.cong = cwr /\ t.toRecover = count
      /\ t.flight = s.flight /\ t.lost = s.lost /\ t.unsent = s.unsent
      /\ t.share = s.share /\ t.timedOut = s.timedOut
  BY <1>5 DEF Window
<1> HIDE DEF t
<1>7. /\ r \in Window
      /\ r.cong = t.cong /\ r.toRecover = t.toRecover /\ r.prrOut = none /\ r.prrDelivered = none
      /\ r.recoveryFlightSize = count
      /\ r.flight = t.flight /\ r.lost = t.lost /\ r.unsent = t.unsent
      /\ r.share = t.share /\ r.timedOut = t.timedOut
  BY <1>2, <1>3, <1>4, <1>6 DEF Window
<1> QED
  BY <1>2, <1>3, <1>6, <1>7 DEF r

LEMMA EcnEchoType ==
  ASSUME NEW s \in Window, NEW ece \in BOOLEAN, NEW alpha \in 0 .. AlphaSteps, NEW bytes \in Nat
  PROVE  LET r == EcnEcho(s, ece, alpha, bytes)
         IN  /\ r \in Window
             /\ r.flight = s.flight /\ r.lost = s.lost /\ r.unsent = s.unsent
<1>1. CASE ece /\ s.cong # "CWR"
  <2> DEFINE t == Reduced(s, alpha)
  <2>1. t \in Window /\ t.flight = s.flight /\ t.lost = s.lost /\ t.unsent = s.unsent
    BY ReducedType
  <2>2. EcnEcho(s, ece, alpha, bytes) = DoRecovery(t, bytes)
    BY <1>1 DEF EcnEcho, EnterCwr, Reduced
  <2> HIDE DEF t
  <2> QED
    BY <2>1, <2>2, DoRecoveryType DEF SameButWindow
<1>2. CASE ~(ece /\ s.cong # "CWR")
  BY <1>2 DEF EcnEcho
<1> QED
  BY <1>1, <1>2

LEMMA ProcessAckType ==
  ASSUME NEW s \in Window, NEW bytes \in Nat
  PROVE  LET r == ProcessAck(s, bytes)
         IN  /\ r \in Window
             /\ r.flight = s.flight /\ r.lost = s.lost /\ r.unsent = s.unsent
             /\ s.cong = "CWR" => r = DoRecovery(s, bytes)
             /\ s.cong # "CWR" => r.cong # "CWR" /\ r.share = s.share /\ r.timedOut = s.timedOut
             /\ s.cong = "OPEN" => r = IncreaseWindow(s, bytes \div SegmentSize)
<1>1. SegmentSize \in Nat \ {0}
  BY WindowAssumption
<1>2. CASE s.cong = "CWR"
  <2>1. ProcessAck(s, bytes) = DoRecovery(s, bytes)
    BY <1>2 DEF ProcessAck
  <2> QED
    BY <1>2, <2>1, DoRecoveryType DEF SameButWindow
<1>3. CASE s.cong = "OPEN" \/ (s.cong = "LOSS" /\ s.toRecover > 0)
  <2>1. bytes \div SegmentSize \in Nat
    BY <1>1, DivBounds
  <2>2. ProcessAck(s, bytes) = IncreaseWindow(s, bytes \div SegmentSize)
    BY <1>3 DEF ProcessAck
  <2> QED
    BY <1>3, <2>1, <2>2, IncreaseWindowType DEF SameButWindow
<1>4. CASE s.cong = "LOSS" /\ ~(s.toRecover > 0)
  <2> DEFINE t == [s EXCEPT !.cong = "OPEN"]
             back == -s.toRecover
  <2>1. /\ t \in Window /\ t.cong = "OPEN" /\ t.share = s.share /\ t.timedOut = s.timedOut
        /\ t.flight = s.flight /\ t.lost = s.lost /\ t.unsent = s.unsent
    BY DEF Window, CongStates
  <2>2. back \in Nat
    BY <1>4 DEF Window
  <2>3. ProcessAck(s, bytes) = IncreaseWindow(t, back \div SegmentSize)
    BY <1>4 DEF ProcessAck
  <2> HIDE DEF t, back
  <2>4. back \div SegmentSize \in Nat
    BY <1>1, <2>2, DivBounds
  <2> QED
    BY <1>4, <2>1, <2>3, <2>4, IncreaseWindowType DEF SameButWindow
<1> QED
  BY <1>2, <1>3, <1>4 DEF Window, CongStates

LEMMA NewAckType ==
  ASSUME NEW s \in Window
  PROVE  LET r == NewAck(s)
         IN  /\ r \in Window
             /\ r.flight = s.flight /\ r.lost = s.lost /\ r.unsent = s.unsent
             /\ r.toRecover = IF s.toRecover < 0 THEN -1 ELSE s.toRecover
             /\ r.cong = s.cong /\ r.cWnd = s.cWnd /\ r.ssThresh = s.ssThresh
             /\ r.prrOut = s.prrOut /\ r.prrDelivered = s.prrDelivered
             /\ r.recoveryFlightSize = s.recoveryFlightSize
             /\ r.share = s.share /\ r.timedOut = s.timedOut
             /\ s.flight > 0 => r.retx
<1> DEFINE retx == s.flight + s.lost + s.unsent > 0
           toRecover == IF s.toRecover < 0 THEN -1 ELSE s.toRecover
           r == NewAck(s)
<1>1. retx \in BOOLEAN /\ (s.flight > 0 => retx)
  BY DEF Window
<1>2. toRecover \in Int
  BY DEF Window
<1>3. r = [s EXCEPT !.retx = retx, !.toRecover = toRecover]
  BY DEF NewAck
<1> HIDE DEF retx, r, toRecover
<1>4. /\ r \in Window /\ r.retx = retx /\ r.toRecover = toRecover
      /\ r.flight = s.flight /\ r.lost = s.lost /\ r.unsent = s.unsent
      /\ r.cong = s.cong /\ r.cWnd = s.cWnd /\ r.ssThresh = s.ssThresh
      /\ r.prrOut = s.prrOut /\ r.prrDelivered = s.prrDelivered
      /\ r.recoveryFlightSize = s.recoveryFlightSize
      /\ r.share = s.share /\ r.timedOut = s.timedOut
  BY <1>1, <1>2, <1>3 DEF Window
<1> QED
  BY <1>1, <1>4 DEF r, toRecover

-----------------------------------------------------------------------------
(* The type. *)

Fits(s) == s \in Window /\ s.flight + s.lost + s.unsent <= TxBufferSize

LEMMA SendFits ==
  ASSUME NEW s, Fits(s)
  PROVE  Fits(SendPendingData(s))
<1>1. s \in Window
  BY DEF Fits
<1> DEFINE r == SendPendingData(s)
           n == Sendable(s)
<1>2. r \in Window /\ r.flight = s.flight + n /\ r.lost + r.unsent = s.lost + s.unsent - n
  BY <1>1, SendPendingDataType
<1>3. n \in Nat
  BY <1>1, SendableBounds
<1> HIDE DEF r, n
<1>4. r.flight + r.lost + r.unsent <= TxBufferSize
  BY <1>1, <1>2, <1>3, WindowAssumption DEF Fits, Window
<1> QED
  BY <1>2, <1>4 DEF Fits, r

\* What an ACK may cover.
LEMMA AckBounds ==
  ASSUME NEW s \in Window, NEW segs \in 1 .. UnAckDataCount(s) \div SegmentSize
  PROVE  /\ segs * SegmentSize \in Nat /\ segs * SegmentSize <= s.flight + s.lost
         /\ segs * SegmentSize >= SegmentSize
         /\ (segs * SegmentSize) \div SegmentSize = segs /\ segs \in Nat \ {0}
<1> DEFINE count == UnAckDataCount(s)
           k == count \div SegmentSize
<1>1. SegmentSize \in Nat \ {0} /\ count \in Nat /\ count = s.flight + s.lost
  BY WindowAssumption DEF UnAckDataCount, Window
<1>2. segs \in 1 .. k
  OBVIOUS
<1> HIDE DEF count
<1>3. k \in Nat /\ k * SegmentSize <= count
  BY <1>1, DivBounds
<1> HIDE DEF k
<1>4. segs \in Nat \ {0} /\ segs <= k
  BY <1>2, <1>3
<1>5. SegmentSize * segs <= SegmentSize * k /\ SegmentSize * 1 <= SegmentSize * segs
  BY <1>1, <1>3, <1>4, TimesMonotone
<1>6. SegmentSize * segs = segs * SegmentSize /\ SegmentSize * k = k * SegmentSize
  BY <1>1, <1>3, <1>4
<1>7. segs * SegmentSize \in Nat /\ k * SegmentSize \in Nat
  BY <1>1, <1>3, <1>4, TimesNat
<1>8. (segs * SegmentSize) \div SegmentSize = segs
  BY <1>1, <1>4, DivTimes
<1> DEFINE x == segs * SegmentSize
           y == k * SegmentSize
<1> HIDE DEF x, y
<1>9. x <= count /\ x >= SegmentSize
  <2>1. x <= y /\ SegmentSize <= x /\ y <= count /\ x \in Nat /\ y \in Nat
    BY <1>1, <1>3, <1>5, <1>6, <1>7 DEF x, y
  <2> QED
    BY <1>1, <2>1
<1> QED
  BY <1>1, <1>4, <1>7, <1>8, <1>9 DEF x

LEMMA ReceivedAckFits ==
  ASSUME NEW s, Fits(s), NEW bytes \in Nat, bytes <= s.flight + s.lost,
         NEW ece \in BOOLEAN, NEW alpha \in 0 .. AlphaSteps
  PROVE  Fits(ReceivedAck(s, bytes, ece, alpha))
<1>1. s \in Window
  BY DEF Fits
<1> DEFINE d == Discard(s, bytes)
           l == LeaveCwr(d)
           e == EcnEcho(l, ece, alpha, bytes)
           p == ProcessAck(e, bytes)
           q == NewAck(p)
<1>2. d \in Window /\ d.flight + d.lost = s.flight + s.lost - bytes /\ d.unsent = s.unsent
  BY <1>1, DiscardType
<1>3. Fits(d)
  BY <1>1, <1>2, WindowAssumption DEF Fits, Window
<1>4. ReceivedAck(s, bytes, ece, alpha) = SendPendingData(q)
  BY DEF ReceivedAck
<1> HIDE DEF d
<1>5. Fits(l)
  BY <1>2, <1>3, LeaveCwrType DEF Fits
<1> HIDE DEF l
<1>6. Fits(e)
  BY <1>5, EcnEchoType DEF Fits
<1> HIDE DEF e
<1>7. Fits(p)
  BY <1>6, ProcessAckType DEF Fits
<1> HIDE DEF p
<1>8. Fits(q)
  BY <1>7, NewAckType DEF Fits
<1> HIDE DEF q
<1> QED
  BY <1>4, <1>8, SendFits

LEMMA WriteFits ==
  ASSUME Fits(w), NEW segs \in 1 .. (TxBufferSize - UnAckDataCount(w) - w.unsent) \div SegmentSize,
         w' = [w EXCEPT !.unsent = @ + segs * SegmentSize,
                        !.sendPending = @ \/ AvailableWindow(w) > 0]
  PROVE  /\ Fits(w')
         /\ w'.unsent \in Nat /\ w'.unsent >= w.unsent
         /\ w'.sendPending = (w.sendPending \/ AvailableWindow(w) > 0)
         /\ w'.flight = w.flight /\ w'.lost = w.lost
         /\ w'.cong = w.cong /\ w'.cWnd = w.cWnd /\ w'.ssThresh = w.ssThresh
         /\ w'.toRecover = w.toRecover /\ w'.prrOut = w.prrOut
         /\ w'.prrDelivered = w.prrDelivered
         /\ w'.recoveryFlightSize = w.recoveryFlightSize /\ w'.retx = w.retx
         /\ w'.share = w.share /\ w'.timedOut = w.timedOut
<1> DEFINE room == TxBufferSize - UnAckDataCount(w) - w.unsent
           k == room \div SegmentSize
           bytes == segs * SegmentSize
           unsent == w.unsent + bytes
           pending == w.sendPending \/ AvailableWindow(w) > 0
<1>1. w \in Window /\ SegmentSize \in Nat \ {0} /\ TxBufferSize \in Nat
  BY WindowAssumption DEF Fits
<1>2. room \in Nat /\ room = TxBufferSize - w.flight - w.lost - w.unsent
  BY <1>1 DEF Fits, Window, UnAckDataCount
<1>3. segs \in 1 .. k
  OBVIOUS
<1> HIDE DEF room
<1>4. k \in Nat /\ k * SegmentSize <= room
  BY <1>1, <1>2, DivBounds
<1> HIDE DEF k
<1>5. segs \in Nat \ {0} /\ segs <= k
  BY <1>3, <1>4
<1>6. SegmentSize * segs <= SegmentSize * k
  BY <1>1, <1>4, <1>5, TimesMonotone
<1>7. bytes \in Nat /\ bytes <= room
  <2> DEFINE y == k * SegmentSize
  <2>1. bytes = SegmentSize * segs /\ y = SegmentSize * k /\ bytes \in Nat /\ y \in Nat
    BY <1>1, <1>4, <1>5, TimesNat
  <2>2. bytes <= y /\ y <= room
    BY <1>4, <1>6, <2>1
  <2> HIDE DEF y, bytes
  <2> QED
    BY <1>2, <2>1, <2>2
<1>8. w' = [w EXCEPT !.unsent = unsent, !.sendPending = pending]
  OBVIOUS
<1> HIDE DEF bytes
<1>9. unsent \in Nat /\ unsent >= w.unsent /\ w.flight + w.lost + unsent <= TxBufferSize
  BY <1>1, <1>2, <1>7 DEF Window
<1>10. pending \in BOOLEAN
  BY <1>1 DEF Window
<1> HIDE DEF unsent, pending
<1>11. /\ w' \in Window
       /\ w'.unsent = unsent /\ w'.sendPending = pending
       /\ w'.flight = w.flight /\ w'.lost = w.lost
       /\ w'.cong = w.cong /\ w'.cWnd = w.cWnd /\ w'.ssThresh = w.ssThresh
       /\ w'.toRecover = w.toRecover /\ w'.prrOut = w.prrOut
       /\ w'.prrDelivered = w.prrDelivered
       /\ w'.recoveryFlightSize = w.recoveryFlightSize /\ w'.retx = w.retx
       /\ w'.share = w.share /\ w'.timedOut = w.timedOut
  BY <1>1, <1>8, <1>9, <1>10 DEF Window
<1>12. Fits(w')
  BY <1>9, <1>11 DEF Fits
<1>13. w'.sendPending = (w.sendPending \/ AvailableWindow(w) > 0)
  BY <1>11 DEF pending
<1> QED
  BY <1>9, <1>11, <1>12, <1>13

LEMMA ExpireType ==
  ASSUME NEW s, Fits(s), NEW alpha \in 0 .. AlphaSteps
  PROVE  LET r == Expire(s, alpha)
         IN  Fits(r) /\ r.cong = "LOSS" /\ r.timedOut /\ r.share = s.share
<1> DEFINE ssThresh == GetSsThresh(s, alpha)
           count == UnAckDataCount(s)
           cong == "LOSS"
           none == 0
           t == [s EXCEPT !.cong = cong, !.ssThresh = ssThresh, !.cWnd = SegmentSize, !.flight = none]
           r == [t EXCEPT !.lost = count, !.toRecover = count, !.retx = FALSE, !.timedOut = TRUE]
<1>1. s \in Window
  BY DEF Fits
<1>2. ssThresh \in Nat /\ SegmentSize \in Nat /\ none \in Nat /\ cong \in CongStates
  BY <1>1, GetSsThreshType, WindowAssumption DEF CongStates
<1>3. count \in Nat /\ count \in Int /\ count = s.flight + s.lost
  BY <1>1 DEF UnAckDataCount, Window
<1>4. Expire(s, alpha) = r
  BY <1>1 DEF Expire, Window
<1>5. cong = "LOSS" /\ none = 0
  OBVIOUS
<1> HIDE DEF ssThresh, count, cong, none, r
<1>6. t \in Window /\ t.cong = cong /\ t.flight = none /\ t.unsent = s.unsent /\ t.share = s.share
  BY <1>1, <1>2 DEF Window
<1> HIDE DEF t
<1>7. /\ r \in Window /\ r.cong = t.cong /\ r.flight = t.flight /\ r.unsent = t.unsent
      /\ r.share = t.share /\ r.lost = count /\ r.timedOut = TRUE
  BY <1>3, <1>6 DEF Window, r
<1>8. r.flight + r.lost + r.unsent <= TxBufferSize
  BY <1>1, <1>3, <1>5, <1>6, <1>7, WindowAssumption DEF Fits, Window
<1> QED
  BY <1>4, <1>5, <1>6, <1>7, <1>8 DEF Fits

LEMMA InitType ==
  ASSUME Init
  PROVE  /\ Fits(w)
         /\ w.cong = "OPEN" /\ w.cWnd >= SegmentSize /\ w.lost = 0 /\ w.flight = 0 /\ w.unsent = 0
         /\ ~w.share
<1> DEFINE cWnd == InitialCwnd * SegmentSize
           cong == "OPEN"
<1>1. SegmentSize \in Nat \ {0} /\ InitialCwnd \in Nat \ {0} /\ MaxCwnd \in Nat
      /\ TxBufferSize \in Nat /\ 0 \in 0 .. Word - 1
  BY WindowAssumption
<1>2. cWnd \in Nat /\ cWnd >= SegmentSize
  <2>1. SegmentSize * 1 <= SegmentSize * InitialCwnd /\ SegmentSize * InitialCwnd = cWnd
    BY <1>1, TimesMonotone
  <2>2. cWnd \in Nat
    BY <1>1, TimesNat
  <2> HIDE DEF cWnd
  <2> QED
    BY <1>1, <2>1, <2>2
<1>3. cong \in CongStates /\ cong = "OPEN"
  BY DEF CongStates
<1>4. w = [cong |-> cong, cWnd |-> cWnd, ssThresh |-> MaxCwnd,
           cWndCnt |-> 0, flight |-> 0, lost |-> 0, unsent |-> 0, toRecover |-> -1,
           prrOut |-> 0, prrDelivered |-> 0, recoveryFlightSize |-> 0,
           sendPending |-> FALSE, retx |-> FALSE, share |-> FALSE, timedOut |-> FALSE]
  BY DEF Init
<1> HIDE DEF cong, cWnd
<1>5. w \in Window
  BY <1>1, <1>2, <1>3, <1>4 DEF Window
<1>6. /\ w.cong = cong /\ w.cWnd = cWnd /\ w.lost = 0 /\ w.flight = 0 /\ w.unsent = 0
      /\ ~w.share
  BY <1>4
<1> QED
  BY <1>1, <1>2, <1>3, <1>5, <1>6 DEF Fits

\* Whatever is acknowledged, marked or timed out, and whatever the application writes,
\* the next state of the sender has its types.
LEMMA EventFits ==
  ASSUME Fits(w), Next
  PROVE  Fits(w')
<1>1. CASE Write
  BY <1>1, WriteFits DEF Write
<1>2. CASE ReceiveAck
  <2>1. PICK segs \in 1 .. UnAckDataCount(w) \div SegmentSize, ece \in BOOLEAN,
             alpha \in 0 .. AlphaSteps : w' = ReceivedAck(w, segs * SegmentSize, ece, alpha)
    BY <1>2 DEF ReceiveAck
  <2>2. segs * SegmentSize \in Nat /\ segs * SegmentSize <= w.flight + w.lost
    BY AckBounds DEF Fits
  <2> QED
    BY <2>1, <2>2, ReceivedAckFits
<1>3. CASE ReTxTimeout
  <2>1. PICK alpha \in 0 .. AlphaSteps : w' = SendPendingData(Expire(w, alpha))
    BY <1>3 DEF ReTxTimeout
  <2>2. Fits(Expire(w, alpha))
    BY ExpireType
  <2> QED
    BY <2>1, <2>2, SendFits
<1>4. CASE SendPendingEvent
  <2> DEFINE t == [w EXCEPT !.sendPending = FALSE]
  <2>1. Fits(t)
    BY DEF Fits, Window
  <2>2. w' = SendPendingData(t)
    BY <1>4 DEF SendPendingEvent
  <2> HIDE DEF t
  <2> QED
    BY <2>1, <2>2, SendFits
<1> QED
  BY <1>1, <1>2, <1>3, <1>4 DEF Next

\* Every field of the sender keeps its type, and the buffer holds no more than its
\* size, whatever is acknowledged, marked or timed out.
THEOREM TypeCorrect == Spec => []TypeOK
<1>1. TypeOK <=> Fits(w)
  BY DEF TypeOK, Fits
<1>2. Init => TypeOK
  BY <1>1, InitType
<1>3. TypeOK /\ Next => TypeOK'
  BY EventFits DEF TypeOK, Fits
<1>4. TypeOK /\ UNCHANGED vars => TypeOK'
  BY DEF TypeOK, vars
<1> QED
  BY <1>2, <1>3, <1>4, PTL DEF Spec

-----------------------------------------------------------------------------
(* The reduction of the window.  Every record s is one of three: at rest between two *)
(* events, or on the way through an ACK before or after the window is adapted.       *)

\* Twice the buffer fits a word: the bytes delivered in one reduction do not wrap.
BufferFits == 2 * TxBufferSize < Word

\* As long as no timeout came nothing is marked lost, and in CWR what is in flight is
\* what was outstanding when it began and what was sent since.
NotLost(s) ==
  /\ s.lost = 0 /\ s.cong \in {"OPEN", "CWR"}
  /\ s.cong = "CWR" => s.flight = s.toRecover + s.prrOut

\* bytes are acknowledged, the window is still the old one.
Before(s, bytes) ==
  /\ s.flight + s.lost + s.unsent + bytes <= TxBufferSize
  /\ ~s.share
  /\ s.cong = "CWR" =>
       /\ s.toRecover >= 0 /\ s.prrDelivered + bytes + s.toRecover <= 2 * TxBufferSize
       /\ s.prrOut <= s.prrDelivered + SegmentSize
       /\ s.ssThresh >= s.recoveryFlightSize => s.flight <= s.ssThresh
  /\ ~s.timedOut =>
       /\ NotLost(s)
       /\ s.cong = "OPEN" => s.cWnd >= SegmentSize \/ s.cWnd >= s.ssThresh

\* The window is adapted: it lets out no more than a reduction may send, and without
\* a timeout a segment when nothing is in flight.
After(s) ==
  /\ s.flight + s.lost + s.unsent <= TxBufferSize
  /\ ~s.share
  /\ s.cong = "CWR" =>
       /\ s.toRecover >= 0 /\ s.prrDelivered + s.toRecover <= 2 * TxBufferSize
       /\ s.prrOut <= s.prrDelivered + SegmentSize
       /\ s.prrOut + s.cWnd - s.flight <= s.prrDelivered + SegmentSize
       /\ s.ssThresh >= s.recoveryFlightSize =>
            s.flight <= s.ssThresh + SegmentSize /\ s.cWnd <= s.ssThresh + SegmentSize
  /\ ~s.timedOut =>
       /\ NotLost(s)
       /\ s.cong = "OPEN" \/ s.flight = 0 => s.cWnd >= SegmentSize

\* Between two events the timer runs while a segment is in flight, and if the peer's
\* window holds a segment one is in flight while data waits.
Resting(s) ==
  /\ s \in Window /\ After(s)
  /\ ~s.timedOut =>
       /\ s.flight > 0 => s.retx
       /\ SegmentSize <= RWnd /\ s.unsent > 0 /\ ~s.sendPending => s.flight > 0

LEMMA DiscardBefore ==
  ASSUME NEW s, Resting(s), NEW bytes \in Nat, bytes <= s.flight + s.lost, bytes >= SegmentSize
  PROVE  LET l == LeaveCwr(Discard(s, bytes))
         IN  l \in Window /\ Before(l, bytes)
<1> DEFINE d == Discard(s, bytes)
           l == LeaveCwr(d)
<1>1. s \in Window /\ After(s)
  BY DEF Resting
<1>2. SegmentSize \in Nat \ {0} /\ TxBufferSize \in Nat
  BY WindowAssumption
<1>3. /\ d \in Window
      /\ d.flight + d.lost = s.flight + s.lost - bytes
      /\ d.flight = 0 \/ d.flight = s.flight - bytes
      /\ s.lost = 0 => d.lost = 0
      /\ d.toRecover = s.toRecover - bytes
      /\ d.cong = s.cong /\ d.cWnd = s.cWnd /\ d.ssThresh = s.ssThresh
      /\ d.unsent = s.unsent /\ d.prrOut = s.prrOut /\ d.prrDelivered = s.prrDelivered
      /\ d.recoveryFlightSize = s.recoveryFlightSize
      /\ d.share = s.share /\ d.timedOut = s.timedOut
  BY <1>1, DiscardType
<1> HIDE DEF d
<1>4. /\ l \in Window
      /\ \/ l = d /\ (d.cong = "CWR" => d.toRecover >= 0)
         \/ d.cong = "CWR" /\ l.cong = "OPEN" /\ l.cWnd = d.ssThresh /\ l.ssThresh = d.ssThresh
      /\ l.flight = d.flight /\ l.lost = d.lost /\ l.unsent = d.unsent
      /\ l.share = d.share /\ l.timedOut = d.timedOut
  BY <1>3, LeaveCwrType
<1> HIDE DEF l
<1>5. l.flight + l.lost + l.unsent + bytes <= TxBufferSize
  BY <1>1, <1>2, <1>3, <1>4 DEF After, Window
<1>6. ~l.share
  BY <1>1, <1>3, <1>4 DEF After
<1>7. ASSUME l.cong = "CWR"
      PROVE  /\ l.toRecover >= 0 /\ l.prrDelivered + bytes + l.toRecover <= 2 * TxBufferSize
             /\ l.prrOut <= l.prrDelivered + SegmentSize
             /\ l.ssThresh >= l.recoveryFlightSize => l.flight <= l.ssThresh
  <2>1. l = d /\ d.toRecover >= 0 /\ s.cong = "CWR"
    BY <1>3, <1>4, <1>7
  <2>2. /\ s.prrDelivered + s.toRecover <= 2 * TxBufferSize
        /\ s.prrOut <= s.prrDelivered + SegmentSize
        /\ s.ssThresh >= s.recoveryFlightSize => s.flight <= s.ssThresh + SegmentSize
    BY <1>1, <2>1 DEF After
  <2>3. d.prrDelivered + bytes + d.toRecover <= 2 * TxBufferSize
    BY <1>1, <1>2, <1>3, <2>2 DEF Window
  <2>4. d.ssThresh >= d.recoveryFlightSize => d.flight <= d.ssThresh
    BY <1>1, <1>2, <1>3, <2>2 DEF Window
  <2> QED
    BY <1>3, <2>1, <2>2, <2>3, <2>4
<1>8. ASSUME ~l.timedOut
      PROVE  NotLost(l) /\ (l.cong = "OPEN" => l.cWnd >= SegmentSize \/ l.cWnd >= l.ssThresh)
  <2>1. NotLost(s) /\ (s.cong = "OPEN" => s.cWnd >= SegmentSize)
    BY <1>1, <1>3, <1>4, <1>8 DEF After
  <2>2. d.lost = 0 /\ d.flight = s.flight - bytes
    BY <1>1, <1>3, <2>1 DEF NotLost, Window
  <2>3. CASE l = d
    <3>1. s.cong = "CWR" => d.flight = d.toRecover + d.prrOut
      BY <1>1, <1>3, <2>1, <2>2 DEF NotLost, Window
    <3> QED
      BY <1>3, <2>1, <2>2, <2>3, <3>1 DEF NotLost
  <2>4. CASE l.cong = "OPEN" /\ l.cWnd = d.ssThresh /\ l.ssThresh = d.ssThresh
    BY <1>3, <1>4, <2>2, <2>4 DEF NotLost, Window
  <2> QED
    BY <1>4, <2>3, <2>4
<1>9. Before(l, bytes)
  BY <1>5, <1>6, <1>7, <1>8 DEF Before
<1> QED
  BY <1>4, <1>9 DEF l, d

LEMMA BeforeReduces ==
  ASSUME BufferFits, NEW s \in Window, NEW bytes \in Nat, Before(s, bytes), s.cong = "CWR"
  PROVE  /\ Reducible(s, bytes)
         /\ After(DoRecovery(s, bytes))
<1> DEFINE r == DoRecovery(s, bytes)
<1>1. /\ SegmentSize \in Nat \ {0} /\ TxBufferSize \in Nat /\ Word \in Nat \ {0}
      /\ 2 * TxBufferSize < Word
  BY WindowAssumption DEF BufferFits
<1>2. /\ s.flight + s.lost + s.unsent + bytes <= TxBufferSize /\ ~s.share
      /\ s.toRecover >= 0 /\ s.prrDelivered + bytes + s.toRecover <= 2 * TxBufferSize
      /\ s.prrOut <= s.prrDelivered + SegmentSize
      /\ s.ssThresh >= s.recoveryFlightSize => s.flight <= s.ssThresh
  BY DEF Before
<1>3. /\ s.prrDelivered \in Nat /\ s.prrOut \in Nat /\ s.flight \in Nat /\ s.lost \in Nat
      /\ s.unsent \in Nat /\ s.ssThresh \in Nat /\ s.recoveryFlightSize \in Nat
      /\ s.toRecover \in Int /\ s.cWnd \in Nat
  BY DEF Window
<1>4. Reducible(s, bytes)
  BY <1>1, <1>2, <1>3 DEF Reducible
<1>5. /\ ~r.share
      /\ r.prrDelivered = s.prrDelivered + bytes
      /\ s.prrOut + r.cWnd - s.flight <= r.prrDelivered + SegmentSize
      /\ s.ssThresh >= s.recoveryFlightSize => r.cWnd <= s.ssThresh + SegmentSize
      /\ s.prrOut = 0 => r.cWnd >= s.flight + SegmentSize
  BY <1>4, DoRecoveryReduces
<1>6. r \in Window /\ SameButWindow(s, r)
  BY DoRecoveryType
<1> HIDE DEF r
<1>7. /\ r.cong = "CWR" /\ r.ssThresh = s.ssThresh
      /\ r.flight = s.flight /\ r.lost = s.lost /\ r.unsent = s.unsent
      /\ r.toRecover = s.toRecover /\ r.prrOut = s.prrOut
      /\ r.recoveryFlightSize = s.recoveryFlightSize /\ r.timedOut = s.timedOut
  BY <1>6 DEF SameButWindow
<1>8. r.cWnd \in Nat
  BY <1>6 DEF Window
<1>9. r.flight + r.lost + r.unsent <= TxBufferSize
  BY <1>1, <1>2, <1>3, <1>7
<1>10. /\ r.toRecover >= 0 /\ r.prrDelivered + r.toRecover <= 2 * TxBufferSize
       /\ r.prrOut <= r.prrDelivered + SegmentSize
       /\ r.prrOut + r.cWnd - r.flight <= r.prrDelivered + SegmentSize
       /\ r.ssThresh >= r.recoveryFlightSize =>
            r.flight <= r.ssThresh + SegmentSize /\ r.cWnd <= r.ssThresh + SegmentSize
  BY <1>1, <1>2, <1>3, <1>5, <1>7, <1>8
<1>11. ~r.timedOut => NotLost(s)
  BY <1>7 DEF Before
<1>12. ~r.timedOut => NotLost(r)
  BY <1>7, <1>11 DEF NotLost
<1>13. NotLost(s) /\ s.flight = 0 => r.cWnd >= SegmentSize
  <2>1. NotLost(s) => s.flight = s.toRecover + s.prrOut
    BY DEF NotLost
  <2> QED
    BY <1>1, <1>2, <1>3, <1>5, <1>8, <2>1
<1>14. ~r.timedOut => (r.cong = "OPEN" \/ r.flight = 0 => r.cWnd >= SegmentSize)
  BY <1>7, <1>11, <1>13
<1>15. After(r)
  BY <1>5, <1>9, <1>10, <1>12, <1>14 DEF After
<1> QED
  BY <1>4, <1>15 DEF r

LEMMA EcnEchoBefore ==
  ASSUME BufferFits, NEW s \in Window, NEW bytes \in Nat, Before(s, bytes),
         NEW ece \in BOOLEAN, NEW alpha \in 0 .. AlphaSteps
  PROVE  Before(EcnEcho(s, ece, alpha, bytes), bytes)
<1>1. CASE ~(ece /\ s.cong # "CWR")
  BY <1>1 DEF EcnEcho
<1>2. CASE ece /\ s.cong # "CWR"
  <2> DEFINE t == Reduced(s, alpha)
             r == DoRecovery(t, bytes)
  <2>1. EcnEcho(s, ece, alpha, bytes) = r
    BY <1>2 DEF EcnEcho, EnterCwr, Reduced
  <2>2. /\ t \in Window
        /\ t.cong = "CWR" /\ t.toRecover = s.flight + s.lost
        /\ t.prrOut = 0 /\ t.prrDelivered = 0
        /\ t.recoveryFlightSize = s.flight + s.lost
        /\ t.flight = s.flight /\ t.lost = s.lost /\ t.unsent = s.unsent
        /\ t.share = s.share /\ t.timedOut = s.timedOut
    BY ReducedType
  <2> HIDE DEF t
  <2>3. /\ SegmentSize \in Nat \ {0} /\ TxBufferSize \in Nat /\ Word \in Nat \ {0}
        /\ 2 * TxBufferSize < Word
    BY WindowAssumption DEF BufferFits
  <2>4. s.flight + s.lost + s.unsent + bytes <= TxBufferSize /\ ~s.share
    BY DEF Before
  <2>5. /\ s.flight \in Nat /\ s.lost \in Nat /\ s.unsent \in Nat /\ t.ssThresh \in Nat
    BY <2>2 DEF Window
  <2>6. /\ t.prrOut <= t.prrDelivered + SegmentSize /\ t.prrDelivered + bytes < Word
        /\ t.ssThresh >= t.recoveryFlightSize => t.flight <= t.ssThresh
    BY <2>2, <2>3, <2>4, <2>5
  <2>7. Reducible(t, bytes)
    BY <2>2, <2>4, <2>6 DEF Reducible
  <2>8. ~r.share /\ r.prrDelivered = bytes
    <3>1. ~r.share /\ r.prrDelivered = t.prrDelivered + bytes
      BY <2>2, <2>7, DoRecoveryReduces
    <3> HIDE DEF r
    <3> QED
      BY <2>2, <3>1
  <2>9. r \in Window /\ SameButWindow(t, r)
    BY <2>2, DoRecoveryType
  <2> HIDE DEF r
  <2>10. /\ r.cong = "CWR" /\ r.ssThresh = t.ssThresh
         /\ r.flight = s.flight /\ r.lost = s.lost /\ r.unsent = s.unsent
         /\ r.toRecover = s.flight + s.lost /\ r.prrOut = 0
         /\ r.recoveryFlightSize = s.flight + s.lost /\ r.timedOut = s.timedOut
    BY <2>2, <2>9 DEF SameButWindow
  <2>11. /\ r.flight + r.lost + r.unsent + bytes <= TxBufferSize
         /\ r.toRecover >= 0 /\ r.prrDelivered + bytes + r.toRecover <= 2 * TxBufferSize
         /\ r.prrOut <= r.prrDelivered + SegmentSize
         /\ r.ssThresh >= r.recoveryFlightSize => r.flight <= r.ssThresh
    BY <2>3, <2>4, <2>5, <2>8, <2>10
  <2>12. ~r.timedOut => NotLost(s)
    BY <2>10 DEF Before
  <2>13. NotLost(s) => r.lost = 0 /\ r.flight = r.toRecover + r.prrOut
    BY <2>5, <2>10 DEF NotLost
  <2>14. ~r.timedOut => NotLost(r)
    BY <2>10, <2>12, <2>13 DEF NotLost
  <2>15. Before(r, bytes)
    BY <2>8, <2>10, <2>11, <2>14 DEF Before
  <2> QED
    BY <2>1, <2>15
<1> QED
  BY <1>1, <1>2

LEMMA ProcessAckAfter ==
  ASSUME BufferFits, NEW s \in Window, NEW bytes \in Nat, Before(s, bytes),
         bytes \div SegmentSize \in Nat \ {0}
  PROVE  After(ProcessAck(s, bytes))
<1> DEFINE r == ProcessAck(s, bytes)
<1>1. /\ r \in Window
      /\ r.flight = s.flight /\ r.lost = s.lost /\ r.unsent = s.unsent
      /\ s.cong = "CWR" => r = DoRecovery(s, bytes)
      /\ s.cong # "CWR" => r.cong # "CWR" /\ r.share = s.share /\ r.timedOut = s.timedOut
      /\ s.cong = "OPEN" => r = IncreaseWindow(s, bytes \div SegmentSize)
  BY ProcessAckType
<1> HIDE DEF r
<1>2. CASE s.cong = "CWR"
  BY <1>1, <1>2, BeforeReduces DEF r
<1>3. CASE s.cong # "CWR"
  <2>1. r.flight + r.lost + r.unsent <= TxBufferSize
    BY <1>1, WindowAssumption DEF Before, Window
  <2>2. ~r.share /\ r.cong # "CWR"
    BY <1>1, <1>3 DEF Before
  <2>3. ASSUME ~r.timedOut
        PROVE  NotLost(r) /\ r.cWnd >= SegmentSize
    <3>1. NotLost(s) /\ s.cong = "OPEN" /\ (s.cWnd >= SegmentSize \/ s.cWnd >= s.ssThresh)
      BY <1>1, <1>3, <2>3 DEF Before, NotLost
    <3> DEFINE segs == bytes \div SegmentSize
    <3>2. segs \in Nat /\ segs >= 1
      OBVIOUS
    <3>3. r = IncreaseWindow(s, segs)
      BY <1>1, <3>1
    <3> HIDE DEF segs
    <3>4. r.cWnd >= SegmentSize /\ r.cong = s.cong
      BY <3>1, <3>2, <3>3, IncreaseWindowType DEF SameButWindow
    <3> QED
      BY <1>1, <3>1, <3>4 DEF NotLost
  <2>4. ~r.timedOut => /\ NotLost(r)
                       /\ r.cong = "OPEN" \/ r.flight = 0 => r.cWnd >= SegmentSize
    BY <2>3
  <2>5. After(r)
    BY <2>1, <2>2, <2>4 DEF After
  <2> QED
    BY <2>5 DEF r
<1> QED
  BY <1>2, <1>3 DEF r

LEMMA SendRests ==
  ASSUME NEW s \in Window, After(s), ~s.timedOut => (s.flight > 0 => s.retx)
  PROVE  Resting(SendPendingData(s))
<1> DEFINE r == SendPendingData(s)
           n == Sendable(s)
<1>1. /\ r \in Window
      /\ r.flight = s.flight + n /\ r.lost + r.unsent = s.lost + s.unsent - n
      /\ r.lost <= s.lost
      /\ r.prrOut = IF s.cong = "CWR" THEN s.prrOut + n ELSE s.prrOut
      /\ (r.retx <=> s.retx \/ n > 0)
      /\ r.cong = s.cong /\ r.cWnd = s.cWnd /\ r.ssThresh = s.ssThresh
      /\ r.toRecover = s.toRecover /\ r.prrDelivered = s.prrDelivered
      /\ r.recoveryFlightSize = s.recoveryFlightSize
      /\ r.share = s.share /\ r.timedOut = s.timedOut
  BY SendPendingDataType
<1>2. /\ n \in Nat /\ n <= s.lost + s.unsent
      /\ n > 0 => s.flight + n <= s.cWnd
      /\ SegmentSize <= RWnd /\ s.cWnd >= SegmentSize /\ s.flight = 0 /\ s.lost + s.unsent > 0
           => n > 0
  BY SendableBounds
<1> HIDE DEF r, n
<1>3. /\ SegmentSize \in Nat \ {0} /\ TxBufferSize \in Nat
  BY WindowAssumption
<1>4. /\ s.flight \in Nat /\ s.lost \in Nat /\ s.unsent \in Nat /\ s.cWnd \in Nat
      /\ s.prrOut \in Nat /\ s.prrDelivered \in Nat /\ s.ssThresh \in Nat
      /\ s.recoveryFlightSize \in Nat /\ s.toRecover \in Int
      /\ r.lost \in Nat /\ r.unsent \in Nat
  BY <1>1 DEF Window
<1>5. r.flight + r.lost + r.unsent <= TxBufferSize
  BY <1>1, <1>2, <1>3, <1>4 DEF After
<1>6. ~r.share
  BY <1>1 DEF After
<1>7. ASSUME r.cong = "CWR"
      PROVE  /\ r.toRecover >= 0 /\ r.prrDelivered + r.toRecover <= 2 * TxBufferSize
             /\ r.prrOut <= r.prrDelivered + SegmentSize
             /\ r.prrOut + r.cWnd - r.flight <= r.prrDelivered + SegmentSize
             /\ r.ssThresh >= r.recoveryFlightSize =>
                  r.flight <= r.ssThresh + SegmentSize /\ r.cWnd <= r.ssThresh + SegmentSize
  <2>1. /\ s.toRecover >= 0 /\ s.prrDelivered + s.toRecover <= 2 * TxBufferSize
        /\ s.prrOut <= s.prrDelivered + SegmentSize
        /\ s.prrOut + s.cWnd - s.flight <= s.prrDelivered + SegmentSize
        /\ s.ssThresh >= s.recoveryFlightSize =>
             s.flight <= s.ssThresh + SegmentSize /\ s.cWnd <= s.ssThresh + SegmentSize
    BY <1>1, <1>7 DEF After
  <2>2. r.prrOut = s.prrOut + n
    BY <1>1, <1>7
  <2>3. n > 0 => s.prrOut + n <= s.prrDelivered + SegmentSize
    BY <1>2, <1>3, <1>4, <2>1
  <2>4. r.prrOut <= r.prrDelivered + SegmentSize
    BY <1>1, <1>2, <1>3, <1>4, <2>1, <2>2, <2>3
  <2>5. r.prrOut + r.cWnd - r.flight <= r.prrDelivered + SegmentSize
    BY <1>1, <1>2, <1>3, <1>4, <2>1, <2>2
  <2>6. r.ssThresh >= r.recoveryFlightSize =>
          r.flight <= r.ssThresh + SegmentSize /\ r.cWnd <= r.ssThresh + SegmentSize
    BY <1>1, <1>2, <1>3, <1>4, <2>1
  <2> QED
    BY <1>1, <2>1, <2>4, <2>5, <2>6
<1>8. ASSUME ~r.timedOut
      PROVE  /\ NotLost(r)
             /\ r.cong = "OPEN" \/ r.flight = 0 => r.cWnd >= SegmentSize
             /\ r.flight > 0 => r.retx
             /\ SegmentSize <= RWnd /\ r.unsent > 0 => r.flight > 0
  <2>1. NotLost(s) /\ (s.cong = "OPEN" \/ s.flight = 0 => s.cWnd >= SegmentSize) /\ ~s.timedOut
    BY <1>1, <1>8 DEF After
  <2>2. s.lost = 0 /\ r.lost = 0
    BY <1>1, <1>4, <2>1 DEF NotLost
  <2>3. r.cong = "CWR" => r.flight = r.toRecover + r.prrOut
    BY <1>1, <1>2, <1>4, <2>1 DEF NotLost
  <2>4. NotLost(r)
    BY <1>1, <2>1, <2>2, <2>3 DEF NotLost
  <2>5. r.flight = 0 => s.flight = 0 /\ n = 0
    BY <1>1, <1>2, <1>4
  <2>6. r.cong = "OPEN" \/ r.flight = 0 => r.cWnd >= SegmentSize
    BY <1>1, <2>1, <2>5
  <2>7. r.flight > 0 => s.flight > 0 \/ n > 0
    BY <1>1, <1>2, <1>4
  <2>8. r.flight > 0 => r.retx
    BY <1>1, <2>1, <2>7
  <2>9. SegmentSize <= RWnd /\ r.unsent > 0 => r.flight > 0
    BY <1>1, <1>2, <1>4, <2>1, <2>2, <2>5
  <2> QED
    BY <2>4, <2>6, <2>8, <2>9
<1>9. After(r)
  BY <1>5, <1>6, <1>7, <1>8 DEF After
<1>10. Resting(r)
  BY <1>1, <1>8, <1>9 DEF Resting
<1> QED
  BY <1>10 DEF r

LEMMA WriteRests ==
  ASSUME Resting(w), NEW segs \in 1 .. (TxBufferSize - UnAckDataCount(w) - w.unsent) \div SegmentSize,
         w' = [w EXCEPT !.unsent = @ + segs * SegmentSize,
                        !.sendPending = @ \/ AvailableWindow(w) > 0]
  PROVE  Resting(w')
<1> DEFINE s == w
           r == w'
<1>1. s \in Window /\ After(s)
  BY DEF Resting
<1>2. Fits(s)
  BY <1>1 DEF After, Fits
<1>3. /\ Fits(r)
      /\ r.unsent \in Nat /\ r.unsent >= s.unsent
      /\ r.sendPending = (s.sendPending \/ AvailableWindow(s) > 0)
      /\ r.flight = s.flight /\ r.lost = s.lost
      /\ r.cong = s.cong /\ r.cWnd = s.cWnd /\ r.ssThresh = s.ssThresh
      /\ r.toRecover = s.toRecover /\ r.prrOut = s.prrOut
      /\ r.prrDelivered = s.prrDelivered
      /\ r.recoveryFlightSize = s.recoveryFlightSize /\ r.retx = s.retx
      /\ r.share = s.share /\ r.timedOut = s.timedOut
  BY <1>2, WriteFits
<1>4. ~s.timedOut => /\ NotLost(s) /\ (s.flight = 0 => s.cWnd >= SegmentSize)
                     /\ s.flight > 0 => s.retx
  BY <1>1 DEF Resting, After
<1>5. SegmentSize \in Nat \ {0} /\ RWnd \in Nat \ {0} /\ s.flight \in Nat /\ s.cWnd \in Nat
  BY <1>1, WindowAssumption DEF Window
<1>6. s.flight = 0 /\ s.cWnd >= SegmentSize => AvailableWindow(s) > 0
  BY <1>5 DEF AvailableWindow, Larger, Smaller
<1> HIDE DEF s, r
<1>7. ~r.sendPending => ~(AvailableWindow(s) > 0)
  BY <1>3
<1>8. ~r.timedOut => NotLost(r)
  BY <1>3, <1>4 DEF NotLost
<1>9. After(r)
  <2>1. r.flight + r.lost + r.unsent <= TxBufferSize
    BY <1>3 DEF Fits
  <2>2. ~r.share
    BY <1>1, <1>3 DEF After
  <2>3. r.cong = "CWR" =>
          /\ r.toRecover >= 0 /\ r.prrDelivered + r.toRecover <= 2 * TxBufferSize
          /\ r.prrOut <= r.prrDelivered + SegmentSize
          /\ r.prrOut + r.cWnd - r.flight <= r.prrDelivered + SegmentSize
          /\ r.ssThresh >= r.recoveryFlightSize =>
               r.flight <= r.ssThresh + SegmentSize /\ r.cWnd <= r.ssThresh + SegmentSize
    BY <1>1, <1>3 DEF After
  <2>4. ~r.timedOut => (r.cong = "OPEN" \/ r.flight = 0 => r.cWnd >= SegmentSize)
    BY <1>1, <1>3 DEF After
  <2> QED
    BY <1>8, <2>1, <2>2, <2>3, <2>4 DEF After
<1>10. ~r.timedOut => /\ r.flight > 0 => r.retx
                      /\ ~r.sendPending => r.flight > 0
  BY <1>3, <1>4, <1>5, <1>6, <1>7
<1>11. r \in Window
  BY <1>3 DEF Fits
<1>12. Resting(r)
  BY <1>9, <1>10, <1>11 DEF Resting
<1> QED
  BY <1>12 DEF r

LEMMA SendPendingRests ==
  ASSUME NEW s, Resting(s)
  PROVE  Resting(SendPendingData([s EXCEPT !.sendPending = FALSE]))
<1> DEFINE t == [s EXCEPT !.sendPending = FALSE]
<1>1. s \in Window /\ After(s) /\ (~s.timedOut => (s.flight > 0 => s.retx))
  BY DEF Resting
<1>2. /\ t \in Window
      /\ t.flight = s.flight /\ t.lost = s.lost /\ t.unsent = s.unsent
      /\ t.cong = s.cong /\ t.cWnd = s.cWnd /\ t.ssThresh = s.ssThresh
      /\ t.toRecover = s.toRecover /\ t.prrOut = s.prrOut /\ t.prrDelivered = s.prrDelivered
      /\ t.recoveryFlightSize = s.recoveryFlightSize /\ t.retx = s.retx
      /\ t.share = s.share /\ t.timedOut = s.timedOut
  BY <1>1 DEF Window
<1> HIDE DEF t
<1>3. After(t)
  BY <1>1, <1>2 DEF After, NotLost
<1>4. ~t.timedOut => (t.flight > 0 => t.retx)
  BY <1>1, <1>2
<1>5. Resting(SendPendingData(t))
  BY <1>2, <1>3, <1>4, SendRests
<1> QED
  BY <1>5 DEF t

LEMMA ExpireRests ==
  ASSUME NEW s, Resting(s), NEW alpha \in 0 .. AlphaSteps
  PROVE  Resting(SendPendingData(Expire(s, alpha)))
<1> DEFINE r == Expire(s, alpha)
<1>1. Fits(s) /\ ~s.share
  BY DEF Resting, After, Fits
<1>2. Fits(r) /\ r.cong = "LOSS" /\ r.timedOut /\ r.share = s.share
  BY <1>1, ExpireType
<1> HIDE DEF r
<1>3. r \in Window /\ After(r)
  BY <1>1, <1>2 DEF Fits, After
<1>4. Resting(SendPendingData(r))
  BY <1>2, <1>3, SendRests
<1> QED
  BY <1>4 DEF r

LEMMA ReceivedAckRests ==
  ASSUME BufferFits, NEW s, Resting(s), NEW segs \in 1 .. UnAckDataCount(s) \div SegmentSize,
         NEW ece \in BOOLEAN, NEW alpha \in 0 .. AlphaSteps
  PROVE  Resting(ReceivedAck(s, segs * SegmentSize, ece, alpha))
<1> DEFINE bytes == segs * SegmentSize
           l == LeaveCwr(Discard(s, bytes))
           e == EcnEcho(l, ece, alpha, bytes)
           p == ProcessAck(e, bytes)
           q == NewAck(p)
<1>1. s \in Window
  BY DEF Resting
<1>2. bytes \in Nat /\ bytes <= s.flight + s.lost /\ bytes >= SegmentSize
      /\ bytes \div SegmentSize \in Nat \ {0}
  BY <1>1, AckBounds
<1>3. ReceivedAck(s, bytes, ece, alpha) = SendPendingData(q)
  BY DEF ReceivedAck
<1> HIDE DEF bytes
<1>4. l \in Window /\ Before(l, bytes)
  BY <1>2, DiscardBefore
<1> HIDE DEF l
<1>5. e \in Window /\ Before(e, bytes)
  BY <1>2, <1>4, EcnEchoType, EcnEchoBefore
<1> HIDE DEF e
<1>6. p \in Window /\ After(p)
  BY <1>2, <1>5, ProcessAckType, ProcessAckAfter
<1> HIDE DEF p
<1>7. /\ q \in Window
      /\ q.flight = p.flight /\ q.lost = p.lost /\ q.unsent = p.unsent
      /\ q.toRecover = IF p.toRecover < 0 THEN -1 ELSE p.toRecover
      /\ q.cong = p.cong /\ q.cWnd = p.cWnd /\ q.ssThresh = p.ssThresh
      /\ q.prrOut = p.prrOut /\ q.prrDelivered = p.prrDelivered
      /\ q.recoveryFlightSize = p.recoveryFlightSize
      /\ q.share = p.share /\ q.timedOut = p.timedOut
      /\ p.flight > 0 => q.retx
  BY <1>6, NewAckType
<1> HIDE DEF q
<1>8. p.cong = "CWR" => q.toRecover = p.toRecover
  BY <1>6, <1>7 DEF After, Window
<1>9. After(q)
  BY <1>6, <1>7, <1>8 DEF After, NotLost
<1> QED
  BY <1>3, <1>7, <1>9, SendRests DEF bytes

\* Each event of the program ends with the sender at rest again.
LEMMA EventRests ==
  ASSUME BufferFits, Resting(w), Next
  PROVE  Resting(w')
<1>1. CASE Write
  BY <1>1, WriteRests DEF Write
<1>2. CASE ReceiveAck
  BY <1>2, ReceivedAckRests DEF ReceiveAck
<1>3. CASE ReTxTimeout
  BY <1>3, ExpireRests DEF ReTxTimeout
<1>4. CASE SendPendingEvent
  BY <1>4, SendPendingRests DEF SendPendingEvent
<1> QED
  BY <1>1, <1>2, <1>3, <1>4 DEF Next

\* A connection that was just established has nothing to send, so it rests.
LEMMA InitRests ==
  ASSUME BufferFits, Init
  PROVE  Resting(w)
<1>1. Fits(w) /\ w.cong = "OPEN" /\ w.cWnd >= SegmentSize /\ w.lost = 0 /\ w.flight = 0
      /\ w.unsent = 0 /\ ~w.share
  BY InitType
<1>2. NotLost(w) /\ ~(w.flight > 0) /\ ~(w.unsent > 0)
  BY <1>1 DEF NotLost
<1> QED
  BY <1>1, <1>2 DEF Resting, After, Fits

\* What the theorems below rest on: the sender rests between any two events.
LEMMA AlwaysResting == BufferFits => (Spec => []Resting(w))
<1> SUFFICES ASSUME BufferFits PROVE Spec => []Resting(w)
  OBVIOUS
<1>1. Resting(w) /\ Next => Resting(w)'
  <2> SUFFICES ASSUME Resting(w), Next PROVE Resting(w')
    OBVIOUS
  <2> QED
    BY EventRests
<1>2. Resting(w) /\ UNCHANGED vars => Resting(w)'
  BY DEF vars
<1>3. Init => Resting(w)
  BY InitRests
<1> QED
  BY <1>1, <1>2, <1>3, PTL DEF Spec

\* What a reduction has counted as delivered, and the most that the ACKs still to come
\* in it can add, are at most twice the buffer.
DeliveredIsBounded ==
  w.cong = "CWR" => w.toRecover >= 0 /\ w.prrDelivered + w.toRecover <= 2 * TxBufferSize

\* If twice the buffer fits a word, m_prrDelivered does not wrap in a reduction, and
\* the share of PRR is used only with a threshold below the flight size at the start
\* of the reduction, which it divides by and which is then not zero (EnterCwr,
\* DoRecovery).  The product of 32 bits may still wrap: see ShareIsLess.
THEOREM ShareIsReduction == BufferFits => (Spec => [](ShareReduces /\ DeliveredIsBounded))
<1>1. Resting(w) => ShareReduces /\ DeliveredIsBounded
  BY DEF Resting, After, ShareReduces, DeliveredIsBounded
<1> QED
  BY <1>1, AlwaysResting, PTL

\* With such a buffer a reduction of the window never sends more than was delivered
\* during it and the one segment DoRecovery forces out.
THEOREM ReductionSendsWhatLeaves == BufferFits => (Spec => []SendsWhatLeaves)
<1>1. Resting(w) => SendsWhatLeaves
  BY DEF Resting, After, SendsWhatLeaves
<1> QED
  BY <1>1, AlwaysResting, PTL

\* With such a buffer, and a peer whose window holds a segment, data waits before the
\* first timeout only while the timer runs for a segment in flight.
THEOREM WaitsForAnAck ==
  BufferFits /\ SegmentSize <= RWnd => (Spec => []WaitsBeforeTimeout)
<1> SUFFICES ASSUME BufferFits, SegmentSize <= RWnd PROVE Spec => []WaitsBeforeTimeout
  OBVIOUS
<1>1. Resting(w) => WaitsBeforeTimeout
  BY DEF Resting, WaitsBeforeTimeout, Waits
<1> QED
  BY <1>1, AlwaysResting, PTL
=============================================================================
