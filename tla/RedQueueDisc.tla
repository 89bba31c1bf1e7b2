---------------------------- MODULE RedQueueDisc ----------------------------
(***************************************************************************)
(* RedQueueDisc (red-queue-disc.cc) over its internal DropTail queue, as   *)
(* the DCTCP scripts configure it: packets as the unit, QW = 1 (so that    *)
(* the estimated average is the instantaneous length), Wait true, no       *)
(* adaptive variant.  Thresholds, LInterm and the ECN switches are         *)
(* parameters.                                                             *)
(*                                                                         *)
(* Probabilities are rationals with the denominator Whole.  The uniform    *)
(* variable is a choice wherever it can decide either way.                 *)
(***************************************************************************)
EXTENDS Integers, Sequences

CONSTANTS
  MinTh, MaxTh,   \* m_minTh, m_maxTh
  LInterm,        \* m_lInterm: 1 / m_curMaxP
  MaxSize,        \* of the disc, in packets
  Gentle,         \* m_isGentle
  UseEcn,         \* m_useEcn
  UseHardDrop     \* m_useHardDrop

ASSUME ThresholdAssumption ==
  /\ MinTh \in Nat \ {0} /\ MaxTh \in Nat \ {0} /\ MinTh <= MaxTh
  /\ LInterm \in Nat \ {0} /\ MaxSize \in Nat \ {0}
ASSUME SwitchAssumption ==
  Gentle \in BOOLEAN /\ UseEcn \in BOOLEAN /\ UseHardDrop \in BOOLEAN

ThDiff == IF MaxTh = MinTh THEN 1 ELSE MaxTh - MinTh
Whole == LInterm * MaxTh * ThDiff

ForcedTh == IF Gentle THEN 2 * MaxTh ELSE MaxTh

\* m_count matters only through count * p, which decides for certain from here.
CountCap == 2 * Whole

\* CalculatePNew below the forced threshold, times Whole.
CalculatePNew(avg) ==
  LET p == IF avg >= MaxTh
           THEN ((LInterm - 1) * avg + (2 - LInterm) * MaxTh) * ThDiff
           ELSE (avg - MinTh) * MaxTh
  IN  IF p > Whole THEN Whole ELSE p

\* ModifyP and the comparison with the uniform variable, which is above 0 and
\* below 1: what DropEarly can return when this is the count-th packet.
DropEarly(avg, count) ==
  LET p == CalculatePNew(avg)
  IN  IF count * p < Whole THEN {FALSE}
      ELSE IF (count + 1) * p >= 2 * Whole THEN {TRUE}
      ELSE BOOLEAN

EmptyDisc == [q |-> <<>>, count |-> 0, old |-> FALSE]

MarkableIfMarked(pkt) == pkt.ecn = "CE"

\* Ipv4QueueDiscItem::Mark: whether the packet carries CE afterwards.
Markable(pkt) == pkt.ecn # "NotECT"
MarkedInCopy(pkt) == pkt
Marked(pkt) == [pkt EXCEPT !.ecn = "CE"]

\* The internal queue takes the packet or drops it.
Append1(disc, pkt) ==
  IF Len(disc.q) < MaxSize THEN [disc EXCEPT !.q = Append(@, pkt)] ELSE disc

MarkOrDrop(disc, pkt, mayMark) ==
  IF mayMark /\ UseEcn /\ Markable(pkt) THEN Append1(disc, Marked(pkt)) ELSE disc

\* DoEnqueue: the discs it can leave.
DoEnqueue(disc, pkt) ==
  LET avg == Len(disc.q)
      count == IF disc.count < CountCap THEN disc.count + 1 ELSE CountCap
  IN  IF avg < MinTh \/ avg <= 1
      THEN {Append1([disc EXCEPT !.count = count, !.old = FALSE], pkt)}
      ELSE IF avg >= ForcedTh
      THEN {MarkOrDrop([disc EXCEPT !.count = count], pkt, ~UseHardDrop)}
      ELSE IF ~disc.old
      THEN {Append1([disc EXCEPT !.count = 1, !.old = TRUE], pkt)}
      ELSE {IF early THEN MarkOrDrop([disc EXCEPT !.count = 0], pkt, TRUE)
            ELSE Append1([disc EXCEPT !.count = count], pkt)
              : early \in DropEarly(avg, count)}
=============================================================================
