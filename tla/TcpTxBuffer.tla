---------------------------- MODULE TcpTxBuffer ----------------------------
(***************************************************************************)
(* The transmission buffer of a TCP socket (tcp-tx-buffer.cc): the list of *)
(* segments sent and not yet acknowledged, the flags SACK processing keeps *)
(* on each of them, and the totals the rest of the socket reads instead of *)
(* walking the list.                                                       *)
(*                                                                         *)
(* Segment s occupies [s, s + 1) and is sent whole, so items are never     *)
(* split or merged.  SACK is on (the default), so the SACKs that a Reno    *)
(* connection guesses (AddRenoSack) do not occur.  Flags are sets of       *)
(* segments; totals are numbers, as in the code, to be compared with them. *)
(***************************************************************************)
EXTENDS Integers, FiniteSetsExt

CONSTANTS
  MaxSeq,     \* last segment the application writes
  RWnd,       \* m_rWnd: the window the peer advertises, in segments
  DupThresh   \* m_dupAckThresh

ASSUME SeqAssumption == MaxSeq \in Nat \ {0}
ASSUME RWndAssumption == RWnd \in Nat \ {0}
ASSUME DupThreshAssumption == DupThresh \in Nat \ {0}

Seg == 1 .. MaxSeq
SeqNum == 1 .. MaxSeq + 1
None == 0        \* no sequence number

Buffer ==
  [una: SeqNum, nxt: SeqNum,            \* m_firstByteSeq, + m_sentSize
   tail: SeqNum,                        \* m_firstByteSeq + m_size
   sacked: SUBSET Seg, lost: SUBSET Seg, retrans: SUBSET Seg,
   highestSack: {None} \cup Seg,
   sackedOut: Int, lostOut: Int, retransOut: Int]

EmptyBuffer ==
  [una |-> 1, nxt |-> 1, tail |-> 1, sacked |-> {}, lost |-> {}, retrans |-> {},
   highestSack |-> None, sackedOut |-> 0, lostOut |-> 0, retransOut |-> 0]

Sent(b) == b.una .. b.nxt - 1
Size(b) == b.tail - b.una

\* Add: the application writes one more segment.
Add(b) == [b EXCEPT !.tail = @ + 1]

\* Faulty variants, each written just before the definition it stands in for,
\* are what the properties are measured against.
CopyFromSequenceCountsAgain(b, s) ==
  IF s = b.nxt THEN [b EXCEPT !.nxt = @ + 1]
  ELSE [b EXCEPT !.retrans = @ \cup {s}, !.retransOut = @ + 1]

\* CopyFromSequence: a segment beyond the list moves into it, one in the list
\* becomes a retransmission.
CopyFromSequence(b, s) ==
  IF s = b.nxt THEN [b EXCEPT !.nxt = @ + 1]
  ELSE IF s \in b.retrans THEN b
  ELSE [b EXCEPT !.retrans = @ \cup {s}, !.retransOut = @ + 1]

\* Segments between una and m_highestSack with DupThresh SACKed ones above them.
UpdateLostCount(b) ==
  LET now == {s \in b.una .. b.highestSack :
                /\ s \notin b.sacked \cup b.lost
                /\ Cardinality(b.sacked \cap (s .. b.highestSack)) >= DupThresh}
  IN  [b EXCEPT !.lost = @ \cup now, !.lostOut = @ + Cardinality(now)]

NewlySacked(b, blocks) == (blocks \cap Sent(b)) \ b.sacked

UpdateKeepsLost(b, blocks) ==
  LET new == NewlySacked(b, blocks)
  IN  IF new = {} THEN b
      ELSE UpdateLostCount(
             [b EXCEPT !.sacked = @ \cup new, !.sackedOut = @ + Cardinality(new),
                       !.highestSack = Max(new)])

\* Update.  m_highestSack follows every newly SACKed item that is not more than
\* one item below it.
Update(b, blocks) ==
  LET new == NewlySacked(b, blocks)
  IN  IF new = {} THEN b
      ELSE UpdateLostCount(
             [b EXCEPT !.sacked = @ \cup new,
                       !.sackedOut = @ + Cardinality(new),
                       !.lost = @ \ new,
                       !.lostOut = @ - Cardinality(b.lost \cap new),
                       !.highestSack = IF @ = None \/ @ <= Max(new) + 1
                                       THEN Max(new) ELSE @])

DiscardUpToForgetsRetrans(b, a) ==
  LET gone == b.una .. a - 1
  IN  [b EXCEPT !.una = a,
                !.sacked = @ \ gone, !.sackedOut = @ - Cardinality(b.sacked \cap gone),
                !.lost = @ \ gone, !.lostOut = @ - Cardinality(b.lost \cap gone),
                !.retrans = @ \ gone,
                !.highestSack = IF @ <= a THEN None ELSE @]

DiscardUpTo(b, a) ==
  LET gone == b.una .. a - 1
  IN  IF a <= b.una THEN b
      ELSE [b EXCEPT
              !.una = a,
              !.sacked = @ \ gone, !.sackedOut = @ - Cardinality(b.sacked \cap gone),
              !.lost = @ \ gone, !.lostOut = @ - Cardinality(b.lost \cap gone),
              !.retrans = @ \ gone, !.retransOut = @ - Cardinality(b.retrans \cap gone),
              !.highestSack = IF @ <= a THEN None ELSE @]

\* MarkHeadAsLost; the head of a list is never SACKed.
MarkHeadAsLost(b) ==
  IF b.una = b.nxt THEN b
  ELSE [b EXCEPT !.lost = @ \cup {b.una},
                 !.lostOut = IF b.una \in b.lost THEN @ ELSE @ + 1,
                 !.retrans = @ \ {b.una},
                 !.retransOut = IF b.una \in b.retrans THEN @ - 1 ELSE @]

SetSentListLostKeepsRetrans(b) ==
  [b EXCEPT !.lost = Sent(b) \ b.sacked,
            !.lostOut = Cardinality(Sent(b) \ b.sacked)]

\* SetSentListLost (false), on a retransmission timeout.
SetSentListLost(b) ==
  [b EXCEPT !.retrans = {}, !.retransOut = 0,
            !.lost = Sent(b) \ b.sacked,
            !.lostOut = Cardinality(Sent(b) \ b.sacked)]

\* IsLost: of the flagged items at or after s, the first one is lost.
IsLost(b, s) ==
  /\ s < b.highestSack
  /\ \E t \in s .. b.nxt - 1 : t \in b.lost /\ (s .. t) \cap b.sacked = {}

IsRetransmittedDataAcked(b, s) == s \in Sent(b) /\ s \in b.retrans \ b.sacked

Unsent(b) == b.nxt < b.tail

NextSegIgnoresSack(b, isRecovery) ==
  LET fresh == Sent(b) \ b.retrans
      lost == fresh \cap b.lost
  IN  IF lost # {} THEN Min(lost)
      ELSE IF Unsent(b) THEN (IF b.nxt - b.una <= RWnd THEN b.nxt ELSE None)
      ELSE IF isRecovery /\ fresh # {} THEN Min(fresh)
      ELSE None

\* NextSeg, by its rules 1 to 3.
NextSeg(b, isRecovery) ==
  LET fresh == {s \in Sent(b) : s \notin b.retrans \cup b.sacked}
      lost == fresh \cap b.lost
  IN  IF lost # {} THEN Min(lost)
      ELSE IF Unsent(b) THEN (IF b.nxt - b.una <= RWnd THEN b.nxt ELSE None)
      ELSE IF isRecovery /\ fresh # {} THEN Min(fresh)
      ELSE None

SegLenIgnoresWindow(b, s) == 1

\* What NextSeg's seqHigh leaves of the segment it returns.
SegLen(b, s) == IF s = b.nxt /\ b.nxt - b.una = RWnd THEN 0 ELSE 1

BytesInFlight(b) == (b.nxt - b.una) - (b.sackedOut + b.lostOut) + b.retransOut
=============================================================================
