------------------------- MODULE TcpTxBufferProofs -------------------------
(* Theorems about the operators of TcpTxBuffer, for every value of its     *)
(* constants: each keeps the scoreboard sound and the totals in step.      *)
EXTENDS TcpTxBuffer, FiniteSetTheorems, WellFoundedInduction, TLAPS

\* The scoreboard describes the list of sent segments.
Placed(b) ==
  /\ b.una <= b.nxt
  /\ b.nxt <= b.tail
  /\ b.sacked \cup b.lost \cup b.retrans \subseteq Sent(b)
  /\ b.sacked \cap b.lost = {}
  /\ b.una \notin b.sacked
  /\ b.highestSack # None => b.una < b.highestSack /\ b.highestSack < b.nxt

\* The totals are the numbers of flags.
Counted(b) ==
  /\ b.sackedOut = Cardinality(b.sacked)
  /\ b.lostOut = Cardinality(b.lost)
  /\ b.retransOut = Cardinality(b.retrans)

BufferOK(b) == b \in Buffer /\ Placed(b) /\ Counted(b)

-----------------------------------------------------------------------------
(* Sets of segments *)

LEMMA SegFinite ==
  ASSUME NEW S \in SUBSET Seg
  PROVE  IsFiniteSet(S) /\ Cardinality(S) \in Nat
<1>1. IsFiniteSet(Seg)
  BY FS_Interval, SeqAssumption DEF Seg
<1> QED
  BY <1>1, FS_Subset, FS_CardinalityType

LEMMA CountUnion ==
  ASSUME NEW S \in SUBSET Seg, NEW U \in SUBSET Seg, S \cap U = {}
  PROVE  Cardinality(S \cup U) = Cardinality(S) + Cardinality(U)
<1>1. /\ IsFiniteSet(S) /\ Cardinality(S) \in Nat
      /\ IsFiniteSet(U) /\ Cardinality(U) \in Nat
  BY SegFinite
<1>2. Cardinality(S \cup U) = Cardinality(S) + Cardinality(U) - Cardinality(S \cap U)
  BY <1>1, FS_Union
<1>3. Cardinality(S \cap U) = 0
  BY FS_EmptySet
<1> QED
  BY <1>1, <1>2, <1>3

LEMMA CountDifference ==
  ASSUME NEW S \in SUBSET Seg, NEW U
  PROVE  Cardinality(S \ U) = Cardinality(S) - Cardinality(S \cap U)
<1>1. (S \ U) \cup (S \cap U) = S /\ (S \ U) \cap (S \cap U) = {}
  OBVIOUS
<1>2. Cardinality(S) = Cardinality(S \ U) + Cardinality(S \cap U)
  BY <1>1, CountUnion
<1>3. Cardinality(S \ U) \in Nat /\ Cardinality(S \cap U) \in Nat
  BY SegFinite
<1> QED
  BY <1>2, <1>3

LEMMA CountOne ==
  ASSUME NEW S \in SUBSET Seg, NEW s \in Seg
  PROVE  /\ Cardinality(S \cup {s}) = IF s \in S THEN Cardinality(S) ELSE Cardinality(S) + 1
         /\ Cardinality(S \ {s}) = IF s \in S THEN Cardinality(S) - 1 ELSE Cardinality(S)
BY SegFinite, FS_AddElement, FS_RemoveElement

LEMMA MinIsMember ==
  ASSUME NEW S \in SUBSET Seg, S # {}
  PROVE  Min(S) \in S
<1>1. S \subseteq Nat
  BY DEF Seg
<1>2. PICK k \in S : \A j \in S : <<j, k>> \notin OpToRel(<, Nat)
  BY <1>1, WFMin, NatLessThanWellFounded, Zenon
<1>3. \A j \in S : ~(j < k)
  BY <1>1, <1>2, Zenon DEF OpToRel
<1>4. \A j \in S : k <= j
  BY <1>1, <1>3
<1> QED
  BY <1>4, Zenon DEF Min

LEMMA MaxIsMember ==
  ASSUME NEW S \in SUBSET Seg, S # {}
  PROVE  Max(S) \in S
<1> DEFINE T == {k \in Nat : MaxSeq - k \in S}
<1>1. PICK s \in S : TRUE
  OBVIOUS
<1>2. MaxSeq - s \in T
  BY SeqAssumption DEF Seg
<1>3. PICK k \in T : \A j \in T : <<j, k>> \notin OpToRel(<, Nat)
  BY <1>2, WFMin, NatLessThanWellFounded, Zenon
<1>4. \A j \in T : ~(j < k)
  BY <1>3, Zenon DEF OpToRel
<1>5. \A m \in S : MaxSeq - m \in T
  BY SeqAssumption DEF Seg
<1>6. \A m \in S : MaxSeq - k >= m
  BY <1>4, <1>5, SeqAssumption DEF Seg
<1>7. MaxSeq - k \in S
  OBVIOUS
<1> QED
  BY <1>6, <1>7, Zenon DEF Max

-----------------------------------------------------------------------------
(* The operators *)

LEMMA EmptyBufferOK == BufferOK(EmptyBuffer)
<1>1. EmptyBuffer \in Buffer
  BY SeqAssumption DEF EmptyBuffer, Buffer, SeqNum, Seg, None
<1>2. Placed(EmptyBuffer)
  BY DEF EmptyBuffer, Placed, Sent, None
<1>3. Counted(EmptyBuffer)
  BY FS_EmptySet DEF EmptyBuffer, Counted
<1> QED
  BY <1>1, <1>2, <1>3 DEF BufferOK

LEMMA AddOK ==
  ASSUME NEW b, BufferOK(b), b.tail <= MaxSeq
  PROVE  /\ BufferOK(Add(b))
         /\ Add(b).una = b.una /\ Add(b).nxt = b.nxt /\ Add(b).tail = b.tail + 1
         /\ Add(b).sacked = b.sacked /\ Add(b).lost = b.lost
<1> DEFINE c == Add(b)
<1>1. b \in Buffer /\ Placed(b) /\ Counted(b)
  BY DEF BufferOK
<1>2. /\ c \in Buffer
      /\ c.una = b.una /\ c.nxt = b.nxt /\ c.tail = b.tail + 1
      /\ c.sacked = b.sacked /\ c.lost = b.lost /\ c.retrans = b.retrans
      /\ c.highestSack = b.highestSack
      /\ c.sackedOut = b.sackedOut /\ c.lostOut = b.lostOut /\ c.retransOut = b.retransOut
  BY <1>1, SeqAssumption DEF Add, Buffer, SeqNum
<1> HIDE DEF c
<1>3. Placed(c)
  BY <1>1, <1>2 DEF Placed, Sent, Buffer, SeqNum
<1>4. Counted(c)
  BY <1>1, <1>2 DEF Counted
<1> QED
  BY <1>2, <1>3, <1>4 DEF BufferOK, c

\* What CopyFromSequence may be asked for.
Sendable(b, s) == s \in Sent(b) \/ (s = b.nxt /\ Unsent(b))

LEMMA SegOfList ==
  ASSUME NEW b, BufferOK(b)
  PROVE  /\ Sent(b) \subseteq Seg
         /\ Unsent(b) => b.nxt \in Seg
         /\ b.una \in SeqNum /\ b.nxt \in SeqNum /\ b.tail \in SeqNum
         /\ b.una <= b.nxt
BY SeqAssumption DEF BufferOK, Placed, Buffer, Sent, Unsent, SeqNum, Seg

LEMMA CopyFromSequenceOK ==
  ASSUME NEW b, BufferOK(b), NEW s, Sendable(b, s)
  PROVE  /\ BufferOK(CopyFromSequence(b, s))
         /\ CopyFromSequence(b, s).una = b.una
         /\ CopyFromSequence(b, s).nxt = IF s = b.nxt THEN b.nxt + 1 ELSE b.nxt
         /\ CopyFromSequence(b, s).tail = b.tail
         /\ CopyFromSequence(b, s).sacked = b.sacked
         /\ CopyFromSequence(b, s).lost = b.lost
         /\ s \in Seg
<1> DEFINE c == CopyFromSequence(b, s)
<1>1. b \in Buffer /\ Placed(b) /\ Counted(b)
  BY DEF BufferOK
<1>2. s \in Seg
  BY SegOfList DEF Sendable
<1>3. CASE s = b.nxt
  <2>1. b.nxt < b.tail
    BY <1>1, <1>3 DEF Sendable, Unsent, Sent, Buffer, SeqNum
  <2>2. c = [b EXCEPT !.nxt = b.nxt + 1]
    BY <1>3 DEF CopyFromSequence
  <2> HIDE DEF c
  <2>3. /\ c \in Buffer
        /\ c.una = b.una /\ c.nxt = b.nxt + 1 /\ c.tail = b.tail
        /\ c.sacked = b.sacked /\ c.lost = b.lost /\ c.retrans = b.retrans
        /\ c.highestSack = b.highestSack
        /\ c.sackedOut = b.sackedOut /\ c.lostOut = b.lostOut /\ c.retransOut = b.retransOut
    BY <1>1, <2>1, <2>2, SeqAssumption DEF Buffer, SeqNum
  <2>4. b.una \in Int /\ b.nxt \in Int /\ b.tail \in Int
    BY <1>1 DEF Buffer, SeqNum
  <2>5. Sent(b) \subseteq Sent(c)
    BY <2>3, <2>4 DEF Sent
  <2>6. b.highestSack # None => b.highestSack < b.nxt + 1
    BY <1>1, <2>4 DEF Placed, Buffer, None, Seg
  <2>7. Placed(c)
    BY <1>1, <2>1, <2>3, <2>4, <2>5, <2>6 DEF Placed
  <2>8. Counted(c)
    BY <1>1, <2>3 DEF Counted
  <2> QED
    BY <1>2, <1>3, <2>3, <2>7, <2>8 DEF BufferOK, c
<1>4. CASE s # b.nxt /\ s \in b.retrans
  BY <1>1, <1>2, <1>4 DEF CopyFromSequence, BufferOK
<1>5. CASE s # b.nxt /\ s \notin b.retrans
  <2>1. s \in Sent(b)
    BY <1>5 DEF Sendable
  <2>2. c = [b EXCEPT !.retrans = b.retrans \cup {s}, !.retransOut = b.retransOut + 1]
    BY <1>5 DEF CopyFromSequence
  <2>3. b.retrans \cup {s} \in SUBSET Seg /\ b.retransOut + 1 \in Int
    BY <1>1, <1>2 DEF Buffer
  <2> HIDE DEF c
  <2>4. /\ c \in Buffer
        /\ c.una = b.una /\ c.nxt = b.nxt /\ c.tail = b.tail
        /\ c.sacked = b.sacked /\ c.lost = b.lost /\ c.retrans = b.retrans \cup {s}
        /\ c.highestSack = b.highestSack
        /\ c.sackedOut = b.sackedOut /\ c.lostOut = b.lostOut
        /\ c.retransOut = b.retransOut + 1
    BY <1>1, <2>2, <2>3 DEF Buffer
  <2>5. Cardinality(b.retrans \cup {s}) = Cardinality(b.retrans) + 1
    BY <1>1, <1>2, <1>5, CountOne DEF Buffer
  <2>6. Placed(c)
    BY <1>1, <2>1, <2>4 DEF Placed, Sent
  <2>7. Counted(c)
    BY <1>1, <2>4, <2>5 DEF Counted
  <2> QED
    BY <1>2, <1>5, <2>4, <2>6, <2>7 DEF BufferOK, c
<1> QED
  BY <1>3, <1>4, <1>5

LEMMA UpdateLostCountOK ==
  ASSUME NEW b, BufferOK(b)
  PROVE  /\ BufferOK(UpdateLostCount(b))
         /\ UpdateLostCount(b).una = b.una /\ UpdateLostCount(b).nxt = b.nxt
         /\ UpdateLostCount(b).tail = b.tail
         /\ UpdateLostCount(b).sacked = b.sacked
<1> DEFINE now == {s \in b.una .. b.highestSack :
                     /\ s \notin b.sacked \cup b.lost
                     /\ Cardinality(b.sacked \cap (s .. b.highestSack)) >= DupThresh}
           c == UpdateLostCount(b)
<1>1. b \in Buffer /\ Placed(b) /\ Counted(b)
  BY DEF BufferOK
<1>2. now \subseteq Sent(b)
  BY <1>1 DEF Placed, Buffer, SeqNum, Seg, Sent, None
<1>3. now \subseteq Seg
  BY <1>2, SegOfList
<1>4. now \cap b.sacked = {} /\ now \cap b.lost = {}
  OBVIOUS
<1>5. c = [b EXCEPT !.lost = b.lost \cup now, !.lostOut = b.lostOut + Cardinality(now)]
  BY DEF UpdateLostCount
<1> HIDE DEF now, c
<1>6. b.lost \cup now \in SUBSET Seg /\ b.lostOut + Cardinality(now) \in Int
  BY <1>1, <1>3, SegFinite DEF Buffer
<1>7. /\ c \in Buffer
      /\ c.una = b.una /\ c.nxt = b.nxt /\ c.tail = b.tail
      /\ c.sacked = b.sacked /\ c.lost = b.lost \cup now /\ c.retrans = b.retrans
      /\ c.highestSack = b.highestSack
      /\ c.sackedOut = b.sackedOut /\ c.lostOut = b.lostOut + Cardinality(now)
      /\ c.retransOut = b.retransOut
  BY <1>1, <1>5, <1>6 DEF Buffer
<1>8. Cardinality(b.lost \cup now) = Cardinality(b.lost) + Cardinality(now)
  BY <1>1, <1>3, <1>4, CountUnion DEF Buffer
<1>9. Placed(c)
  BY <1>1, <1>2, <1>4, <1>7 DEF Placed, Sent
<1>10. Counted(c)
  BY <1>1, <1>7, <1>8 DEF Counted
<1> QED
  BY <1>7, <1>9, <1>10 DEF BufferOK, c

LEMMA UpdateOK ==
  ASSUME NEW b, BufferOK(b), NEW blocks, b.una \notin blocks
  PROVE  /\ BufferOK(Update(b, blocks))
         /\ Update(b, blocks).una = b.una /\ Update(b, blocks).nxt = b.nxt
         /\ Update(b, blocks).tail = b.tail
         /\ Update(b, blocks).sacked \subseteq b.sacked \cup blocks
<1> DEFINE new == NewlySacked(b, blocks)
           top == IF b.highestSack = None \/ b.highestSack <= Max(new) + 1
                  THEN Max(new) ELSE b.highestSack
           m == [b EXCEPT !.sacked = @ \cup new,
                          !.sackedOut = @ + Cardinality(new),
                          !.lost = @ \ new,
                          !.lostOut = @ - Cardinality(b.lost \cap new),
                          !.highestSack = IF @ = None \/ @ <= Max(new) + 1
                                          THEN Max(new) ELSE @]
<1>1. b \in Buffer /\ Placed(b) /\ Counted(b)
  BY DEF BufferOK
<1>2. CASE new = {}
  BY <1>1, <1>2 DEF Update, BufferOK
<1>3. CASE new # {}
  <2>1. /\ new \subseteq Sent(b) /\ new \subseteq blocks
        /\ new \cap b.sacked = {} /\ b.una \notin new
    BY DEF NewlySacked
  <2>2. new \in SUBSET Seg
    BY <2>1, SegOfList
  <2>3. Update(b, blocks) = UpdateLostCount(m)
    BY <1>3 DEF Update
  <2> HIDE DEF new
  <2>4. Max(new) \in new
    BY <1>3, <2>2, MaxIsMember
  <2>5. /\ top \in {None} \cup Seg
        /\ b.una < top /\ top < b.nxt
    <3>1. Max(new) \in Seg /\ b.una < Max(new) /\ Max(new) < b.nxt
      <4>1. \A s \in Sent(b) \ {b.una} : b.una < s /\ s < b.nxt
        BY <1>1 DEF Buffer, SeqNum, Sent
      <4> QED
        BY <2>1, <2>2, <2>4, <4>1
    <3>2. b.highestSack \in {None} \cup Seg
      BY <1>1 DEF Buffer
    <3>3. b.highestSack # None => b.una < b.highestSack /\ b.highestSack < b.nxt
      BY <1>1 DEF Placed
    <3>4. top = Max(new) \/ (top = b.highestSack /\ b.highestSack # None)
      OBVIOUS
    <3> HIDE DEF top
    <3> QED
      BY <3>1, <3>2, <3>3, <3>4
  <2>6. m = [b EXCEPT !.sacked = b.sacked \cup new,
                      !.sackedOut = b.sackedOut + Cardinality(new),
                      !.lost = b.lost \ new,
                      !.lostOut = b.lostOut - Cardinality(b.lost \cap new),
                      !.highestSack = top]
    OBVIOUS
  <2> HIDE DEF m, top
  <2>7. /\ b.sacked \cup new \in SUBSET Seg /\ b.lost \ new \in SUBSET Seg
        /\ b.lost \in SUBSET Seg /\ b.sacked \in SUBSET Seg
    BY <1>1, <2>2 DEF Buffer
  <2>8. /\ b.sackedOut + Cardinality(new) \in Int
        /\ b.lostOut - Cardinality(b.lost \cap new) \in Int
    BY <1>1, <2>2, SegFinite DEF Buffer
  <2>9. /\ m \in Buffer
        /\ m.una = b.una /\ m.nxt = b.nxt /\ m.tail = b.tail
        /\ m.sacked = b.sacked \cup new /\ m.lost = b.lost \ new
        /\ m.retrans = b.retrans /\ m.highestSack = top
        /\ m.sackedOut = b.sackedOut + Cardinality(new)
        /\ m.lostOut = b.lostOut - Cardinality(b.lost \cap new)
        /\ m.retransOut = b.retransOut
    BY <1>1, <2>5, <2>6, <2>7, <2>8 DEF Buffer
  <2>10. /\ Cardinality(b.sacked \cup new) = Cardinality(b.sacked) + Cardinality(new)
         /\ Cardinality(b.lost \ new) = Cardinality(b.lost) - Cardinality(b.lost \cap new)
    BY <2>1, <2>2, <2>7, CountUnion, CountDifference
  <2>11. Placed(m)
    BY <1>1, <2>1, <2>5, <2>9 DEF Placed, Sent
  <2>12. Counted(m)
    BY <1>1, <2>9, <2>10 DEF Counted
  <2>13. BufferOK(m)
    BY <2>9, <2>11, <2>12 DEF BufferOK
  <2> QED
    BY <2>1, <2>3, <2>9, <2>13, UpdateLostCountOK
<1> QED
  BY <1>2, <1>3

LEMMA DiscardUpToOK ==
  ASSUME NEW b, BufferOK(b), NEW a \in b.una .. b.nxt, a \notin b.sacked
  PROVE  /\ BufferOK(DiscardUpTo(b, a))
         /\ DiscardUpTo(b, a).una = a /\ DiscardUpTo(b, a).nxt = b.nxt
         /\ DiscardUpTo(b, a).tail = b.tail
         /\ DiscardUpTo(b, a).sacked \subseteq b.sacked
<1> DEFINE gone == b.una .. a - 1
           top == IF b.highestSack <= a THEN None ELSE b.highestSack
           c == DiscardUpTo(b, a)
<1>1. b \in Buffer /\ Placed(b) /\ Counted(b)
  BY DEF BufferOK
<1>2. /\ b.una \in Int /\ b.nxt \in Int /\ a \in Int /\ b.una <= a /\ a <= b.nxt
      /\ a \in SeqNum
  BY <1>1, SeqAssumption DEF Buffer, SeqNum
<1>3. CASE a <= b.una
  BY <1>1, <1>2, <1>3 DEF DiscardUpTo, BufferOK
<1>4. CASE b.una < a
  <2>1. c = [b EXCEPT !.una = a,
                      !.sacked = b.sacked \ gone,
                      !.sackedOut = b.sackedOut - Cardinality(b.sacked \cap gone),
                      !.lost = b.lost \ gone,
                      !.lostOut = b.lostOut - Cardinality(b.lost \cap gone),
                      !.retrans = b.retrans \ gone,
                      !.retransOut = b.retransOut - Cardinality(b.retrans \cap gone),
                      !.highestSack = top]
    BY <1>2, <1>4 DEF DiscardUpTo
  <2>2. /\ top \in {None} \cup Seg
        /\ top # None => a < top /\ top < b.nxt
    BY <1>1, <1>2 DEF Buffer, Placed, Seg, None
  <2>3. /\ b.sacked \in SUBSET Seg /\ b.lost \in SUBSET Seg /\ b.retrans \in SUBSET Seg
        /\ b.sackedOut \in Int /\ b.lostOut \in Int /\ b.retransOut \in Int
    BY <1>1 DEF Buffer
  <2>4. \A S \in SUBSET Seg : S \cap gone \in SUBSET Seg
    OBVIOUS
  <2>5. (Sent(b) \ gone) \subseteq a .. b.nxt - 1
    BY <1>2 DEF Sent
  <2> HIDE DEF gone, top, c
  <2>6. /\ b.sackedOut - Cardinality(b.sacked \cap gone) \in Int
        /\ b.lostOut - Cardinality(b.lost \cap gone) \in Int
        /\ b.retransOut - Cardinality(b.retrans \cap gone) \in Int
    BY <2>3, <2>4, SegFinite
  <2>7. /\ c \in Buffer
        /\ c.una = a /\ c.nxt = b.nxt /\ c.tail = b.tail
        /\ c.sacked = b.sacked \ gone /\ c.lost = b.lost \ gone
        /\ c.retrans = b.retrans \ gone /\ c.highestSack = top
        /\ c.sackedOut = b.sackedOut - Cardinality(b.sacked \cap gone)
        /\ c.lostOut = b.lostOut - Cardinality(b.lost \cap gone)
        /\ c.retransOut = b.retransOut - Cardinality(b.retrans \cap gone)
    BY <1>1, <1>2, <2>1, <2>2, <2>3, <2>6 DEF Buffer
  <2>8. /\ Cardinality(b.sacked \ gone) = Cardinality(b.sacked) - Cardinality(b.sacked \cap gone)
        /\ Cardinality(b.lost \ gone) = Cardinality(b.lost) - Cardinality(b.lost \cap gone)
        /\ Cardinality(b.retrans \ gone)
             = Cardinality(b.retrans) - Cardinality(b.retrans \cap gone)
    BY <2>3, CountDifference
  <2>9. c.sacked \cup c.lost \cup c.retrans \subseteq Sent(c)
    BY <1>1, <2>5, <2>7 DEF Placed, Sent
  <2>10. Placed(c)
    BY <1>1, <1>2, <2>2, <2>7, <2>9 DEF Placed
  <2>11. Counted(c)
    BY <1>1, <2>7, <2>8 DEF Counted
  <2> QED
    BY <2>7, <2>10, <2>11 DEF BufferOK, c
<1> QED
  BY <1>2, <1>3, <1>4

LEMMA MarkHeadAsLostOK ==
  ASSUME NEW b, BufferOK(b)
  PROVE  /\ BufferOK(MarkHeadAsLost(b))
         /\ MarkHeadAsLost(b).una = b.una /\ MarkHeadAsLost(b).nxt = b.nxt
         /\ MarkHeadAsLost(b).tail = b.tail
         /\ MarkHeadAsLost(b).sacked = b.sacked
<1> DEFINE c == MarkHeadAsLost(b)
           lostOut == IF b.una \in b.lost THEN b.lostOut ELSE b.lostOut + 1
           retransOut == IF b.una \in b.retrans THEN b.retransOut - 1 ELSE b.retransOut
<1>1. b \in Buffer /\ Placed(b) /\ Counted(b)
  BY DEF BufferOK
<1>2. CASE b.una = b.nxt
  BY <1>1, <1>2 DEF MarkHeadAsLost, BufferOK
<1>3. CASE b.una # b.nxt
  <2>1. b.una \in Sent(b)
    BY <1>1, <1>3 DEF Buffer, SeqNum, Placed, Sent
  <2>2. b.una \in Seg
    BY <2>1, SegOfList
  <2>3. c = [b EXCEPT !.lost = b.lost \cup {b.una}, !.lostOut = lostOut,
                      !.retrans = b.retrans \ {b.una}, !.retransOut = retransOut]
    BY <1>3 DEF MarkHeadAsLost
  <2>4. lostOut \in Int /\ retransOut \in Int
    BY <1>1 DEF Buffer
  <2>5. /\ b.lost \in SUBSET Seg /\ b.retrans \in SUBSET Seg
        /\ b.lost \cup {b.una} \in SUBSET Seg /\ b.retrans \ {b.una} \in SUBSET Seg
    BY <1>1, <2>2 DEF Buffer
  <2>6. /\ Cardinality(b.lost \cup {b.una}) = lostOut
        /\ Cardinality(b.retrans \ {b.una}) = retransOut
    <3>1. Cardinality(b.lost \cup {b.una})
            = IF b.una \in b.lost THEN Cardinality(b.lost) ELSE Cardinality(b.lost) + 1
      BY <2>2, <2>5, CountOne
    <3>2. Cardinality(b.retrans \ {b.una})
            = IF b.una \in b.retrans THEN Cardinality(b.retrans) - 1 ELSE Cardinality(b.retrans)
      BY <2>2, <2>5, CountOne
    <3>3. b.lostOut = Cardinality(b.lost) /\ b.retransOut = Cardinality(b.retrans)
      BY <1>1 DEF Counted
    <3> QED
      BY <3>1, <3>2, <3>3
  <2> HIDE DEF c, lostOut, retransOut
  <2>7. /\ c \in Buffer
        /\ c.una = b.una /\ c.nxt = b.nxt /\ c.tail = b.tail
        /\ c.sacked = b.sacked /\ c.lost = b.lost \cup {b.una}
        /\ c.retrans = b.retrans \ {b.una} /\ c.highestSack = b.highestSack
        /\ c.sackedOut = b.sackedOut /\ c.lostOut = lostOut /\ c.retransOut = retransOut
    BY <1>1, <2>3, <2>4, <2>5 DEF Buffer
  <2>8. Placed(c)
    BY <1>1, <2>1, <2>7 DEF Placed, Sent
  <2>9. Counted(c)
    BY <1>1, <2>6, <2>7 DEF Counted
  <2> QED
    BY <2>7, <2>8, <2>9 DEF BufferOK, c
<1> QED
  BY <1>2, <1>3

LEMMA SetSentListLostOK ==
  ASSUME NEW b, BufferOK(b)
  PROVE  /\ BufferOK(SetSentListLost(b))
         /\ SetSentListLost(b).una = b.una /\ SetSentListLost(b).nxt = b.nxt
         /\ SetSentListLost(b).tail = b.tail
         /\ SetSentListLost(b).sacked = b.sacked
         /\ SetSentListLost(b).lost = Sent(b) \ b.sacked
         /\ SetSentListLost(b).retrans = {}
         /\ SetSentListLost(b).retransOut = 0
         /\ SetSentListLost(b).highestSack = b.highestSack
         /\ SetSentListLost(b).sackedOut = b.sackedOut
         /\ SetSentListLost(b).lostOut = Cardinality(Sent(b) \ b.sacked)
<1> DEFINE c == SetSentListLost(b)
           left == Sent(b) \ b.sacked
<1>1. b \in Buffer /\ Placed(b) /\ Counted(b)
  BY DEF BufferOK
<1>2. left \in SUBSET Seg /\ left \subseteq Sent(b) /\ b.sacked \cap left = {}
  BY SegOfList
<1>3. c = [b EXCEPT !.retrans = {}, !.retransOut = 0,
                    !.lost = left, !.lostOut = Cardinality(left)]
  BY DEF SetSentListLost
<1> HIDE DEF c, left
<1>4. {} \in SUBSET Seg /\ 0 \in Int /\ Cardinality(left) \in Int
  BY <1>2, SegFinite
<1>5. /\ c \in Buffer
      /\ c.una = b.una /\ c.nxt = b.nxt /\ c.tail = b.tail
      /\ c.sacked = b.sacked /\ c.lost = left /\ c.retrans = {}
      /\ c.highestSack = b.highestSack
      /\ c.sackedOut = b.sackedOut /\ c.lostOut = Cardinality(left) /\ c.retransOut = 0
  BY <1>1, <1>2, <1>3, <1>4 DEF Buffer
<1>6. Placed(c)
  BY <1>1, <1>2, <1>5 DEF Placed, Sent
<1>7. Counted(c)
  BY <1>1, <1>5, FS_EmptySet DEF Counted
<1> QED
  BY <1>5, <1>6, <1>7 DEF BufferOK, c, left

\* What NextSeg may return: nothing, a listed segment the peer does not have, or
\* the first unsent one inside the window.
LEMMA NextSegOK ==
  ASSUME NEW b, BufferOK(b), NEW isRecovery \in BOOLEAN
  PROVE  \/ NextSeg(b, isRecovery) = None
         \/ /\ NextSeg(b, isRecovery) \in Sent(b) \ b.sacked
            /\ isRecovery \/ NextSeg(b, isRecovery) \in b.lost
         \/ /\ NextSeg(b, isRecovery) = b.nxt
            /\ Unsent(b) /\ b.nxt - b.una <= RWnd
<1> DEFINE fresh == {s \in Sent(b) : s \notin b.retrans \cup b.sacked}
           lost == fresh \cap b.lost
<1>1. fresh \in SUBSET Seg /\ lost \in SUBSET Seg
  BY SegOfList
<1>2. CASE lost # {}
  <2>1. NextSeg(b, isRecovery) = Min(lost)
    BY <1>2 DEF NextSeg
  <2>2. Min(lost) \in lost
    BY <1>1, <1>2, MinIsMember
  <2> QED
    BY <2>1, <2>2
<1>3. CASE lost = {} /\ Unsent(b)
  BY <1>3 DEF NextSeg
<1>4. CASE lost = {} /\ ~Unsent(b) /\ isRecovery /\ fresh # {}
  <2>1. NextSeg(b, isRecovery) = Min(fresh)
    BY <1>4 DEF NextSeg
  <2>2. Min(fresh) \in fresh
    BY <1>1, <1>4, MinIsMember
  <2> QED
    BY <1>4, <2>1, <2>2
<1>5. CASE lost = {} /\ ~Unsent(b) /\ ~(isRecovery /\ fresh # {})
  BY <1>5 DEF NextSeg
<1> QED
  BY <1>2, <1>3, <1>4, <1>5
=============================================================================
