------------------------- MODULE TcpRxBufferProofs -------------------------
(***************************************************************************)
(* Theorems about TcpRxBuffer: what the stored packets and the SACK list   *)
(* are, and that the buffer implements ByteStream.                         *)
(***************************************************************************)
EXTENDS TcpRxBuffer, FiniteSetTheorems, WellFoundedInduction, TLAPS

-----------------------------------------------------------------------------
(* Loops: recursive functions over the blocks *)

LEMMA LeastNat ==
  ASSUME NEW T \in SUBSET Nat, T # {}
  PROVE  \E k \in T : \A j \in T : k <= j
<1>1. PICK k \in T : \A j \in T : <<j, k>> \notin OpToRel(<, Nat)
  BY WFMin, NatLessThanWellFounded, Zenon
<1>2. \A j \in T : ~(j < k)
  BY <1>1, Zenon DEF OpToRel
<1> QED
  BY <1>2

\* Induction up to n, on the set of the numbers that have a property.
LEMMA SetInduction ==
  ASSUME NEW n \in Nat, NEW G, 0 \in G,
         \A i \in 1 .. n : i - 1 \in G => i \in G
  PROVE  0 .. n \subseteq G
<1> DEFINE T == {i \in 0 .. n : i \notin G}
<1>1. T \in SUBSET Nat
  OBVIOUS
<1>2. SUFFICES ASSUME T # {} PROVE FALSE
  OBVIOUS
<1>3. PICK k \in T : \A j \in T : k <= j
  <2> HIDE DEF T
  <2> QED
    BY <1>1, <1>2, LeastNat
<1>4. k \in 1 .. n /\ k - 1 \notin T
  BY <1>3
<1> QED
  BY <1>3, <1>4

IsLoop(f, n, start, step) ==
  f[0] = start /\ \A i \in 1 .. n : f[i] = step[i][f[i - 1]]

\* A loop of n steps within S has the states it is written to have.
LEMMA LoopExists ==
  ASSUME NEW n \in Nat, NEW S, NEW start \in S, NEW step \in [1 .. n -> [S -> S]]
  PROVE  \E f \in [0 .. n -> S] : IsLoop(f, n, start, step)
<1> DEFINE G == {m \in 0 .. n : \E f \in [0 .. m -> S] : IsLoop(f, m, start, step)}
<1>1. 0 \in G
  <2> DEFINE f == [i \in 0 .. 0 |-> start]
  <2>1. f \in [0 .. 0 -> S] /\ IsLoop(f, 0, start, step)
    BY DEF IsLoop
  <2> HIDE DEF f
  <2>2. \E g \in [0 .. 0 -> S] : IsLoop(g, 0, start, step)
    BY <2>1
  <2> QED
    BY <2>2
<1>2. ASSUME NEW m \in 1 .. n, m - 1 \in G
      PROVE  m \in G
  <2>1. PICK g \in [0 .. m - 1 -> S] : IsLoop(g, m - 1, start, step)
    BY <1>2
  <2> DEFINE f == [i \in 0 .. m |-> IF i = m THEN step[m][g[m - 1]] ELSE g[i]]
  <2>2. step[m] \in [S -> S] /\ g[m - 1] \in S
    OBVIOUS
  <2>3. f \in [0 .. m -> S]
    BY <2>2
  <2>4. IsLoop(f, m, start, step)
    BY <2>1 DEF IsLoop
  <2> HIDE DEF f
  <2>5. \E h \in [0 .. m -> S] : IsLoop(h, m, start, step)
    BY <2>3, <2>4
  <2>6. m \in 0 .. n
    OBVIOUS
  <2> QED
    BY <2>5, <2>6
<1>3. 0 .. n \subseteq G
  <2> HIDE DEF G
  <2> QED
    BY <1>1, <1>2, SetInduction
<1>4. n \in G
  BY <1>3
<1> QED
  BY <1>4

-----------------------------------------------------------------------------
(* Blocks and bytes *)

Span(b) == b.head .. b.tail - 1

\* The bytes of the first n blocks.
Passed(q, n) == UNION {Span(q[k]) : k \in 1 .. n}

LEMMA BlockFacts ==
  ASSUME NEW b \in Block
  PROVE  /\ b.head \in Nat \ {0} /\ b.tail \in Nat \ {0} /\ b.head < b.tail
         /\ b.tail <= StreamEnd + 1
         /\ b = [head |-> b.head, tail |-> b.tail]
BY StreamAssumption DEF Block, SeqNum

LEMMA BlocksOf ==
  ASSUME NEW q \in Seq(Block)
  PROVE  \A k \in 1 .. Len(q) : /\ q[k] \in Block /\ q[k].head \in Int
                                 /\ q[k].tail \in Int /\ q[k].head < q[k].tail
<1> TAKE k \in 1 .. Len(q)
<1>1. q[k] \in Block
  OBVIOUS
<1> QED
  BY <1>1, BlockFacts

LEMMA BlockIs ==
  ASSUME NEW h \in Int, NEW t \in Int, 1 <= h, h < t, t <= StreamEnd + 1
  PROVE  [head |-> h, tail |-> t] \in Block
BY StreamAssumption DEF Block, SeqNum

LEMMA BytesArePassed ==
  ASSUME NEW q \in Seq(Block)
  PROVE  Bytes(q) = Passed(q, Len(q))
<1>1. ToSet(q) = {q[k] : k \in 1 .. Len(q)}
  BY DEF ToSet
<1> QED
  BY <1>1 DEF Bytes, Passed, Span

LEMMA InBytes ==
  ASSUME NEW q \in Seq(Block), NEW s
  PROVE  s \in Bytes(q) <=>
           s \in Int /\ \E k \in 1 .. Len(q) : q[k].head <= s /\ s < q[k].tail
<1>1. \A k \in 1 .. Len(q) : q[k].head \in Int /\ q[k].tail \in Int
  BY BlockFacts
<1>2. \A k \in 1 .. Len(q) :
        s \in q[k].head .. q[k].tail - 1 <=> s \in Int /\ q[k].head <= s /\ s < q[k].tail
  BY <1>1
<1> QED
  BY <1>2, BytesArePassed DEF Passed, Span

LEMMA PassedStep ==
  ASSUME NEW q, NEW n \in Nat \ {0}
  PROVE  Passed(q, n) = Passed(q, n - 1) \cup Span(q[n])
<1>1. 1 .. n = (1 .. n - 1) \cup {n}
  OBVIOUS
<1> QED
  BY <1>1 DEF Passed

LEMMA PassedNone ==
  ASSUME NEW q
  PROVE  Passed(q, 0) = {}
<1>1. 1 .. 0 = {}
  OBVIOUS
<1> QED
  BY <1>1 DEF Passed

LEMMA AppendBytes ==
  ASSUME NEW q \in Seq(Block), NEW b \in Block
  PROVE  /\ Append(q, b) \in Seq(Block)
         /\ Bytes(Append(q, b)) = Bytes(q) \cup Span(b)
<1> DEFINE r == Append(q, b)
           n == Len(q)
<1>1. /\ r \in Seq(Block) /\ Len(r) = n + 1 /\ n \in Nat /\ r[n + 1] = b
      /\ \A k \in 1 .. n : r[k] = q[k]
  OBVIOUS
<1> HIDE DEF r, n
<1>2. Passed(r, n) = Passed(q, n)
  BY <1>1 DEF Passed
<1>3. Passed(r, n + 1) = Passed(r, n) \cup Span(b)
  <2>1. n + 1 \in Nat \ {0} /\ (n + 1) - 1 = n
    BY <1>1
  <2> QED
    BY <1>1, <2>1, PassedStep
<1> QED
  BY <1>1, <1>2, <1>3, BytesArePassed DEF r, n

LEMMA NoBytes == <<>> \in Seq(Block) /\ Bytes(<<>>) = {}
<1>1. <<>> \in Seq(Block) /\ Len(<<>>) = 0
  OBVIOUS
<1> QED
  BY <1>1, BytesArePassed, PassedNone

LEMMA BytesFinite ==
  ASSUME NEW q \in Seq(Block)
  PROVE  Bytes(q) \subseteq 1 .. StreamEnd /\ IsFiniteSet(Bytes(q))
<1>1. Bytes(q) \subseteq 1 .. StreamEnd
  <2> SUFFICES ASSUME NEW s \in Bytes(q) PROVE s \in 1 .. StreamEnd
    OBVIOUS
  <2>1. PICK k \in 1 .. Len(q) : s \in Int /\ q[k].head <= s /\ s < q[k].tail
    BY InBytes
  <2>2. q[k] \in Block
    OBVIOUS
  <2>3. q[k].head \in Int /\ q[k].tail \in Int /\ 1 <= q[k].head /\ q[k].tail <= StreamEnd + 1
    BY <2>2, BlockFacts
  <2>4. StreamEnd \in Int
    BY StreamAssumption
  <2> QED
    BY <2>1, <2>3, <2>4
<1>2. IsFiniteSet(1 .. StreamEnd)
  BY FS_Interval, StreamAssumption
<1> QED
  BY <1>1, <1>2, FS_Subset

\* Bytes next to each other count.
LEMMA CountRange ==
  ASSUME NEW S, IsFiniteSet(S), NEW b \in Block, S \cap Span(b) = {}
  PROVE  /\ IsFiniteSet(S \cup Span(b))
         /\ Cardinality(S \cup Span(b)) = Cardinality(S) + Length(b)
<1>1. b.head \in Int /\ b.tail - 1 \in Int /\ b.head <= b.tail - 1
  BY BlockFacts
<1>2. IsFiniteSet(Span(b)) /\ Cardinality(Span(b)) = Length(b)
  <2>1. /\ IsFiniteSet(b.head .. b.tail - 1)
        /\ Cardinality(b.head .. b.tail - 1) = (b.tail - 1) - b.head + 1
    BY <1>1, FS_Interval
  <2> QED
    BY <2>1, BlockFacts DEF Span, Length
<1>3. Cardinality(S \cap Span(b)) = 0
  BY FS_EmptySet
<1>4. /\ IsFiniteSet(S \cup Span(b))
      /\ Cardinality(S \cup Span(b)) =
           Cardinality(S) + Cardinality(Span(b)) - Cardinality(S \cap Span(b))
  BY <1>2, FS_Union
<1>5. Cardinality(S) \in Nat /\ Length(b) \in Nat
  BY FS_CardinalityType, BlockFacts DEF Length
<1> QED
  BY <1>2, <1>3, <1>4, <1>5

-----------------------------------------------------------------------------
(* The inductive invariant *)

\* The position before the FIN, and the first byte that was not read.
Position == IF Finished THEN nextRxSeq - 1 ELSE nextRxSeq
Base == Position - availBytes

InOrder(blocks) ==
  \A j \in 1 .. Len(blocks) : \A i \in 1 .. j - 1 : blocks[i].tail <= blocks[j].head

\* What is held: bytes from the first that was not read on, up to the position
\* without a hole, within the window; the position is never left on a known FIN.
HeldOK ==
  /\ Position <= StreamEnd /\ Base >= 1
  /\ Bytes(data) \subseteq Base .. StreamEnd - 1
  /\ Base .. Position - 1 \subseteq Bytes(data)
  /\ Position \notin Bytes(data)
  /\ size = Cardinality(Bytes(data))
  /\ edge <= Base + MaxBuffer
  /\ \A s \in Bytes(data) : s < edge
  /\ GotFin => nextRxSeq # StreamEnd

RInv == TypeOK /\ InOrder(data) /\ SackListTrue /\ HeldOK

-----------------------------------------------------------------------------
(* Add: the packet is cut *)

Cuts == [head: Int, tail: Int, blocks: Seq(Block), size: Int]

\* The packet cut to the window.
Windowed(head, tail) ==
  LET h == Greater(head, nextRxSeq)
      t == IF data = <<>> THEN tail ELSE Lesser(tail, data[1].head + MaxBuffer)
  IN  [head |-> Lesser(h, t), tail |-> t, blocks |-> <<>>, size |-> size]

IsTrimWalk(f, start) ==
  f = [i \in 0 .. Len(data) |-> IF i = 0 THEN start ELSE Trim(f[i - 1], data[i])]
TrimWalk(start) == CHOOSE f : IsTrimWalk(f, start)

LEMMA TrimmedIsWalk ==
  ASSUME NEW head, NEW tail
  PROVE  Trimmed(head, tail) = TrimWalk(Windowed(head, tail))[Len(data)]
BY Zenon DEF Trimmed, TrimWalk, IsTrimWalk, Windowed

LEMMA WindowedOK ==
  ASSUME TypeOK, NEW head \in Int, NEW tail \in Int
  PROVE  LET w == Windowed(head, tail)
         IN  /\ w \in Cuts /\ w.blocks = <<>> /\ w.size = size
             /\ w.tail <= tail
             /\ w.head >= w.tail \/ (nextRxSeq <= w.head /\ head <= w.head)
<1>1. size \in Int /\ nextRxSeq \in Int /\ MaxBuffer \in Int /\ <<>> \in Seq(Block)
  BY BufferAssumption, StreamAssumption DEF TypeOK, SeqNum
<1>2. data # <<>> => data[1].head \in Int
  <2>1. data # <<>> => data[1] \in Block
    BY DEF TypeOK
  <2> QED
    BY <2>1, BlockFacts
<1>3. CASE data = <<>>
  BY <1>1, <1>3 DEF Windowed, Cuts, Greater, Lesser
<1>4. CASE data # <<>>
  BY <1>1, <1>2, <1>4 DEF Windowed, Cuts, Greater, Lesser
<1> QED
  BY <1>3, <1>4

LEMMA TrimOK ==
  ASSUME NEW seg \in Cuts, NEW i \in Block
  PROVE  /\ Trim(seg, i) \in Cuts
         /\ Trim(seg, i).head >= seg.head
         /\ Trim(seg, i).tail <= seg.tail
<1>1. /\ i.head \in Int /\ i.tail \in Int /\ i.head < i.tail /\ Length(i) \in Int
      /\ seg.head \in Int /\ seg.tail \in Int /\ seg.size \in Int /\ seg.blocks \in Seq(Block)
      /\ Append(seg.blocks, i) \in Seq(Block) /\ seg.size - Length(i) \in Int
  BY BlockFacts DEF Cuts, Length
<1>2. CASE i.head > seg.tail \/ i.tail <= seg.head
  <2> DEFINE r == Append(seg.blocks, i)
  <2>1. Trim(seg, i) = [seg EXCEPT !.blocks = r]
    BY <1>2 DEF Trim
  <2>2. r \in Seq(Block)
    BY <1>1
  <2> HIDE DEF r
  <2>3. seg \in Cuts
    OBVIOUS
  <2> QED
    BY <2>1, <2>2, <2>3 DEF Cuts
<1>3. CASE /\ ~(i.head > seg.tail \/ i.tail <= seg.head)
           /\ i.head > seg.head /\ i.tail < seg.tail
  <2>1. Trim(seg, i) = [seg EXCEPT !.size = seg.size - Length(i)]
    BY <1>3 DEF Trim
  <2> QED
    BY <1>1, <2>1 DEF Cuts
<1>4. CASE /\ ~(i.head > seg.tail \/ i.tail <= seg.head)
           /\ ~(i.head > seg.head /\ i.tail < seg.tail)
  <2> DEFINE h == IF i.head <= seg.head THEN i.tail ELSE seg.head
             t == IF i.tail >= seg.tail THEN i.head ELSE seg.tail
  <2>1. Trim(seg, i) = [seg EXCEPT !.blocks = Append(seg.blocks, i), !.head = h, !.tail = t]
    BY <1>4 DEF Trim
  <2>2. h \in Int /\ t \in Int /\ h >= seg.head /\ t <= seg.tail
    BY <1>1, <1>4
  <2> HIDE DEF h, t
  <2> QED
    BY <1>1, <2>1, <2>2 DEF Cuts
<1> QED
  BY <1>2, <1>3, <1>4

LEMMA TrimWalkExists ==
  ASSUME TypeOK, NEW start \in Cuts
  PROVE  IsTrimWalk(TrimWalk(start), start)
<1> DEFINE n == Len(data)
           step == [i \in 1 .. n |-> [seg \in Cuts |-> Trim(seg, data[i])]]
<1>0. n \in Nat
  BY DEF TypeOK
<1>1. \A i \in 1 .. n : data[i] \in Block
  BY DEF TypeOK
<1>2. step \in [1 .. n -> [Cuts -> Cuts]]
  BY <1>1, TrimOK
<1>3. PICK f \in [0 .. n -> Cuts] : IsLoop(f, n, start, step)
  <2> HIDE DEF step, n
  <2> QED
    BY <1>0, <1>2, LoopExists
<1>4. \A i \in 1 .. n : f[i] = Trim(f[i - 1], data[i])
  <2>1. \A i \in 1 .. n : f[i - 1] \in Cuts
    BY <1>1
  <2> QED
    BY <1>3, <2>1 DEF IsLoop
<1>5. f = [i \in 0 .. n |-> IF i = 0 THEN start ELSE Trim(f[i - 1], data[i])]
  <2> HIDE DEF step
  <2> QED
    BY <1>3, <1>4 DEF IsLoop
<1>6. IsTrimWalk(f, start)
  BY <1>5, Zenon DEF IsTrimWalk
<1> QED
  BY <1>6, Zenon DEF TrimWalk

LEMMA TrimWalkValues ==
  ASSUME TypeOK, NEW start \in Cuts
  PROVE  /\ TrimWalk(start)[0] = start
         /\ \A i \in 1 .. Len(data) :
              TrimWalk(start)[i] = Trim(TrimWalk(start)[i - 1], data[i])
<1> DEFINE f == TrimWalk(start)
<1>1. f = [i \in 0 .. Len(data) |-> IF i = 0 THEN start ELSE Trim(f[i - 1], data[i])]
  BY TrimWalkExists, Zenon DEF IsTrimWalk
<1>2. Len(data) \in Nat
  BY DEF TypeOK
<1> HIDE DEF f
<1>3. f[0] = start /\ \A i \in 1 .. Len(data) : f[i] = Trim(f[i - 1], data[i])
  BY <1>1, <1>2
<1> QED
  BY <1>3 DEF f

\* A stored block and what is left of the packet do not meet.
Apart(b, seg) == b.tail <= seg.head \/ seg.tail <= b.head

\* The cut after the first n blocks of q: what it lost is stored.
CutOK(seg, q, n) ==
  /\ seg \in Cuts
  /\ InOrder(seg.blocks)
  /\ \A k \in 1 .. Len(seg.blocks) :
       Apart(seg.blocks[k], seg) /\ \E j \in 1 .. n : seg.blocks[k] = q[j]
  /\ \A s \in Passed(q, n) : s \in Bytes(seg.blocks) \/ (seg.head <= s /\ s < seg.tail)
  /\ seg.size + Cardinality(Passed(q, n)) = size + Cardinality(Bytes(seg.blocks))

LEMMA PassedInSpan ==
  ASSUME NEW q \in Seq(Block), NEW n \in 0 .. Len(q)
  PROVE  /\ \A s : s \in Passed(q, n) <=>
                     s \in Int /\ \E k \in 1 .. n : q[k].head <= s /\ s < q[k].tail
         /\ IsFiniteSet(Passed(q, n))
<1>1. \A k \in 1 .. n : q[k] \in Block
  OBVIOUS
<1>2. \A k \in 1 .. n : q[k].head \in Int /\ q[k].tail \in Int
  BY <1>1, BlockFacts
<1>3. ASSUME NEW s
      PROVE  s \in Passed(q, n) <=>
               s \in Int /\ \E k \in 1 .. n : q[k].head <= s /\ s < q[k].tail
  <2>1. \A k \in 1 .. n :
          s \in q[k].head .. q[k].tail - 1 <=> s \in Int /\ q[k].head <= s /\ s < q[k].tail
    BY <1>2
  <2> QED
    BY <2>1 DEF Passed, Span
<1>4. Passed(q, n) \subseteq 1 .. StreamEnd
  <2> SUFFICES ASSUME NEW s \in Passed(q, n) PROVE s \in 1 .. StreamEnd
    OBVIOUS
  <2>1. PICK k \in 1 .. n : s \in Int /\ q[k].head <= s /\ s < q[k].tail
    BY <1>3
  <2> QED
    BY <1>1, <2>1, BlockFacts, StreamAssumption
<1>5. IsFiniteSet(Passed(q, n))
  <2>1. IsFiniteSet(1 .. StreamEnd)
    BY FS_Interval, StreamAssumption
  <2> QED
    BY <1>4, <2>1, FS_Subset
<1> QED
  BY <1>3, <1>5

LEMMA PassedCount ==
  ASSUME NEW q \in Seq(Block), InOrder(q), NEW n \in 1 .. Len(q)
  PROVE  /\ Passed(q, n) = Passed(q, n - 1) \cup Span(q[n])
         /\ Passed(q, n - 1) \cap Span(q[n]) = {}
         /\ Cardinality(Passed(q, n - 1)) \in Nat
         /\ Cardinality(Passed(q, n)) = Cardinality(Passed(q, n - 1)) + Length(q[n])
<1>1. /\ n \in Nat \ {0} /\ n - 1 \in 0 .. Len(q) /\ q[n] \in Block
      /\ \A k \in 1 .. n - 1 : q[k] \in Block /\ q[k].tail <= q[n].head
  BY DEF InOrder
<1>2. \A k \in 1 .. n - 1 : q[k].tail \in Int
  BY <1>1, BlockFacts
<1>3. q[n].head \in Int /\ q[n].tail \in Int
  BY <1>1, BlockFacts
<1>4. Passed(q, n - 1) \cap Span(q[n]) = {}
  <2>1. \A s \in Passed(q, n - 1) : s \in Int /\ s < q[n].head
    BY <1>1, <1>2, <1>3, PassedInSpan
  <2>2. \A s \in Span(q[n]) : s \in Int /\ q[n].head <= s
    BY <1>3 DEF Span
  <2> QED
    BY <1>3, <2>1, <2>2
<1>5. Passed(q, n) = Passed(q, n - 1) \cup Span(q[n])
  BY <1>1, PassedStep
<1>6. IsFiniteSet(Passed(q, n - 1))
  BY <1>1, PassedInSpan
<1>7. Cardinality(Passed(q, n - 1)) \in Nat
  BY <1>6, FS_CardinalityType
<1> QED
  BY <1>1, <1>4, <1>5, <1>6, <1>7, CountRange

LEMMA TrimKeeps ==
  ASSUME TypeOK, NEW q \in Seq(Block), InOrder(q), NEW n \in 1 .. Len(q),
         NEW seg, CutOK(seg, q, n - 1)
  PROVE  CutOK(Trim(seg, q[n]), q, n)
<1> DEFINE i == q[n]
           new == Trim(seg, i)
           all == Append(seg.blocks, i)
<1>1. /\ i \in Block /\ seg \in Cuts /\ seg.blocks \in Seq(Block) /\ InOrder(seg.blocks)
      /\ i.head \in Int /\ i.tail \in Int /\ i.head < i.tail /\ Length(i) = i.tail - i.head
      /\ seg.head \in Int /\ seg.tail \in Int /\ seg.size \in Int /\ size \in Nat
  BY BlockFacts DEF CutOK, Cuts, Length, TypeOK
<1>2. new \in Cuts
  BY <1>1, TrimOK
<1>3. \A k \in 1 .. Len(seg.blocks) :
        /\ seg.blocks[k] \in Block /\ seg.blocks[k].tail <= i.head
        /\ Apart(seg.blocks[k], seg)
        /\ \E j \in 1 .. n - 1 : seg.blocks[k] = q[j]
  <2> TAKE k \in 1 .. Len(seg.blocks)
  <2>1. Apart(seg.blocks[k], seg) /\ \E j \in 1 .. n - 1 : seg.blocks[k] = q[j]
    BY DEF CutOK
  <2>2. PICK j \in 1 .. n - 1 : seg.blocks[k] = q[j]
    BY <2>1
  <2>3. q[j].tail <= q[n].head /\ q[j] \in Block
    BY DEF InOrder
  <2> QED
    BY <2>1, <2>2, <2>3
<1>4. \A k \in 1 .. Len(seg.blocks) : seg.blocks[k].head \in Int /\ seg.blocks[k].tail \in Int
  <2>1. seg.blocks \in Seq(Block)
    BY <1>1
  <2> QED
    BY <2>1, BlocksOf
<1>5. /\ all \in Seq(Block) /\ Len(all) = Len(seg.blocks) + 1 /\ Len(seg.blocks) \in Nat
      /\ all[Len(all)] = i /\ \A k \in 1 .. Len(seg.blocks) : all[k] = seg.blocks[k]
      /\ Bytes(all) = Bytes(seg.blocks) \cup Span(i)
  BY <1>1, AppendBytes
<1>6. InOrder(all)
  <2> SUFFICES ASSUME NEW j \in 1 .. Len(all), NEW k \in 1 .. j - 1
               PROVE  all[k].tail <= all[j].head
    BY DEF InOrder
  <2>1. k \in 1 .. Len(seg.blocks) /\ all[k] = seg.blocks[k]
    BY <1>5
  <2>2. CASE j = Len(all)
    BY <1>3, <1>5, <2>1, <2>2
  <2>3. CASE j # Len(all)
    <3>1. j \in 1 .. Len(seg.blocks) /\ all[j] = seg.blocks[j]
      BY <1>5, <2>3
    <3> QED
      BY <1>1, <2>1, <3>1 DEF InOrder
  <2> QED
    BY <2>2, <2>3
<1>7. /\ Passed(q, n) = Passed(q, n - 1) \cup Span(i)
      /\ Passed(q, n - 1) \cap Span(i) = {}
      /\ Cardinality(Passed(q, n - 1)) \in Nat
      /\ Cardinality(Passed(q, n)) = Cardinality(Passed(q, n - 1)) + Length(i)
  BY PassedCount
<1>8. Bytes(seg.blocks) \subseteq Passed(q, n - 1)
  <2>1. ASSUME NEW s \in Bytes(seg.blocks) PROVE s \in Passed(q, n - 1)
    <3>1. PICK k \in 1 .. Len(seg.blocks) :
            s \in Int /\ seg.blocks[k].head <= s /\ s < seg.blocks[k].tail
      BY <1>1, <2>1, InBytes
    <3>2. \E j \in 1 .. n - 1 : q[j].head <= s /\ s < q[j].tail
      BY <1>3, <3>1
    <3>3. n - 1 \in 0 .. Len(q)
      OBVIOUS
    <3> QED
      BY <3>1, <3>2, <3>3, PassedInSpan
  <2> QED
    BY <2>1
<1>9. /\ Cardinality(Bytes(seg.blocks)) \in Nat
      /\ Cardinality(Bytes(all)) = Cardinality(Bytes(seg.blocks)) + Length(i)
  <2>1. IsFiniteSet(Bytes(seg.blocks))
    BY <1>1, BytesFinite
  <2>2. Bytes(seg.blocks) \cap Span(i) = {}
    BY <1>7, <1>8
  <2> QED
    BY <1>1, <1>5, <2>1, <2>2, CountRange, FS_CardinalityType
<1>10. \A s : s \in Span(i) <=> s \in Int /\ i.head <= s /\ s < i.tail
  BY <1>1 DEF Span
<1>11. /\ \A s \in Passed(q, n - 1) :
            s \in Int /\ (s \in Bytes(seg.blocks) \/ (seg.head <= s /\ s < seg.tail))
       /\ seg.size + Cardinality(Passed(q, n - 1)) = size + Cardinality(Bytes(seg.blocks))
  <2>1. n - 1 \in 0 .. Len(q)
    OBVIOUS
  <2> QED
    BY <2>1, PassedInSpan DEF CutOK
<1> HIDE DEF i, new, all
<1>12. CASE new = [seg EXCEPT !.size = seg.size - Length(i)] /\ i.head > seg.head /\ i.tail < seg.tail
  <2>1. /\ new.blocks = seg.blocks /\ new.head = seg.head /\ new.tail = seg.tail
        /\ new.size = seg.size - Length(i)
    BY <1>1, <1>12 DEF Cuts
  <2>2. \A k \in 1 .. Len(new.blocks) :
          Apart(new.blocks[k], new) /\ \E j \in 1 .. n : new.blocks[k] = q[j]
    BY <1>3, <2>1 DEF Apart
  <2>3. \A s \in Passed(q, n) : s \in Bytes(new.blocks) \/ (new.head <= s /\ s < new.tail)
    <3> SUFFICES ASSUME NEW s \in Passed(q, n)
                 PROVE  s \in Bytes(new.blocks) \/ (new.head <= s /\ s < new.tail)
      OBVIOUS
    <3>1. CASE s \in Passed(q, n - 1)
      BY <1>11, <2>1, <3>1
    <3>2. CASE s \in Span(i)
      <4>1. s \in Int /\ i.head <= s /\ s < i.tail
        BY <1>10, <3>2
      <4>2. seg.head <= s /\ s < seg.tail
        BY <1>1, <1>12, <4>1
      <4> QED
        BY <2>1, <4>2
    <3> QED
      BY <1>7, <3>1, <3>2
  <2>4. new.size + Cardinality(Passed(q, n)) = size + Cardinality(Bytes(new.blocks))
    <3> DEFINE c1 == Cardinality(Passed(q, n - 1))
               c2 == Cardinality(Bytes(seg.blocks))
    <3>1. c1 \in Int /\ Cardinality(Passed(q, n)) = c1 + Length(i)
      BY <1>7
    <3>2. c2 \in Int /\ Cardinality(Bytes(new.blocks)) = c2
      BY <1>9, <2>1
    <3>3. seg.size + c1 = size + c2
      BY <1>11
    <3>4. seg.size \in Int /\ size \in Int /\ Length(i) \in Int
      BY <1>1
    <3>5. new.size = seg.size - Length(i)
      BY <2>1
    <3> HIDE DEF c1, c2
    <3> QED
      BY <3>1, <3>2, <3>3, <3>4, <3>5
  <2> QED
    BY <1>1, <1>2, <2>1, <2>2, <2>3, <2>4 DEF CutOK, new, i
<1>13. ASSUME NEW h \in Int, NEW t \in Int,
              new = [seg EXCEPT !.blocks = all, !.head = h, !.tail = t],
              h >= seg.head, t <= seg.tail, h = seg.head \/ (h = i.tail /\ i.head <= seg.head),
              t = seg.tail \/ (t = i.head /\ i.tail >= seg.tail),
              i.tail <= h \/ t <= i.head
       PROVE  CutOK(new, q, n)
  <2>1. new.blocks = all /\ new.head = h /\ new.tail = t /\ new.size = seg.size
    BY <1>1, <1>13 DEF Cuts
  <2>2. \A k \in 1 .. Len(new.blocks) :
          Apart(new.blocks[k], new) /\ \E j \in 1 .. n : new.blocks[k] = q[j]
    <3> SUFFICES ASSUME NEW k \in 1 .. Len(all)
                 PROVE  Apart(all[k], new) /\ \E j \in 1 .. n : all[k] = q[j]
      BY <2>1
    <3>1. CASE k = Len(all)
      <4>1. n \in 1 .. n
        OBVIOUS
      <4> QED
        BY <1>5, <1>13, <2>1, <3>1, <4>1 DEF Apart, i
    <3>2. CASE k # Len(all)
      <4>1. k \in 1 .. Len(seg.blocks) /\ all[k] = seg.blocks[k]
        BY <1>5, <3>2
      <4>2. Apart(seg.blocks[k], seg) /\ \E j \in 1 .. n : seg.blocks[k] = q[j]
        BY <1>3, <4>1
      <4>3. Apart(seg.blocks[k], new)
        <5>1. /\ seg.blocks[k].head \in Int /\ seg.blocks[k].tail \in Int
              /\ seg.blocks[k].tail <= seg.head \/ seg.tail <= seg.blocks[k].head
          BY <1>4, <4>1, <4>2 DEF Apart
        <5>2. seg.blocks[k].tail <= h \/ t <= seg.blocks[k].head
          <6>1. /\ seg.head \in Int /\ seg.tail \in Int
                /\ h \in Int /\ t \in Int /\ h >= seg.head /\ t <= seg.tail
            BY <1>1, <1>13
          <6> QED
            <7>1. CASE seg.blocks[k].tail <= seg.head
              BY <5>1, <6>1, <7>1
            <7>2. CASE seg.tail <= seg.blocks[k].head
              BY <5>1, <6>1, <7>2
            <7> QED
              BY <5>1, <7>1, <7>2
        <5> QED
          BY <2>1, <5>2 DEF Apart
      <4> QED
        BY <4>1, <4>2, <4>3
    <3> QED
      BY <3>1, <3>2
  <2>3. \A s \in Passed(q, n) : s \in Bytes(new.blocks) \/ (new.head <= s /\ s < new.tail)
    <3> SUFFICES ASSUME NEW s \in Passed(q, n)
                 PROVE  s \in Bytes(all) \/ (h <= s /\ s < t)
      BY <2>1
    <3>1. CASE s \in Span(i)
      BY <1>5, <3>1
    <3>2. CASE s \notin Span(i)
      <4>1. /\ s \in Int /\ ~(i.head <= s /\ s < i.tail)
            /\ s \in Bytes(seg.blocks) \/ (seg.head <= s /\ s < seg.tail)
        BY <1>7, <1>10, <1>11, <3>2
      <4> QED
        <5>1. i.head \in Int /\ i.tail \in Int /\ seg.head \in Int /\ seg.tail \in Int
          BY <1>1
        <5>2. s \in Bytes(seg.blocks) => s \in Bytes(all)
          BY <1>5
        <5>3. /\ h = seg.head \/ (h = i.tail /\ i.head <= seg.head)
              /\ t = seg.tail \/ (t = i.head /\ i.tail >= seg.tail)
          BY <1>13
        <5>4. seg.head <= s /\ s < seg.tail => h <= s /\ s < t
          BY <4>1, <5>1, <5>3
        <5> QED
          BY <4>1, <5>2, <5>4
    <3> QED
      BY <3>1, <3>2
  <2>4. new.size + Cardinality(Passed(q, n)) = size + Cardinality(Bytes(new.blocks))
    <3>1. Cardinality(Bytes(new.blocks)) = Cardinality(Bytes(seg.blocks)) + Length(i)
      BY <1>9, <2>1
    <3>2. Length(i) \in Int
      BY <1>1
    <3> QED
      <4> DEFINE c1 == Cardinality(Passed(q, n - 1))
                 c2 == Cardinality(Bytes(seg.blocks))
      <4>1. /\ c1 \in Int /\ c2 \in Int /\ new.size = seg.size
            /\ seg.size \in Int /\ size \in Int
            /\ seg.size + c1 = size + c2
            /\ Cardinality(Passed(q, n)) = c1 + Length(i)
            /\ Cardinality(Bytes(new.blocks)) = c2 + Length(i)
        <5>1. c1 \in Int /\ c2 \in Int
          BY <1>7, <1>9
        <5>2. new.size = seg.size /\ seg.size \in Int /\ size \in Int
          BY <1>1, <2>1
        <5>3. seg.size + c1 = size + c2 /\ Cardinality(Passed(q, n)) = c1 + Length(i)
          BY <1>7, <1>11
        <5>4. Cardinality(Bytes(new.blocks)) = c2 + Length(i)
          BY <3>1
        <5> QED
          BY <5>1, <5>2, <5>3, <5>4
      <4> HIDE DEF c1, c2
      <4>2. seg.size + (c1 + Length(i)) = size + (c2 + Length(i))
        <5> DEFINE l == Length(i)
                   before == seg.size
        <5>1. /\ c1 \in Int /\ c2 \in Int /\ before \in Int /\ size \in Int /\ l \in Int
              /\ before + c1 = size + c2
          BY <3>2, <4>1
        <5> HIDE DEF l, before
        <5>2. before + (c1 + l) = size + (c2 + l)
          BY <5>1
        <5> QED
          BY <5>2 DEF l, before
      <4>3. /\ new.size = seg.size
            /\ Cardinality(Passed(q, n)) = c1 + Length(i)
            /\ Cardinality(Bytes(new.blocks)) = c2 + Length(i)
        BY <4>1
      <4> QED
        BY <4>2, <4>3, SMTT(20)
  <2> QED
    BY <1>2, <1>6, <2>1, <2>2, <2>3, <2>4 DEF CutOK
<1>14. CASE i.head > seg.tail \/ i.tail <= seg.head
  <2>1. new = [seg EXCEPT !.blocks = all]
    BY <1>14 DEF Trim, new, all
  <2>2. new = [seg EXCEPT !.blocks = all, !.head = seg.head, !.tail = seg.tail]
    BY <1>1, <2>1 DEF Cuts
  <2>3. CutOK(new, q, n)
    <3>1. /\ seg.head >= seg.head /\ seg.tail <= seg.tail
          /\ i.tail <= seg.head \/ seg.tail <= i.head
      BY <1>1, <1>14
    <3> QED
      BY <1>1, <1>13, <2>2, <3>1, Zenon
  <2> QED
    BY <2>3 DEF new, i
<1>15. CASE ~(i.head > seg.tail \/ i.tail <= seg.head) /\ ~(i.head > seg.head /\ i.tail < seg.tail)
  <2> DEFINE h == IF i.head <= seg.head THEN i.tail ELSE seg.head
             t == IF i.tail >= seg.tail THEN i.head ELSE seg.tail
  <2>1. new = [seg EXCEPT !.blocks = all, !.head = h, !.tail = t]
    BY <1>15 DEF Trim, new, all
  <2>2. /\ h \in Int /\ t \in Int /\ h >= seg.head /\ t <= seg.tail
        /\ h = seg.head \/ (h = i.tail /\ i.head <= seg.head)
        /\ t = seg.tail \/ (t = i.head /\ i.tail >= seg.tail)
        /\ i.tail <= h \/ t <= i.head
    BY <1>1, <1>15
  <2> HIDE DEF h, t
  <2>3. CutOK(new, q, n)
    BY <1>13, <2>1, <2>2
  <2> QED
    BY <2>3 DEF new, i
<1> QED
  <2>1. CASE /\ ~(i.head > seg.tail \/ i.tail <= seg.head)
             /\ i.head > seg.head /\ i.tail < seg.tail
    <3>1. new = [seg EXCEPT !.size = seg.size - Length(i)]
      BY <2>1 DEF Trim, new
    <3> QED
      BY <1>12, <2>1, <3>1 DEF new, i
  <2> QED
    BY <1>14, <1>15, <2>1

\* What a stored block cuts off the packet is in the block.
LEMMA TrimCovers ==
  ASSUME NEW seg \in Cuts, NEW i \in Block, NEW s \in Int, seg.head <= s, s < seg.tail
  PROVE  s \in Span(i) \/ (Trim(seg, i).head <= s /\ s < Trim(seg, i).tail)
<1>1. /\ i.head \in Int /\ i.tail \in Int /\ seg.head \in Int /\ seg.tail \in Int
      /\ s \in Span(i) <=> i.head <= s /\ s < i.tail
  BY BlockFacts DEF Cuts, Span
<1>2. CASE i.head > seg.tail \/ i.tail <= seg.head
  <2>1. Trim(seg, i) = [seg EXCEPT !.blocks = Append(seg.blocks, i)]
    BY <1>2 DEF Trim
  <2> QED
    BY <2>1 DEF Cuts
<1>3. CASE /\ ~(i.head > seg.tail \/ i.tail <= seg.head)
           /\ i.head > seg.head /\ i.tail < seg.tail
  <2>1. Trim(seg, i) = [seg EXCEPT !.size = seg.size - Length(i)]
    BY <1>3 DEF Trim
  <2> QED
    BY <2>1 DEF Cuts
<1>4. CASE /\ ~(i.head > seg.tail \/ i.tail <= seg.head)
           /\ ~(i.head > seg.head /\ i.tail < seg.tail)
  <2> DEFINE h == IF i.head <= seg.head THEN i.tail ELSE seg.head
             t == IF i.tail >= seg.tail THEN i.head ELSE seg.tail
  <2>1. Trim(seg, i) = [seg EXCEPT !.blocks = Append(seg.blocks, i), !.head = h, !.tail = t]
    BY <1>4 DEF Trim
  <2>2. s \in Span(i) \/ (h <= s /\ s < t)
    BY <1>1
  <2> HIDE DEF h, t
  <2>3. Trim(seg, i).head = h /\ Trim(seg, i).tail = t
    BY <2>1 DEF Cuts
  <2> QED
    BY <2>2, <2>3
<1> QED
  BY <1>2, <1>3, <1>4

\* A byte of the packet is stored already, or in what is left of it, unless it is
\* before the position or beyond the window.
LEMMA TrimmedCovers ==
  ASSUME TypeOK, NEW head \in Int, NEW tail \in Int,
         data # <<>> => tail <= data[1].head + MaxBuffer,
         NEW s \in head .. tail - 1, nextRxSeq <= s
  PROVE  s \in Bytes(data) \/ (Trimmed(head, tail).head <= s /\ s < Trimmed(head, tail).tail)
<1> DEFINE w == Windowed(head, tail)
           f == TrimWalk(w)
           seg == Trimmed(head, tail)
           n == Len(data)
           Left(i) == s \in Passed(data, i) \/ (f[i].head <= s /\ s < f[i].tail)
           G == {i \in 0 .. n : f[i] \in Cuts /\ Left(i)}
<1>1. w \in Cuts /\ w.head <= s /\ s < w.tail
  <2>1. w \in Cuts
    BY WindowedOK
  <2>2. nextRxSeq \in Int /\ MaxBuffer \in Int
    BY BufferAssumption, StreamAssumption DEF TypeOK, SeqNum
  <2>3. w.tail = tail
    <3>1. CASE data = <<>>
      BY <3>1 DEF Windowed
    <3>2. CASE data # <<>>
      <4>1. data[1] \in Block
        BY <3>2 DEF TypeOK
      <4>2. data[1].head + MaxBuffer \in Int
        BY <2>2, <4>1, BlockFacts
      <4> QED
        BY <3>2, <4>2 DEF Windowed, Lesser
    <3> QED
      BY <3>1, <3>2
  <2>4. w.head = Lesser(Greater(head, nextRxSeq), w.tail)
    BY DEF Windowed
  <2> QED
    BY <2>1, <2>2, <2>3, <2>4 DEF Lesser, Greater
<1>2. n \in Nat /\ s \in Int /\ \A i \in 1 .. n : data[i] \in Block
  BY DEF TypeOK
<1>3. f[0] = w /\ \A i \in 1 .. n : f[i] = Trim(f[i - 1], data[i])
  <2> HIDE DEF w
  <2> QED
    BY <1>1, TrimWalkValues
<1>4. seg = f[n]
  BY TrimmedIsWalk
<1> HIDE DEF w, f, seg, n
<1>5. 0 \in G
  BY <1>1, <1>2, <1>3
<1>6. ASSUME NEW i \in 1 .. n, i - 1 \in G PROVE i \in G
  <2>1. /\ f[i - 1] \in Cuts /\ Left(i - 1) /\ i \in Nat \ {0} /\ i \in 0 .. n
        /\ f[i] = Trim(f[i - 1], data[i]) /\ data[i] \in Block
    BY <1>2, <1>3, <1>6
  <2>2. f[i] \in Cuts
    BY <2>1, TrimOK
  <2>3. Passed(data, i) = Passed(data, i - 1) \cup Span(data[i])
    BY <2>1, PassedStep
  <2>4. CASE s \in Passed(data, i - 1)
    BY <2>1, <2>2, <2>3, <2>4
  <2>5. CASE f[i - 1].head <= s /\ s < f[i - 1].tail
    <3>1. s \in Span(data[i]) \/ (f[i].head <= s /\ s < f[i].tail)
      BY <1>2, <2>1, <2>5, TrimCovers
    <3> QED
      BY <2>1, <2>2, <2>3, <3>1
  <2> QED
    BY <2>1, <2>4, <2>5
<1>7. 0 .. n \subseteq G
  <2> HIDE DEF G
  <2> QED
    BY <1>2, <1>5, <1>6, SetInduction
<1>8. Left(n)
  BY <1>2, <1>7
<1>9. Passed(data, n) = Bytes(data)
  BY BytesArePassed DEF n, TypeOK
<1> QED
  BY <1>4, <1>8, <1>9 DEF seg

LEMMA TrimmedOK ==
  ASSUME TypeOK, InOrder(data), size = Cardinality(Bytes(data)),
         NEW head \in Int, NEW tail \in Int
  PROVE  LET seg == Trimmed(head, tail)
         IN  /\ seg \in Cuts /\ InOrder(seg.blocks)
             /\ \A k \in 1 .. Len(seg.blocks) : Apart(seg.blocks[k], seg)
             /\ Bytes(seg.blocks) \subseteq Bytes(data)
             /\ \A s \in Bytes(data) : s \in Bytes(seg.blocks) \/ (seg.head <= s /\ s < seg.tail)
             /\ seg.size = Cardinality(Bytes(seg.blocks))
             /\ seg.tail <= tail
             /\ seg.head >= seg.tail \/ (nextRxSeq <= seg.head /\ head <= seg.head)
<1> DEFINE w == Windowed(head, tail)
           f == TrimWalk(w)
           seg == Trimmed(head, tail)
           n == Len(data)
           G == {i \in 0 .. n : /\ CutOK(f[i], data, i)
                                /\ f[i].head >= w.head /\ f[i].tail <= w.tail}
<1>1. /\ w \in Cuts /\ w.blocks = <<>> /\ w.size = size /\ w.tail <= tail
      /\ w.head >= w.tail \/ (nextRxSeq <= w.head /\ head <= w.head)
      /\ w.head \in Int /\ w.tail \in Int
  BY WindowedOK DEF Cuts
<1>2. n \in Nat /\ data \in Seq(Block) /\ \A i \in 1 .. n : data[i] \in Block
  BY DEF TypeOK
<1>3. f[0] = w /\ \A i \in 1 .. n : f[i] = Trim(f[i - 1], data[i])
  <2> HIDE DEF w
  <2> QED
    BY <1>1, TrimWalkValues
<1>4. seg = f[n]
  BY TrimmedIsWalk
<1> HIDE DEF w, f, seg, n
<1>5. 0 \in G
  <2>1. InOrder(<<>>) /\ Len(<<>>) = 0
    BY DEF InOrder
  <2>2. Passed(data, 0) = {} /\ Bytes(w.blocks) = {}
    BY <1>1, PassedNone, NoBytes
  <2>3. w.size + Cardinality(Passed(data, 0)) = size + Cardinality(Bytes(w.blocks))
    BY <1>1, <2>2
  <2>4. CutOK(w, data, 0)
    BY <1>1, <2>1, <2>2, <2>3 DEF CutOK
  <2> QED
    BY <1>1, <1>2, <1>3, <2>4
<1>6. ASSUME NEW i \in 1 .. n, i - 1 \in G PROVE i \in G
  <2>1. /\ CutOK(f[i - 1], data, i - 1) /\ f[i - 1].head >= w.head /\ f[i - 1].tail <= w.tail
        /\ f[i] = Trim(f[i - 1], data[i]) /\ data[i] \in Block /\ i \in 0 .. n
    BY <1>2, <1>3, <1>6
  <2>2. CutOK(f[i], data, i)
    BY <1>2, <2>1, TrimKeeps DEF n
  <2>3. f[i - 1] \in Cuts /\ f[i].head >= f[i - 1].head /\ f[i].tail <= f[i - 1].tail
    BY <2>1, TrimOK DEF CutOK
  <2>4. f[i].head \in Int /\ f[i].tail \in Int /\ f[i - 1].head \in Int /\ f[i - 1].tail \in Int
    BY <2>2, <2>3 DEF CutOK, Cuts
  <2>5. f[i].head >= w.head /\ f[i].tail <= w.tail
    BY <1>1, <2>1, <2>3, <2>4
  <2> QED
    BY <2>1, <2>2, <2>5
<1>7. n \in G
  <2>1. 0 .. n \subseteq G
    <3> HIDE DEF G
    <3> QED
      BY <1>2, <1>5, <1>6, SetInduction
  <2> QED
    BY <1>2, <2>1
<1>8. CutOK(seg, data, n) /\ seg.head >= w.head /\ seg.tail <= w.tail
  BY <1>4, <1>7
<1>9. seg.head \in Int /\ seg.tail \in Int /\ seg.blocks \in Seq(Block) /\ seg.size \in Int
  BY <1>8 DEF CutOK, Cuts
<1>10. Passed(data, n) = Bytes(data)
  BY <1>2, BytesArePassed DEF n
<1>11. Bytes(seg.blocks) \subseteq Bytes(data)
  <2> SUFFICES ASSUME NEW s \in Bytes(seg.blocks) PROVE s \in Bytes(data)
    OBVIOUS
  <2>1. PICK k \in 1 .. Len(seg.blocks) :
          s \in Int /\ seg.blocks[k].head <= s /\ s < seg.blocks[k].tail
    BY <1>9, InBytes
  <2>2. \E j \in 1 .. n : data[j].head <= s /\ s < data[j].tail
    BY <1>8, <2>1 DEF CutOK
  <2> QED
    BY <1>2, <2>1, <2>2, InBytes DEF n
<1>12. seg.size = Cardinality(Bytes(seg.blocks))
  <2>1. Cardinality(Bytes(seg.blocks)) \in Int /\ Cardinality(Bytes(data)) \in Int
    BY <1>2, <1>9, BytesFinite, FS_CardinalityType
  <2>2. seg.size + Cardinality(Bytes(data)) = size + Cardinality(Bytes(seg.blocks))
    BY <1>8, <1>10 DEF CutOK
  <2> QED
    BY <1>9, <2>1, <2>2
<1>13. seg.tail <= tail
  BY <1>1, <1>8, <1>9
<1>14. seg.head >= seg.tail \/ (nextRxSeq <= seg.head /\ head <= seg.head)
  <2>1. nextRxSeq \in Int
    BY StreamAssumption DEF TypeOK, SeqNum
  <2> QED
    BY <1>1, <1>8, <1>9, <2>1
<1>15. /\ seg \in Cuts /\ InOrder(seg.blocks)
       /\ \A k \in 1 .. Len(seg.blocks) : Apart(seg.blocks[k], seg)
       /\ \A s \in Bytes(data) : s \in Bytes(seg.blocks) \/ (seg.head <= s /\ s < seg.tail)
  BY <1>8, <1>10 DEF CutOK
<1> QED
  BY <1>11, <1>12, <1>13, <1>14, <1>15 DEF seg

-----------------------------------------------------------------------------
(* Add: the packet is stored *)

LEMMA InsertIs ==
  ASSUME NEW q \in Seq(Block), NEW e \in Block, NEW n \in 1 .. Len(q) + 1
  PROVE  LET r == InsertAt(q, n, e)
         IN  /\ r \in Seq(Block) /\ Len(r) = Len(q) + 1
             /\ \A k \in 1 .. n - 1 : r[k] = q[k]
             /\ r[n] = e
             /\ \A k \in n .. Len(q) : r[k + 1] = q[k]
<1> DEFINE a == SubSeq(q, 1, n - 1)
           c == SubSeq(q, n, Len(q))
           l == a \o <<e>>
<1>1. /\ a \in Seq(Block) /\ Len(a) = n - 1 /\ \A k \in 1 .. n - 1 : a[k] = q[k]
  OBVIOUS
<1>2. /\ c \in Seq(Block) /\ Len(c) = Len(q) - n + 1
      /\ \A k \in 1 .. Len(q) - n + 1 : c[k] = q[n + k - 1]
  OBVIOUS
<1> HIDE DEF a, c
<1>3. /\ l \in Seq(Block) /\ Len(l) = n /\ l[n] = e /\ \A k \in 1 .. n - 1 : l[k] = q[k]
  BY <1>1
<1> HIDE DEF l
<1> DEFINE r == l \o c
<1>4. r \in Seq(Block) /\ Len(r) = Len(q) + 1
  <2>0. l \in Seq(Block) /\ c \in Seq(Block)
    BY <1>2, <1>3
  <2>1. r \in Seq(Block) /\ Len(r) = Len(l) + Len(c)
    BY <2>0
  <2>2. Len(q) \in Int
    OBVIOUS
  <2> QED
    BY <1>2, <1>3, <2>1, <2>2
<1>5. \A k \in 1 .. n : r[k] = l[k]
  BY <1>2, <1>3
<1>6. \A k \in n .. Len(q) : r[k + 1] = q[k]
  <2> TAKE k \in n .. Len(q)
  <2>1. r[k + 1] = c[k + 1 - n]
    BY <1>2, <1>3
  <2> QED
    BY <1>2, <2>1
<1> HIDE DEF r
<1>7. r = InsertAt(q, n, e)
  BY DEF InsertAt, r, l, a, c
<1> QED
  BY <1>3, <1>4, <1>5, <1>6, <1>7

LEMMA StoredOK ==
  ASSUME NEW q \in Seq(Block), InOrder(q), NEW b \in Block,
         \A k \in 1 .. Len(q) : q[k].tail <= b.head \/ b.tail <= q[k].head
  PROVE  LET r == Stored(q, b)
         IN  /\ r \in Seq(Block) /\ r # <<>> /\ InOrder(r)
             /\ Bytes(r) = Bytes(q) \cup Span(b)
             /\ \A k \in 1 .. Len(r) : r[k] = b \/ \E j \in 1 .. Len(q) : r[k] = q[j]
<1> DEFINE After(n) == \A k \in n .. Len(q) : b.head < q[k].head
           Before(n) == \A k \in 1 .. n - 1 : q[k].head < b.head
           T == {n \in 1 .. Len(q) + 1 : After(n)}
           at == CHOOSE n \in 1 .. Len(q) + 1 : Before(n) /\ After(n)
           r == Stored(q, b)
<1>1. /\ Len(q) \in Nat /\ b.head \in Int /\ b.tail \in Int /\ b.head < b.tail
      /\ \A k \in 1 .. Len(q) : /\ q[k] \in Block /\ q[k].head \in Int /\ q[k].tail \in Int
                                /\ q[k].head < q[k].tail
  BY BlockFacts
<1>2. PICK n \in T : \A j \in T : n <= j
  <2>1. Len(q) + 1 \in T
    BY <1>1
  <2>2. T \in SUBSET Nat
    BY <1>1
  <2> HIDE DEF T
  <2> QED
    BY <2>1, <2>2, LeastNat
<1>3. Before(n) /\ After(n) /\ n \in 1 .. Len(q) + 1
  <2>1. SUFFICES ASSUME NEW k \in 1 .. n - 1, ~(q[k].head < b.head) PROVE FALSE
    BY <1>2
  <2>2. k \in 1 .. Len(q) /\ k < n
    BY <1>1, <1>2
  <2>3. b.head < q[k].head
    <3>1. /\ q[k].head \in Int /\ q[k].tail \in Int /\ q[k].head < q[k].tail
          /\ b.head \in Int /\ b.tail \in Int /\ b.head < b.tail
      BY <1>1, <2>2
    <3>2. q[k].tail <= b.head \/ b.tail <= q[k].head
      BY <2>2
    <3> QED
      BY <2>1, <3>1, <3>2
  <2>4. ASSUME NEW j \in k .. Len(q) PROVE b.head < q[j].head
    <3>1. CASE j = k
      BY <2>3, <3>1
    <3>2. CASE j # k
      <4>1. j \in 1 .. Len(q) /\ k \in 1 .. j - 1
        BY <1>1, <2>2, <3>2
      <4>2. q[k].tail <= q[j].head
        BY <4>1 DEF InOrder
      <4> QED
        BY <1>1, <2>2, <2>3, <4>1, <4>2
    <3> QED
      BY <3>1, <3>2
  <2>5. k \in T
    BY <1>1, <2>2, <2>4
  <2> QED
    BY <1>2, <2>2, <2>5
<1>4. at \in 1 .. Len(q) + 1 /\ Before(at) /\ After(at)
  <2> HIDE DEF Before, After
  <2> QED
    BY <1>3
<1>5. r = InsertAt(q, at, b)
  BY DEF Stored
<1> HIDE DEF at, r
<1>6. /\ r \in Seq(Block) /\ Len(r) = Len(q) + 1
      /\ \A k \in 1 .. at - 1 : r[k] = q[k]
      /\ r[at] = b
      /\ \A k \in at .. Len(q) : r[k + 1] = q[k]
  <2>1. at \in 1 .. Len(q) + 1
    BY <1>4
  <2> DEFINE z == InsertAt(q, at, b)
  <2>2. /\ z \in Seq(Block) /\ Len(z) = Len(q) + 1
        /\ \A k \in 1 .. at - 1 : z[k] = q[k]
        /\ z[at] = b
        /\ \A k \in at .. Len(q) : z[k + 1] = q[k]
    BY <2>1, InsertIs
  <2> HIDE DEF z
  <2> QED
    BY <1>5, <2>2 DEF z
<1>7. /\ \A k \in 1 .. at - 1 : k \in 1 .. Len(q) /\ q[k].tail <= b.head
      /\ \A k \in at .. Len(q) : k \in 1 .. Len(q) /\ b.tail <= q[k].head
  <2>1. ASSUME NEW k \in 1 .. at - 1 PROVE k \in 1 .. Len(q) /\ q[k].tail <= b.head
    <3>1. k \in 1 .. Len(q)
      BY <1>1, <1>4
    <3>2. q[k].head < b.head /\ (q[k].tail <= b.head \/ b.tail <= q[k].head)
      BY <1>4, <3>1
    <3> QED
      BY <1>1, <3>1, <3>2
  <2>2. ASSUME NEW k \in at .. Len(q) PROVE k \in 1 .. Len(q) /\ b.tail <= q[k].head
    <3>1. k \in 1 .. Len(q)
      BY <1>1, <1>4
    <3>2. b.head < q[k].head /\ (q[k].tail <= b.head \/ b.tail <= q[k].head)
      BY <1>4, <3>1
    <3> QED
      BY <1>1, <3>1, <3>2
  <2> QED
    BY <2>1, <2>2
<1>8. InOrder(r)
  <2> SUFFICES ASSUME NEW j \in 1 .. Len(r), NEW i \in 1 .. j - 1
               PROVE  r[i].tail <= r[j].head
    BY DEF InOrder
  <2>1. CASE j < at
    <3>1. r[i] = q[i] /\ r[j] = q[j] /\ j \in 1 .. Len(q)
      BY <1>1, <1>4, <1>6, <2>1
    <3> QED
      BY <3>1 DEF InOrder
  <2>2. CASE j = at
    <3>1. i \in 1 .. at - 1
      BY <2>2
    <3> QED
      BY <1>6, <1>7, <2>2, <3>1
  <2>3. CASE j > at
    <3>1. j - 1 \in at .. Len(q) /\ (j - 1) + 1 = j
      BY <1>1, <1>4, <1>6, <2>3
    <3>2. r[j] = q[j - 1] /\ b.tail <= q[j - 1].head /\ j - 1 \in 1 .. Len(q)
      BY <1>6, <1>7, <3>1
    <3>3. CASE i < at
      <4>1. i \in 1 .. (j - 1) - 1 /\ r[i] = q[i]
        BY <1>4, <1>6, <2>3, <3>3
      <4> QED
        BY <3>2, <4>1 DEF InOrder
    <3>4. CASE i = at
      BY <1>6, <3>2, <3>4
    <3>5. CASE i > at
      <4>1. i - 1 \in at .. Len(q) /\ (i - 1) + 1 = i /\ i - 1 \in 1 .. (j - 1) - 1
        BY <1>1, <1>4, <1>6, <3>5
      <4>2. r[i] = q[i - 1]
        BY <1>6, <4>1
      <4> QED
        BY <3>2, <4>1, <4>2 DEF InOrder
    <3> QED
      BY <1>4, <3>3, <3>4, <3>5
  <2> QED
    BY <1>4, <2>1, <2>2, <2>3
<1>9. ASSUME NEW s PROVE s \in Bytes(r) <=> s \in Bytes(q) \cup Span(b)
  <2>0. s \in Span(b) <=> s \in Int /\ b.head <= s /\ s < b.tail
    BY <1>1 DEF Span
  <2>1. ASSUME s \in Bytes(r) PROVE s \in Bytes(q) \cup Span(b)
    <3>1. PICK k \in 1 .. Len(r) : s \in Int /\ r[k].head <= s /\ s < r[k].tail
      BY <1>6, <2>1, InBytes
    <3>2. CASE k < at
      <4>1. k \in 1 .. Len(q) /\ r[k] = q[k]
        BY <1>4, <1>6, <1>7, <3>2
      <4> QED
        BY <3>1, <4>1, InBytes
    <3>3. CASE k = at
      BY <1>6, <2>0, <3>1, <3>3
    <3>4. CASE k > at
      <4>1. k - 1 \in at .. Len(q) /\ (k - 1) + 1 = k
        BY <1>1, <1>4, <1>6, <3>4
      <4>2. k - 1 \in 1 .. Len(q) /\ r[k] = q[k - 1]
        BY <1>6, <1>7, <4>1
      <4> QED
        BY <3>1, <4>2, InBytes
    <3> QED
      BY <1>4, <3>2, <3>3, <3>4
  <2>2. ASSUME s \in Bytes(q) PROVE s \in Bytes(r)
    <3>1. PICK k \in 1 .. Len(q) : s \in Int /\ q[k].head <= s /\ s < q[k].tail
      BY <2>2, InBytes
    <3>2. CASE k < at
      <4>1. k \in 1 .. Len(r) /\ r[k] = q[k]
        BY <1>1, <1>4, <1>6, <3>2
      <4> QED
        BY <1>6, <3>1, <4>1, InBytes
    <3>3. CASE k >= at
      <4>1. k + 1 \in 1 .. Len(r) /\ r[k + 1] = q[k]
        BY <1>1, <1>4, <1>6, <3>3
      <4> QED
        BY <1>6, <3>1, <4>1, InBytes
    <3> QED
      BY <1>4, <3>2, <3>3
  <2>3. ASSUME s \in Span(b) PROVE s \in Bytes(r)
    <3>1. at \in 1 .. Len(r)
      BY <1>1, <1>4, <1>6
    <3> QED
      BY <1>6, <2>0, <2>3, <3>1, InBytes
  <2> QED
    BY <2>1, <2>2, <2>3
<1>10. r # <<>>
  BY <1>1, <1>6
<1>11. ASSUME NEW k \in 1 .. Len(r) PROVE r[k] = b \/ \E j \in 1 .. Len(q) : r[k] = q[j]
  <2>1. CASE k = at
    BY <1>6, <2>1
  <2>2. CASE k < at
    <3>1. k \in 1 .. Len(q) /\ r[k] = q[k]
      BY <1>1, <1>4, <1>6, <2>2
    <3> QED
      BY <3>1
  <2>3. CASE k > at
    <3>1. k - 1 \in at .. Len(q) /\ (k - 1) + 1 = k /\ k - 1 \in 1 .. Len(q)
      BY <1>1, <1>4, <1>6, <2>3
    <3>2. r[k] = q[k - 1]
      BY <1>6, <3>1
    <3> QED
      BY <3>1, <3>2
  <2> QED
    BY <1>4, <2>1, <2>2, <2>3
<1> QED
  BY <1>6, <1>8, <1>9, <1>10, <1>11 DEF r

-----------------------------------------------------------------------------
(* Add: the position moves *)

Positions == [next: Int, avail: Int]

IsAdvanceWalk(f, q) ==
  f = [i \in 0 .. Len(q) |->
         IF i = 0 THEN [next |-> nextRxSeq, avail |-> availBytes]
         ELSE Advance(f[i - 1], q[i])]
AdvanceWalk(q) == CHOOSE f : IsAdvanceWalk(f, q)

LEMMA AdvancedIsWalk ==
  ASSUME NEW q
  PROVE  Advanced(q) = AdvanceWalk(q)[Len(q)]
BY Zenon DEF Advanced, AdvanceWalk, IsAdvanceWalk

LEMMA AdvanceWalkValues ==
  ASSUME TypeOK, NEW q \in Seq(Block)
  PROVE  /\ AdvanceWalk(q)[0] = [next |-> nextRxSeq, avail |-> availBytes]
         /\ \A i \in 1 .. Len(q) : AdvanceWalk(q)[i] = Advance(AdvanceWalk(q)[i - 1], q[i])
<1> DEFINE n == Len(q)
           start == [next |-> nextRxSeq, avail |-> availBytes]
           step == [i \in 1 .. n |-> [pos \in Positions |-> Advance(pos, q[i])]]
           F == AdvanceWalk(q)
<1>0. n \in Nat
  OBVIOUS
<1>1. \A i \in 1 .. n : q[i] \in Block
  OBVIOUS
<1>2. start \in Positions
  BY DEF TypeOK, SeqNum, Positions
<1>3. step \in [1 .. n -> [Positions -> Positions]]
  <2>1. ASSUME NEW pos \in Positions, NEW i \in Block PROVE Advance(pos, i) \in Positions
    <3>1. i.tail \in Int /\ Length(i) \in Int /\ pos.avail \in Int
      BY BlockFacts DEF Length, Positions
    <3> QED
      BY <3>1 DEF Advance, Positions
  <2> QED
    BY <1>1, <2>1
<1>4. PICK f \in [0 .. n -> Positions] : IsLoop(f, n, start, step)
  <2> HIDE DEF step, n, start
  <2> QED
    BY <1>0, <1>2, <1>3, LoopExists
<1>5. \A i \in 1 .. n : f[i] = Advance(f[i - 1], q[i])
  <2>1. \A i \in 1 .. n : f[i - 1] \in Positions
    BY <1>0
  <2> QED
    BY <1>4, <2>1 DEF IsLoop
<1>6. f = [i \in 0 .. n |-> IF i = 0 THEN start ELSE Advance(f[i - 1], q[i])]
  <2> HIDE DEF step, start
  <2> QED
    BY <1>4, <1>5 DEF IsLoop
<1>7. IsAdvanceWalk(f, q)
  BY <1>6, Zenon DEF IsAdvanceWalk
<1>8. F = [i \in 0 .. n |-> IF i = 0 THEN start ELSE Advance(F[i - 1], q[i])]
  BY <1>7, Zenon DEF AdvanceWalk, IsAdvanceWalk
<1> HIDE DEF F
<1>9. F[0] = start /\ \A i \in 1 .. n : F[i] = Advance(F[i - 1], q[i])
  BY <1>0, <1>8
<1> QED
  BY <1>9 DEF F

\* The position after the first n blocks of q.
AdvanceOK(pos, q, n) ==
  /\ pos \in Positions
  /\ nextRxSeq <= pos.next /\ pos.next <= StreamEnd
  /\ pos.avail = availBytes + pos.next - nextRxSeq
  /\ \A k \in 1 .. n : q[k].tail <= pos.next \/ pos.next < q[k].head
  /\ \A k \in n + 1 .. Len(q) : q[k].tail <= pos.next \/ pos.next <= q[k].head
  /\ \A s \in nextRxSeq .. pos.next - 1 : s \in Bytes(q)

LEMMA AdvanceKeeps ==
  ASSUME TypeOK, NEW q \in Seq(Block), InOrder(q),
         \A k \in 1 .. Len(q) : q[k].tail <= StreamEnd,
         NEW n \in 1 .. Len(q), NEW pos, AdvanceOK(pos, q, n - 1)
  PROVE  AdvanceOK(Advance(pos, q[n]), q, n)
<1> DEFINE i == q[n]
           new == Advance(pos, i)
<1>1. /\ i \in Block /\ i.head \in Int /\ i.tail \in Int /\ i.head < i.tail
      /\ Length(i) = i.tail - i.head /\ i.tail <= StreamEnd
      /\ pos.next \in Int /\ pos.avail \in Int /\ nextRxSeq \in Int /\ availBytes \in Int
      /\ nextRxSeq <= pos.next /\ pos.avail = availBytes + pos.next - nextRxSeq
      /\ StreamEnd \in Int
  <2>1. i \in Block /\ i.head \in Int /\ i.tail \in Int /\ i.head < i.tail
    BY BlocksOf
  <2>2. Length(i) = i.tail - i.head /\ i.tail <= StreamEnd
    BY DEF Length
  <2>3. /\ pos \in Positions /\ nextRxSeq <= pos.next
        /\ pos.avail = availBytes + pos.next - nextRxSeq
    BY DEF AdvanceOK
  <2>4. pos.next \in Int /\ pos.avail \in Int
    BY <2>3 DEF Positions
  <2>5. nextRxSeq \in Int /\ availBytes \in Int /\ StreamEnd \in Int
    BY StreamAssumption DEF TypeOK, SeqNum
  <2> QED
    BY <2>1, <2>2, <2>3, <2>4, <2>5
<1>2. \A k \in 1 .. Len(q) : /\ q[k].head \in Int /\ q[k].tail \in Int /\ q[k].head < q[k].tail
  BY BlocksOf
<1>3. /\ \A k \in 1 .. n - 1 : q[k].tail <= i.head
      /\ \A k \in n + 1 .. Len(q) : i.tail <= q[k].head
  BY DEF InOrder
<1>4. /\ \A k \in 1 .. n - 1 : q[k].tail <= pos.next \/ pos.next < q[k].head
      /\ \A k \in n .. Len(q) : q[k].tail <= pos.next \/ pos.next <= q[k].head
      /\ \A s \in nextRxSeq .. pos.next - 1 : s \in Bytes(q)
      /\ pos \in Positions /\ pos.next <= StreamEnd
  BY DEF AdvanceOK
<1> HIDE DEF i, new
<1>5. CASE i.head = pos.next
  <2>1. new = [next |-> i.tail, avail |-> pos.avail + Length(i)]
    BY <1>5 DEF Advance, new
  <2>2. new.next = i.tail /\ new.avail = pos.avail + Length(i) /\ new \in Positions
    BY <1>1, <2>1 DEF Positions
  <2>3. nextRxSeq <= new.next /\ new.avail = availBytes + new.next - nextRxSeq
    <3>1. nextRxSeq <= new.next
      BY <1>1, <1>5, <2>2
    <3>2. new.avail = (availBytes + i.head - nextRxSeq) + (i.tail - i.head)
      BY <1>1, <1>5, <2>2
    <3>3. /\ availBytes \in Int /\ nextRxSeq \in Int /\ i.head \in Int /\ i.tail \in Int
          /\ new.next = i.tail
      BY <1>1, <2>2
    <3> QED
      BY <3>1, <3>2, <3>3
  <2>4. \A k \in 1 .. n : q[k].tail <= new.next \/ new.next < q[k].head
    <3> TAKE k \in 1 .. n
    <3>1. CASE k = n
      BY <1>1, <2>2, <3>1 DEF i
    <3>2. CASE k # n
      <4>1. k \in 1 .. n - 1 /\ k \in 1 .. Len(q)
        BY <3>2
      <4> QED
        <5>1. q[k].tail <= i.head /\ q[k].tail \in Int
          BY <1>2, <1>3, <4>1
        <5>2. i.head \in Int /\ i.tail \in Int /\ i.head < i.tail /\ new.next = i.tail
          BY <1>1, <2>2
        <5> QED
          BY <5>1, <5>2
    <3> QED
      BY <3>1, <3>2
  <2>5. \A k \in n + 1 .. Len(q) : q[k].tail <= new.next \/ new.next <= q[k].head
    BY <1>3, <2>2
  <2>6. \A s \in nextRxSeq .. new.next - 1 : s \in Bytes(q)
    <3> TAKE s \in nextRxSeq .. new.next - 1
    <3>1. CASE s < pos.next
      <4>1. pos.next \in Int /\ nextRxSeq \in Int
        BY <1>1
      <4>2. s \in nextRxSeq .. pos.next - 1
        BY <3>1, <4>1
      <4> QED
        BY <1>4, <4>2
    <3>2. CASE ~(s < pos.next)
      <4>1. s \in Int /\ i.head <= s /\ s < i.tail
        <5>1. /\ i.head \in Int /\ i.tail \in Int /\ nextRxSeq \in Int
              /\ i.head = pos.next /\ new.next = i.tail
          BY <1>1, <1>5, <2>2
        <5> QED
          BY <3>2, <5>1
      <4> QED
        BY <4>1, InBytes DEF i
    <3> QED
      BY <3>1, <3>2
  <2> QED
    BY <1>1, <2>2, <2>3, <2>4, <2>5, <2>6 DEF AdvanceOK, new, i
<1>6. CASE i.head # pos.next
  <2>1. new = pos
    BY <1>6 DEF Advance, new
  <2>2. \A k \in 1 .. n : q[k].tail <= pos.next \/ pos.next < q[k].head
    <3> TAKE k \in 1 .. n
    <3>1. CASE k = n
      <4>1. i.tail <= pos.next \/ pos.next <= i.head
        BY <1>4 DEF i
      <4>2. i.tail <= pos.next \/ pos.next < i.head
        BY <1>1, <1>6, <4>1
      <4> QED
        BY <3>1, <4>2 DEF i
    <3>2. CASE k # n
      <4>1. k \in 1 .. n - 1
        BY <3>2
      <4> QED
        BY <1>4, <4>1
    <3> QED
      BY <3>1, <3>2
  <2>3. \A k \in n + 1 .. Len(q) : q[k].tail <= pos.next \/ pos.next <= q[k].head
    <3> TAKE k \in n + 1 .. Len(q)
    <3>1. k \in n .. Len(q)
      OBVIOUS
    <3> QED
      BY <1>4, <3>1
  <2> QED
    BY <1>1, <1>4, <2>1, <2>2, <2>3 DEF AdvanceOK, new, i
<1> QED
  BY <1>5, <1>6

LEMMA AdvancedOK ==
  ASSUME TypeOK, NEW q \in Seq(Block), InOrder(q),
         \A k \in 1 .. Len(q) : q[k].tail <= StreamEnd, nextRxSeq <= StreamEnd,
         \A k \in 1 .. Len(q) : q[k].tail <= nextRxSeq \/ nextRxSeq <= q[k].head
  PROVE  LET pos == Advanced(q)
         IN  /\ pos.next \in nextRxSeq .. StreamEnd
             /\ pos.avail = availBytes + pos.next - nextRxSeq
             /\ pos.next \notin Bytes(q)
             /\ nextRxSeq .. pos.next - 1 \subseteq Bytes(q)
<1> DEFINE f == AdvanceWalk(q)
           n == Len(q)
           pos == Advanced(q)
           G == {i \in 0 .. n : AdvanceOK(f[i], q, i)}
<1>1. /\ f[0] = [next |-> nextRxSeq, avail |-> availBytes]
      /\ \A i \in 1 .. n : f[i] = Advance(f[i - 1], q[i])
  BY AdvanceWalkValues
<1>2. n \in Nat /\ nextRxSeq \in Int /\ availBytes \in Int /\ StreamEnd \in Int
  BY StreamAssumption DEF TypeOK, SeqNum
<1> HIDE DEF f
<1>3. 0 \in G
  <2>1. f[0].next = nextRxSeq /\ f[0].avail = availBytes /\ f[0] \in Positions
    BY <1>1, <1>2 DEF Positions
  <2>2. AdvanceOK(f[0], q, 0)
    BY <1>2, <2>1 DEF AdvanceOK
  <2> QED
    BY <1>2, <2>2
<1>4. ASSUME NEW i \in 1 .. n, i - 1 \in G PROVE i \in G
  <2>1. AdvanceOK(Advance(f[i - 1], q[i]), q, i)
    BY <1>4, AdvanceKeeps
  <2> QED
    BY <1>1, <2>1
<1>5. n \in G
  <2>1. 0 .. n \subseteq G
    <3> HIDE DEF G
    <3> QED
      BY <1>2, <1>3, <1>4, SetInduction
  <2> QED
    BY <1>2, <2>1
<1>6. pos = f[n]
  BY AdvancedIsWalk DEF f
<1>7. AdvanceOK(pos, q, n)
  BY <1>5, <1>6
<1> HIDE DEF pos
<1>8. pos.next \in Int
  BY <1>7 DEF AdvanceOK, Positions
<1>9. pos.next \notin Bytes(q)
  <2>1. \A k \in 1 .. n : q[k].tail <= pos.next \/ pos.next < q[k].head
    BY <1>7 DEF AdvanceOK
  <2>2. \A k \in 1 .. n : q[k].tail \in Int /\ q[k].head \in Int
    BY BlocksOf
  <2> QED
    <3>1. \A k \in 1 .. Len(q) : ~(q[k].head <= pos.next /\ pos.next < q[k].tail)
      BY <1>2, <1>8, <2>1, <2>2
    <3> QED
      BY <3>1, InBytes
<1> QED
  BY <1>2, <1>7, <1>8, <1>9 DEF AdvanceOK, pos

-----------------------------------------------------------------------------
(* The SACK list *)

LEMMA RemoveIs ==
  ASSUME NEW q \in Seq(Block), NEW n \in 1 .. Len(q)
  PROVE  LET r == RemoveAt(q, n)
         IN  /\ r \in Seq(Block) /\ Len(r) = Len(q) - 1
             /\ \A k \in 1 .. n - 1 : r[k] = q[k]
             /\ \A k \in n + 1 .. Len(q) : r[k - 1] = q[k]
<1> DEFINE a == SubSeq(q, 1, n - 1)
           c == SubSeq(q, n + 1, Len(q))
           r == a \o c
<1>1. a \in Seq(Block) /\ Len(a) = n - 1 /\ \A k \in 1 .. n - 1 : a[k] = q[k]
  OBVIOUS
<1>2. /\ c \in Seq(Block) /\ Len(c) = Len(q) - n
      /\ \A k \in 1 .. Len(q) - n : c[k] = q[n + k]
  OBVIOUS
<1> HIDE DEF a, c
<1>3. r \in Seq(Block) /\ Len(r) = Len(q) - 1
  <2>0. a \in Seq(Block) /\ c \in Seq(Block)
    BY <1>1, <1>2
  <2>1. r \in Seq(Block) /\ Len(r) = Len(a) + Len(c)
    BY <2>0
  <2>2. Len(q) \in Int
    OBVIOUS
  <2> QED
    BY <1>1, <1>2, <2>1, <2>2
<1>4. \A k \in 1 .. n - 1 : r[k] = q[k]
  BY <1>1, <1>2
<1>5. \A k \in n + 1 .. Len(q) : r[k - 1] = q[k]
  <2> TAKE k \in n + 1 .. Len(q)
  <2>1. r[k - 1] = c[k - n]
    BY <1>1, <1>2
  <2> QED
    BY <1>2, <2>1
<1> HIDE DEF r
<1>6. r = RemoveAt(q, n)
  BY DEF RemoveAt, r, a, c
<1> QED
  BY <1>3, <1>4, <1>5, <1>6

LEMMA MergeFrontOK ==
  ASSUME NEW list \in Seq(Block), list # <<>>
  PROVE  LET r == MergeFront(list)
         IN  /\ r \in Seq(Block) /\ r # <<>> /\ Len(r) <= Len(list)
             /\ Bytes(r) = Bytes(list)
<1> DEFINE front == list[1]
           touching == {k \in 2 .. Len(list) : \/ list[k].tail = front.head
                                              \/ front.tail = list[k].head}
           k == Min(touching)
           joined == [head |-> Lesser(front.head, list[k].head),
                      tail |-> Greater(front.tail, list[k].tail)]
           left == RemoveAt(list, k)
           r == MergeFront(list)
<1>1. Len(list) \in Nat \ {0} /\ front \in Block
  OBVIOUS
<1>2. CASE touching = {}
  <2>1. r = list
    BY <1>2 DEF MergeFront
  <2> HIDE DEF r
  <2> QED
    BY <1>1, <2>1 DEF r
<1>3. CASE touching # {}
  <2>1. k \in touching
    <3>1. touching \in SUBSET Nat
      BY <1>1
    <3> HIDE DEF touching
    <3>2. \E j \in touching : \A i \in touching : j <= i
      BY <1>3, <3>1, LeastNat
    <3> QED
      BY <3>2, Zenon DEF Min
  <2>2. r = [left EXCEPT ![1] = joined]
    BY <1>3 DEF MergeFront
  <2>3. /\ k \in 2 .. Len(list) /\ list[k] \in Block
        /\ list[k].tail = front.head \/ front.tail = list[k].head
    BY <2>1
  <2> HIDE DEF k, r
  <2>4. /\ front.head \in Nat /\ front.tail \in Nat /\ front.head < front.tail
        /\ list[k].head \in Nat /\ list[k].tail \in Nat /\ list[k].head < list[k].tail
    BY <1>1, <2>3, BlockFacts
  <2>5. /\ joined.head = Lesser(front.head, list[k].head)
        /\ joined.tail = Greater(front.tail, list[k].tail)
        /\ joined \in Block
    <3>1. /\ Lesser(front.head, list[k].head) \in SeqNum
          /\ Greater(front.tail, list[k].tail) \in SeqNum
      BY <1>1, <2>3 DEF Block, Lesser, Greater
    <3>2. Lesser(front.head, list[k].head) < Greater(front.tail, list[k].tail)
      BY <2>4 DEF Lesser, Greater
    <3> QED
      BY <3>1, <3>2 DEF Block
  <2>6. \A s \in Int : joined.head <= s /\ s < joined.tail
                         <=> \/ front.head <= s /\ s < front.tail
                             \/ list[k].head <= s /\ s < list[k].tail
    BY <2>3, <2>4, <2>5 DEF Lesser, Greater
  <2> HIDE DEF joined
  <2>7. /\ left \in Seq(Block) /\ Len(left) = Len(list) - 1
        /\ \A j \in 1 .. k - 1 : left[j] = list[j]
        /\ \A j \in k + 1 .. Len(list) : left[j - 1] = list[j]
    <3>1. k \in 1 .. Len(list)
      BY <2>3
    <3> QED
      BY <3>1, RemoveIs
  <2> HIDE DEF left, front, touching
  <2>8. /\ r \in Seq(Block) /\ Len(r) = Len(list) - 1 /\ r[1] = joined
        /\ \A j \in 2 .. k - 1 : r[j] = list[j]
        /\ \A j \in k + 1 .. Len(list) : r[j - 1] = list[j]
    BY <1>1, <2>2, <2>3, <2>5, <2>7
  <2>9. r # <<>> /\ Len(r) <= Len(list) /\ 1 \in 1 .. Len(r)
    BY <1>1, <2>3, <2>8
  <2>10. ASSUME NEW s PROVE s \in Bytes(r) <=> s \in Bytes(list)
    <3>1. ASSUME s \in Bytes(r) PROVE s \in Bytes(list)
      <4>1. PICK j \in 1 .. Len(r) : s \in Int /\ r[j].head <= s /\ s < r[j].tail
        BY <2>8, <3>1, InBytes
      <4>2. CASE j = 1
        <5>1. \/ list[1].head <= s /\ s < list[1].tail
              \/ list[k].head <= s /\ s < list[k].tail
          BY <2>6, <2>8, <4>1, <4>2 DEF front
        <5>2. 1 \in 1 .. Len(list) /\ k \in 1 .. Len(list)
          BY <1>1, <2>3
        <5> QED
          BY <4>1, <5>1, <5>2, InBytes
      <4>3. CASE j # 1 /\ j < k
        <5>1. j \in 2 .. k - 1 /\ j \in 1 .. Len(list)
          BY <2>3, <2>8, <4>3
        <5> QED
          BY <2>8, <4>1, <5>1, InBytes
      <4>4. CASE j # 1 /\ ~(j < k)
        <5>1. j + 1 \in k + 1 .. Len(list) /\ (j + 1) - 1 = j /\ j + 1 \in 1 .. Len(list)
          BY <1>1, <2>3, <2>8, <4>4
        <5>2. r[j] = list[j + 1]
          BY <2>8, <5>1
        <5> QED
          BY <4>1, <5>1, <5>2, InBytes
      <4> QED
        BY <4>2, <4>3, <4>4
    <3>2. ASSUME s \in Bytes(list) PROVE s \in Bytes(r)
      <4>1. PICK j \in 1 .. Len(list) : s \in Int /\ list[j].head <= s /\ s < list[j].tail
        BY <3>2, InBytes
      <4>2. CASE j = 1 \/ j = k
        <5>1. joined.head <= s /\ s < joined.tail
          BY <2>6, <4>1, <4>2 DEF front
        <5> QED
          BY <2>8, <2>9, <4>1, <5>1, InBytes
      <4>3. CASE j # 1 /\ j < k
        <5>1. j \in 2 .. k - 1 /\ j \in 1 .. Len(r)
          BY <1>1, <2>3, <2>8, <4>3
        <5> QED
          BY <2>8, <4>1, <5>1, InBytes
      <4>4. CASE j > k
        <5>1. j \in k + 1 .. Len(list) /\ j - 1 \in 1 .. Len(r)
          BY <1>1, <2>3, <2>8, <4>4
        <5>2. r[j - 1] = list[j]
          BY <2>8, <5>1
        <5> QED
          BY <2>8, <4>1, <5>1, <5>2, InBytes
      <4> QED
        BY <2>3, <4>2, <4>3, <4>4
    <3> QED
      BY <3>1, <3>2
  <2> QED
    BY <2>8, <2>9, <2>10 DEF r
<1> QED
  BY <1>2, <1>3

Lists == {q \in Seq(Block) : q # <<>>}

IsMergeWalk(f, b) ==
  f = [i \in 0 .. Len(sackList) |->
         IF i = 0 THEN <<b>> \o sackList ELSE MergeFront(f[i - 1])]
MergeWalk(b) == CHOOSE f : IsMergeWalk(f, b)

LEMMA WithNewestIsWalk ==
  ASSUME NEW b
  PROVE  WithNewest(b) = MergeWalk(b)[Len(sackList)]
BY Zenon DEF WithNewest, MergeWalk, IsMergeWalk

LEMMA FrontAdded ==
  ASSUME NEW b \in Block, NEW q \in Seq(Block)
  PROVE  /\ <<b>> \o q \in Lists /\ Len(<<b>> \o q) = Len(q) + 1
         /\ Bytes(<<b>> \o q) = Span(b) \cup Bytes(q)
<1> DEFINE r == <<b>> \o q
<1>1. /\ r \in Seq(Block) /\ Len(r) = Len(q) + 1 /\ r[1] = b
      /\ \A k \in 1 .. Len(q) : r[k + 1] = q[k]
  OBVIOUS
<1>2. Len(q) \in Nat /\ b.head \in Int /\ b.tail \in Int
  BY BlockFacts
<1> HIDE DEF r
<1>3. ASSUME NEW s PROVE s \in Bytes(r) <=> s \in Span(b) \/ s \in Bytes(q)
  <2>0. s \in Span(b) <=> s \in Int /\ b.head <= s /\ s < b.tail
    BY <1>2 DEF Span
  <2>1. ASSUME s \in Bytes(r) PROVE s \in Span(b) \/ s \in Bytes(q)
    <3>1. PICK k \in 1 .. Len(r) : s \in Int /\ r[k].head <= s /\ s < r[k].tail
      BY <1>1, <2>1, InBytes
    <3>2. CASE k = 1
      BY <1>1, <2>0, <3>1, <3>2
    <3>3. CASE k # 1
      <4>1. k - 1 \in 1 .. Len(q) /\ (k - 1) + 1 = k
        BY <1>1, <1>2, <3>3
      <4>2. r[k] = q[k - 1]
        BY <1>1, <4>1
      <4> QED
        BY <3>1, <4>1, <4>2, InBytes
    <3> QED
      BY <3>2, <3>3
  <2>2. ASSUME s \in Span(b) PROVE s \in Bytes(r)
    <3>1. 1 \in 1 .. Len(r)
      BY <1>1, <1>2
    <3> QED
      BY <1>1, <2>0, <2>2, <3>1, InBytes
  <2>3. ASSUME s \in Bytes(q) PROVE s \in Bytes(r)
    <3>1. PICK k \in 1 .. Len(q) : s \in Int /\ q[k].head <= s /\ s < q[k].tail
      BY <2>3, InBytes
    <3>2. k + 1 \in 1 .. Len(r) /\ r[k + 1] = q[k]
      BY <1>1, <1>2
    <3> QED
      BY <1>1, <3>1, <3>2, InBytes
  <2> QED
    BY <2>1, <2>2, <2>3
<1>4. r # <<>>
  BY <1>1, <1>2
<1> QED
  BY <1>1, <1>3, <1>4 DEF Lists, r

LEMMA WithNewestOK ==
  ASSUME sackList \in Seq(Block), NEW b \in Block
  PROVE  /\ WithNewest(b) \in Lists /\ Len(WithNewest(b)) <= Len(sackList) + 1
         /\ Bytes(WithNewest(b)) = Span(b) \cup Bytes(sackList)
<1> DEFINE n == Len(sackList)
           start == <<b>> \o sackList
           step == [i \in 1 .. n |-> [q \in Lists |-> MergeFront(q)]]
           F == MergeWalk(b)
           Whole(q) == /\ q \in Lists /\ Len(q) <= n + 1
                       /\ Bytes(q) = Span(b) \cup Bytes(sackList)
           G == {i \in 0 .. n : Whole(F[i])}
<1>0. n \in Nat
  OBVIOUS
<1>1. start \in Lists /\ Len(start) = n + 1 /\ Bytes(start) = Span(b) \cup Bytes(sackList)
  BY FrontAdded
<1>2. \A q \in Lists : /\ MergeFront(q) \in Lists /\ Len(MergeFront(q)) <= Len(q)
                       /\ Bytes(MergeFront(q)) = Bytes(q) /\ Len(q) \in Nat
                       /\ Len(MergeFront(q)) \in Nat
  <2> TAKE q \in Lists
  <2> DEFINE r == MergeFront(q)
  <2>1. q \in Seq(Block) /\ q # <<>>
    BY DEF Lists
  <2>2. r \in Seq(Block) /\ r # <<>> /\ Len(r) <= Len(q) /\ Bytes(r) = Bytes(q)
    BY <2>1, MergeFrontOK
  <2> HIDE DEF r
  <2>3. Len(q) \in Nat /\ Len(r) \in Nat
    BY <2>1, <2>2
  <2>4. r \in Lists
    BY <2>2 DEF Lists
  <2> QED
    BY <2>2, <2>3, <2>4 DEF r
<1>3. step \in [1 .. n -> [Lists -> Lists]]
  BY <1>2
<1>4. PICK f \in [0 .. n -> Lists] : IsLoop(f, n, start, step)
  <2> HIDE DEF step, n, start
  <2> QED
    BY <1>0, <1>1, <1>3, LoopExists
<1>5. \A i \in 1 .. n : f[i] = MergeFront(f[i - 1])
  <2>1. \A i \in 1 .. n : f[i - 1] \in Lists
    BY <1>0
  <2> QED
    BY <1>4, <2>1 DEF IsLoop
<1>6. f = [i \in 0 .. n |-> IF i = 0 THEN start ELSE MergeFront(f[i - 1])]
  <2> HIDE DEF step, start
  <2> QED
    BY <1>4, <1>5 DEF IsLoop
<1>7. IsMergeWalk(f, b)
  BY <1>6, Zenon DEF IsMergeWalk
<1>8. F = [i \in 0 .. n |-> IF i = 0 THEN start ELSE MergeFront(F[i - 1])]
  BY <1>7, Zenon DEF MergeWalk, IsMergeWalk
<1> HIDE DEF F, start
<1>9. F[0] = start /\ \A i \in 1 .. n : F[i] = MergeFront(F[i - 1])
  BY <1>0, <1>8
<1>10. 0 \in G
  BY <1>0, <1>1, <1>9
<1>11. ASSUME NEW i \in 1 .. n, i - 1 \in G PROVE i \in G
  <2>1. /\ F[i - 1] \in Lists /\ Len(F[i - 1]) <= n + 1
        /\ Bytes(F[i - 1]) = Span(b) \cup Bytes(sackList)
    BY <1>11
  <2>2. F[i] = MergeFront(F[i - 1])
    BY <1>9
  <2> HIDE DEF n
  <2>3. Whole(F[i])
    BY <1>0, <1>2, <2>1, <2>2
  <2> QED
    BY <2>3
<1>12. n \in G
  <2>1. 0 .. n \subseteq G
    <3> HIDE DEF G
    <3> QED
      BY <1>0, <1>10, <1>11, SetInduction
  <2> QED
    BY <1>0, <2>1
<1> QED
  BY <1>12, WithNewestIsWalk DEF F

LEMMA UpdateSackListOK ==
  ASSUME sackList \in Seq(Block), Len(sackList) <= MaxBlocks, NEW b \in Block
  PROVE  LET r == UpdateSackList(b)
         IN  /\ r \in Seq(Block) /\ Len(r) <= MaxBlocks
             /\ Bytes(r) \subseteq Span(b) \cup Bytes(sackList)
             /\ Len(WithNewest(b)) > MaxBlocks \/ Bytes(r) = Span(b) \cup Bytes(sackList)
<1> DEFINE w == WithNewest(b)
           m == Len(w)
           r == UpdateSackList(b)
<1>1. /\ w \in Seq(Block) /\ m <= Len(sackList) + 1
      /\ Bytes(w) = Span(b) \cup Bytes(sackList)
  BY WithNewestOK DEF Lists
<1>2. m \in Nat /\ Len(sackList) \in Nat /\ MaxBlocks \in Nat
  BY <1>1, BlocksAssumption
<1>3. CASE m > MaxBlocks
  <2>1. r = Front(w)
    BY <1>3 DEF UpdateSackList
  <2>2. Front(w) = SubSeq(w, 1, m - 1)
    BY DEF Front
  <2> HIDE DEF w
  <2>3. /\ r \in Seq(Block) /\ Len(r) = m - 1
        /\ \A k \in 1 .. m - 1 : r[k] = w[k]
    <3> HIDE DEF r
    <3>1. m - 1 \in 1 .. Len(w)
      BY <1>2, <1>3, BlocksAssumption
    <3>2. r = SubSeq(w, 1, m - 1)
      BY <2>1, <2>2
    <3> HIDE DEF m
    <3> QED
      BY <1>1, <3>1, <3>2
  <2> HIDE DEF r
  <2>4. Bytes(r) \subseteq Bytes(w)
    <3> SUFFICES ASSUME NEW s \in Bytes(r) PROVE s \in Bytes(w)
      OBVIOUS
    <3>1. PICK k \in 1 .. Len(r) : s \in Int /\ r[k].head <= s /\ s < r[k].tail
      BY <2>3, InBytes
    <3>2. k \in 1 .. Len(w) /\ r[k] = w[k]
      BY <1>2, <2>3
    <3> QED
      BY <1>1, <3>1, <3>2, InBytes
  <2>5. Len(r) <= MaxBlocks
    BY <1>1, <1>2, <2>3
  <2> QED
    BY <1>1, <1>3, <2>3, <2>4, <2>5 DEF r, w
<1>4. CASE ~(m > MaxBlocks)
  <2>1. r = w
    BY <1>4 DEF UpdateSackList
  <2> HIDE DEF r, w
  <2>2. r \in Seq(Block) /\ Len(r) <= MaxBlocks /\ Bytes(r) = Span(b) \cup Bytes(sackList)
    BY <1>1, <1>2, <1>4, <2>1
  <2> QED
    BY <2>2 DEF r
<1> QED
  BY <1>3, <1>4

Clear(left, b, seq) == IF b.tail <= seq THEN left ELSE Append(left, b)

IsClearWalk(f, list, seq) ==
  f = [i \in 0 .. Len(list) |->
         IF i = 0 THEN <<>>
         ELSE IF list[i].tail <= seq THEN f[i - 1] ELSE Append(f[i - 1], list[i])]
ClearWalk(list, seq) == CHOOSE f : IsClearWalk(f, list, seq)

LEMMA ClearSackListIsWalk ==
  ASSUME NEW list, NEW seq
  PROVE  ClearSackList(list, seq) = ClearWalk(list, seq)[Len(list)]
BY Zenon DEF ClearSackList, ClearWalk, IsClearWalk

\* What is left of the first n blocks of list.
ClearOK(left, list, seq, n) ==
  /\ left \in Seq(Block) /\ Len(left) <= n
  /\ \A s : s \in Bytes(left) <=>
              \E k \in 1 .. n : s \in Span(list[k]) /\ list[k].tail > seq

LEMMA ClearKeeps ==
  ASSUME NEW list \in Seq(Block), NEW seq \in Int, NEW n \in 1 .. Len(list),
         NEW left, ClearOK(left, list, seq, n - 1)
  PROVE  ClearOK(Clear(left, list[n], seq), list, seq, n)
<1> DEFINE b == list[n]
           new == Clear(left, b, seq)
<1>1. /\ b \in Block /\ b.tail \in Int /\ left \in Seq(Block) /\ Len(left) <= n - 1
      /\ \A s : s \in Bytes(left) <=>
                  \E k \in 1 .. n - 1 : s \in Span(list[k]) /\ list[k].tail > seq
  BY BlockFacts DEF ClearOK
<1>2. 1 .. n = (1 .. n - 1) \cup {n}
  OBVIOUS
<1>3. CASE b.tail <= seq
  <2>1. new = left
    BY <1>3 DEF Clear
  <2>2. ~(list[n].tail > seq)
    BY <1>1, <1>3
  <2>3. \A s : (\E k \in 1 .. n : s \in Span(list[k]) /\ list[k].tail > seq)
               <=> \E k \in 1 .. n - 1 : s \in Span(list[k]) /\ list[k].tail > seq
    BY <1>2, <2>2
  <2>4. Len(left) <= n
    BY <1>1
  <2> HIDE DEF new
  <2> QED
    BY <1>1, <2>1, <2>3, <2>4 DEF ClearOK, new
<1>4. CASE ~(b.tail <= seq)
  <2>1. new = Append(left, b)
    BY <1>4 DEF Clear
  <2>2. /\ Append(left, b) \in Seq(Block)
        /\ Bytes(Append(left, b)) = Bytes(left) \cup Span(b)
    BY <1>1, AppendBytes
  <2>3. Len(Append(left, b)) <= n
    BY <1>1
  <2>4. list[n].tail > seq
    BY <1>1, <1>4
  <2>5. \A s : (\E k \in 1 .. n : s \in Span(list[k]) /\ list[k].tail > seq)
               <=> \/ s \in Span(list[n])
                   \/ \E k \in 1 .. n - 1 : s \in Span(list[k]) /\ list[k].tail > seq
    BY <1>2, <2>4
  <2> HIDE DEF new
  <2>6. new \in Seq(Block) /\ Len(new) <= n /\ Bytes(new) = Bytes(left) \cup Span(list[n])
    BY <2>1, <2>2, <2>3
  <2>7. \A s : s \in Bytes(new) <=>
                 \E k \in 1 .. n : s \in Span(list[k]) /\ list[k].tail > seq
    BY <1>1, <2>5, <2>6, Zenon
  <2> QED
    BY <2>6, <2>7 DEF ClearOK, new
<1> QED
  BY <1>3, <1>4

LEMMA ClearSackListOK ==
  ASSUME NEW list \in Seq(Block), NEW seq \in Int
  PROVE  ClearOK(ClearSackList(list, seq), list, seq, Len(list))
<1> DEFINE n == Len(list)
           step == [i \in 1 .. n |-> [left \in Seq(Block) |-> Clear(left, list[i], seq)]]
           F == ClearWalk(list, seq)
           G == {i \in 0 .. n : ClearOK(F[i], list, seq, i)}
<1>0. n \in Nat
  OBVIOUS
<1>1. \A i \in 1 .. n : list[i] \in Block
  OBVIOUS
<1>2. step \in [1 .. n -> [Seq(Block) -> Seq(Block)]]
  <2>1. ASSUME NEW left \in Seq(Block), NEW b \in Block PROVE Clear(left, b, seq) \in Seq(Block)
    BY DEF Clear
  <2> QED
    BY <1>1, <2>1
<1>3. <<>> \in Seq(Block)
  OBVIOUS
<1>4. PICK f \in [0 .. n -> Seq(Block)] : IsLoop(f, n, <<>>, step)
  <2> HIDE DEF step, n
  <2> QED
    BY <1>0, <1>2, <1>3, LoopExists
<1>5. \A i \in 1 .. n : f[i] = Clear(f[i - 1], list[i], seq)
  <2>1. \A i \in 1 .. n : f[i - 1] \in Seq(Block)
    BY <1>0
  <2> QED
    BY <1>4, <2>1 DEF IsLoop
<1>6. f = [i \in 0 .. n |-> IF i = 0 THEN <<>> ELSE Clear(f[i - 1], list[i], seq)]
  <2> HIDE DEF step
  <2> QED
    BY <1>4, <1>5 DEF IsLoop
<1>7. IsClearWalk(f, list, seq)
  BY <1>6, Zenon DEF IsClearWalk, Clear
<1>8. F = [i \in 0 .. n |-> IF i = 0 THEN <<>> ELSE Clear(F[i - 1], list[i], seq)]
  BY <1>7, Zenon DEF ClearWalk, IsClearWalk, Clear
<1> HIDE DEF F
<1>9. F[0] = <<>> /\ \A i \in 1 .. n : F[i] = Clear(F[i - 1], list[i], seq)
  BY <1>0, <1>8
<1>10. 0 \in G
  <2>1. ClearOK(<<>>, list, seq, 0)
    BY NoBytes DEF ClearOK
  <2> QED
    BY <1>0, <1>9, <2>1
<1>11. ASSUME NEW i \in 1 .. n, i - 1 \in G PROVE i \in G
  <2>1. ClearOK(F[i - 1], list, seq, i - 1)
    BY <1>11
  <2>2. F[i] = Clear(F[i - 1], list[i], seq)
    BY <1>9
  <2>3. ClearOK(F[i], list, seq, i)
    BY <2>1, <2>2, ClearKeeps
  <2> QED
    BY <2>3
<1>12. n \in G
  <2>1. 0 .. n \subseteq G
    <3> HIDE DEF G
    <3> QED
      BY <1>0, <1>10, <1>11, SetInduction
  <2> QED
    BY <1>0, <2>1
<1> QED
  BY <1>12, ClearSackListIsWalk DEF F

-----------------------------------------------------------------------------
(* Add: what is stored *)

\* The rest of the packet is stored, and the position moves.
LEMMA AddStores ==
  ASSUME RInv, ~Finished, NEW head \in Int, NEW tail \in Int, tail <= StreamEnd,
         Trimmed(head, tail).head < Trimmed(head, tail).tail
  PROVE  LET seg == Trimmed(head, tail)
             b == [head |-> seg.head, tail |-> seg.tail]
             q == Stored(seg.blocks, b)
             pos == Advanced(q)
         IN  /\ b \in Block /\ nextRxSeq <= b.head /\ head <= b.head /\ b.tail <= tail
             /\ q \in Seq(Block) /\ InOrder(q)
             /\ Bytes(q) = Bytes(data) \cup Span(b)
             /\ seg.size + Length(b) = Cardinality(Bytes(q))
             /\ pos.next \in nextRxSeq .. StreamEnd
             /\ pos.avail = availBytes + pos.next - nextRxSeq
             /\ pos.next \notin Bytes(q)
             /\ nextRxSeq .. pos.next - 1 \subseteq Bytes(q)
<1> DEFINE seg == Trimmed(head, tail)
           b == [head |-> seg.head, tail |-> seg.tail]
           q == Stored(seg.blocks, b)
           pos == Advanced(q)
<1>0. /\ TypeOK /\ InOrder(data) /\ size = Cardinality(Bytes(data))
      /\ Bytes(data) \subseteq Base .. StreamEnd - 1 /\ nextRxSeq \notin Bytes(data)
      /\ nextRxSeq <= StreamEnd
  BY DEF RInv, HeldOK, Position
<1>1. /\ seg \in Cuts /\ InOrder(seg.blocks)
      /\ \A k \in 1 .. Len(seg.blocks) : Apart(seg.blocks[k], seg)
      /\ Bytes(seg.blocks) \subseteq Bytes(data)
      /\ \A s \in Bytes(data) : s \in Bytes(seg.blocks) \/ (seg.head <= s /\ s < seg.tail)
      /\ seg.size = Cardinality(Bytes(seg.blocks))
      /\ seg.tail <= tail
      /\ seg.head >= seg.tail \/ (nextRxSeq <= seg.head /\ head <= seg.head)
  BY <1>0, TrimmedOK
<1>2. seg.head < seg.tail
  OBVIOUS
<1> HIDE DEF seg
<1>3. /\ seg.head \in Int /\ seg.tail \in Int /\ seg.blocks \in Seq(Block)
      /\ nextRxSeq \in Int /\ 1 <= nextRxSeq /\ StreamEnd \in Int
  BY <1>0, <1>1, StreamAssumption DEF Cuts, TypeOK, SeqNum
<1>4. /\ b \in Block /\ b.head = seg.head /\ b.tail = seg.tail /\ nextRxSeq <= b.head
      /\ head <= b.head /\ b.tail <= tail /\ b.head < b.tail
  <2>1. /\ 1 <= seg.head /\ seg.tail <= StreamEnd + 1
        /\ nextRxSeq <= seg.head /\ head <= seg.head
    BY <1>1, <1>2, <1>3
  <2> QED
    BY <1>1, <1>2, <1>3, <2>1, BlockIs
<1> HIDE DEF b
<1>5. \A k \in 1 .. Len(seg.blocks) :
        seg.blocks[k].tail <= b.head \/ b.tail <= seg.blocks[k].head
  BY <1>1, <1>4 DEF Apart
<1>6. /\ q \in Seq(Block) /\ InOrder(q) /\ Bytes(q) = Bytes(seg.blocks) \cup Span(b)
      /\ \A k \in 1 .. Len(q) : q[k] = b \/ \E j \in 1 .. Len(seg.blocks) : q[k] = seg.blocks[j]
  BY <1>1, <1>3, <1>4, <1>5, StoredOK
<1> HIDE DEF q
<1>7. \A s : s \in Span(b) <=> s \in Int /\ b.head <= s /\ s < b.tail
  BY <1>3, <1>4 DEF Span
<1>8. Bytes(q) = Bytes(data) \cup Span(b)
  <2>1. \A s \in Bytes(data) : s \in Int
    BY <1>0, InBytes DEF TypeOK
  <2>2. \A s \in Bytes(data) : s \in Bytes(seg.blocks) \/ s \in Span(b)
    BY <1>1, <1>4, <1>7, <2>1
  <2> QED
    BY <1>1, <1>6, <2>2
<1>9. seg.size + Length(b) = Cardinality(Bytes(q))
  <2>1. Bytes(seg.blocks) \cap Span(b) = {}
    <3> SUFFICES ASSUME NEW s \in Bytes(seg.blocks), s \in Span(b) PROVE FALSE
      OBVIOUS
    <3>1. PICK k \in 1 .. Len(seg.blocks) :
            s \in Int /\ seg.blocks[k].head <= s /\ s < seg.blocks[k].tail
      BY <1>3, InBytes
    <3>2. b.head <= s /\ s < b.tail
      BY <1>7
    <3>3. seg.blocks[k].head \in Int /\ seg.blocks[k].tail \in Int
      BY <1>3, BlocksOf
    <3> QED
      <4>1. seg.blocks[k].tail <= b.head \/ b.tail <= seg.blocks[k].head
        BY <1>5
      <4>2. b.head \in Int /\ b.tail \in Int
        BY <1>3, <1>4
      <4> QED
        BY <3>1, <3>2, <3>3, <4>1, <4>2
  <2>2. IsFiniteSet(Bytes(seg.blocks))
    BY <1>3, BytesFinite
  <2>3. Cardinality(Bytes(seg.blocks) \cup Span(b)) = Cardinality(Bytes(seg.blocks)) + Length(b)
    BY <1>4, <2>1, <2>2, CountRange
  <2> QED
    BY <1>1, <1>6, <2>3
<1>10. \A k \in 1 .. Len(q) : q[k].tail <= StreamEnd
  <2> TAKE k \in 1 .. Len(q)
  <2>1. CASE q[k] = b
    BY <1>3, <1>4, <2>1
  <2>2. CASE q[k] # b
    <3>1. PICK j \in 1 .. Len(seg.blocks) : q[k] = seg.blocks[j]
      BY <1>6, <2>2
    <3>2. /\ seg.blocks[j].head \in Int /\ seg.blocks[j].tail \in Int
          /\ seg.blocks[j].head < seg.blocks[j].tail
      BY <1>3, BlocksOf
    <3>3. seg.blocks[j].tail - 1 \in Bytes(seg.blocks)
      <4>1. seg.blocks[j].tail - 1 \in Int /\ seg.blocks[j].tail - 1 < seg.blocks[j].tail
            /\ seg.blocks[j].head <= seg.blocks[j].tail - 1
        BY <3>2
      <4> QED
        BY <1>3, <4>1, InBytes
    <3>4. seg.blocks[j].tail - 1 \in Base .. StreamEnd - 1
      BY <1>0, <1>1, <3>3
    <3> QED
      BY <1>3, <3>1, <3>2, <3>4
  <2> QED
    BY <2>1, <2>2
<1>11. \A k \in 1 .. Len(q) : q[k].tail <= nextRxSeq \/ nextRxSeq <= q[k].head
  <2> TAKE k \in 1 .. Len(q)
  <2>1. CASE q[k] = b
    BY <1>4, <2>1
  <2>2. CASE q[k] # b
    <3>1. PICK j \in 1 .. Len(seg.blocks) : q[k] = seg.blocks[j]
      BY <1>6, <2>2
    <3>2. seg.blocks[j].head \in Int /\ seg.blocks[j].tail \in Int
      BY <1>3, BlockFacts
    <3>3. ~(seg.blocks[j].head <= nextRxSeq /\ nextRxSeq < seg.blocks[j].tail)
      BY <1>0, <1>1, <1>3, InBytes
    <3> QED
      BY <1>3, <3>1, <3>2, <3>3
  <2> QED
    BY <2>1, <2>2
<1>12. /\ pos.next \in nextRxSeq .. StreamEnd
       /\ pos.avail = availBytes + pos.next - nextRxSeq
       /\ pos.next \notin Bytes(q)
       /\ nextRxSeq .. pos.next - 1 \subseteq Bytes(q)
  BY <1>0, <1>6, <1>10, <1>11, AdvancedOK
<1> HIDE DEF pos
<1> QED
  BY <1>4, <1>6, <1>8, <1>9, <1>12 DEF seg, b, q, pos

\* The window is as long as the buffer, from the first byte that was not read.
LEMMA WindowIs ==
  ASSUME NEW q \in Seq(Block), InOrder(q), NEW nxt \in Int, NEW base \in Int, base <= nxt,
         \A s \in Bytes(q) : s >= base, base .. nxt - 1 \subseteq Bytes(q)
  PROVE  MaxRxSequence(q, nxt, NoFin) = base + MaxBuffer
<1>0. MaxBuffer \in Int /\ MaxRxSequence(q, nxt, NoFin) =
        IF q # <<>> /\ nxt > q[1].head THEN q[1].head + MaxBuffer ELSE nxt + MaxBuffer
  BY BufferAssumption DEF MaxRxSequence
<1>1. CASE base = nxt
  <2>1. ~(q # <<>> /\ nxt > q[1].head)
    <3> SUFFICES ASSUME q # <<>>, nxt > q[1].head PROVE FALSE
      OBVIOUS
    <3>1. 1 \in 1 .. Len(q) /\ q[1] \in Block
      OBVIOUS
    <3>2. q[1].head \in Int /\ q[1].tail \in Int /\ q[1].head < q[1].tail
      BY <3>1, BlockFacts
    <3>3. q[1].head \in Bytes(q)
      BY <3>1, <3>2, InBytes
    <3> QED
      BY <1>1, <3>2, <3>3
  <2> QED
    BY <1>0, <1>1, <2>1
<1>2. CASE base # nxt
  <2>1. base \in Bytes(q)
    BY <1>2
  <2>2. PICK k \in 1 .. Len(q) : q[k].head <= base /\ base < q[k].tail
    BY <2>1, InBytes
  <2>3. q # <<>> /\ 1 \in 1 .. Len(q) /\ q[1] \in Block /\ q[k] \in Block
    BY <2>2
  <2>4. /\ q[1].head \in Int /\ q[1].tail \in Int /\ q[1].head < q[1].tail
        /\ q[k].head \in Int
    BY <2>3, BlockFacts
  <2>5. k = 1 \/ q[1].tail <= q[k].head
    BY DEF InOrder
  <2>6. q[1].head <= base
    BY <2>2, <2>4, <2>5
  <2>7. q[1].head \in Bytes(q)
    BY <2>3, <2>4, InBytes
  <2>8. q[1].head = base /\ nxt > base
    BY <1>2, <2>4, <2>6, <2>7
  <2> QED
    BY <1>0, <2>3, <2>8
<1> QED
  BY <1>1, <1>2

\* Nothing of the packet is new: what is stored is what was.
LEMMA AddKeepsBlocks ==
  ASSUME RInv, NEW head \in Int, NEW tail \in Int,
         Trimmed(head, tail).head >= Trimmed(head, tail).tail
  PROVE  LET seg == Trimmed(head, tail)
         IN  /\ seg.blocks \in Seq(Block) /\ InOrder(seg.blocks)
             /\ Bytes(seg.blocks) = Bytes(data) /\ seg.size = size
<1> DEFINE seg == Trimmed(head, tail)
<1>0. TypeOK /\ InOrder(data) /\ size = Cardinality(Bytes(data))
  BY DEF RInv, HeldOK
<1>1. /\ seg \in Cuts /\ InOrder(seg.blocks)
      /\ Bytes(seg.blocks) \subseteq Bytes(data)
      /\ \A s \in Bytes(data) : s \in Bytes(seg.blocks) \/ (seg.head <= s /\ s < seg.tail)
      /\ seg.size = Cardinality(Bytes(seg.blocks))
  BY <1>0, TrimmedOK
<1>2. seg.head >= seg.tail
  OBVIOUS
<1> HIDE DEF seg
<1>3. seg.head \in Int /\ seg.tail \in Int /\ seg.blocks \in Seq(Block)
  BY <1>1 DEF Cuts
<1>4. \A s \in Bytes(data) : s \in Int
  BY <1>0, InBytes DEF TypeOK
<1>5. \A s \in Bytes(data) : s \in Bytes(seg.blocks)
  <2> TAKE s \in Bytes(data)
  <2>1. s \in Int /\ (s \in Bytes(seg.blocks) \/ (seg.head <= s /\ s < seg.tail))
    BY <1>1, <1>4
  <2> QED
    BY <1>2, <1>3, <2>1
<1>6. Bytes(seg.blocks) = Bytes(data)
  BY <1>1, <1>5
<1>7. seg.size = size
  BY <1>0, <1>1, <1>6, Zenon
<1> QED
  BY <1>1, <1>3, <1>6, <1>7 DEF seg

\* All of a segment inside the window, from the position on, is stored already or
\* left by the cut: the window is not cut shorter than it was offered.
LEMMA SegmentIsCovered ==
  ASSUME RInv, NEW head \in Int, NEW tail \in Int, tail <= edge,
         NEW s \in head .. tail - 1, nextRxSeq <= s
  PROVE  s \in Bytes(data) \/ (Trimmed(head, tail).head <= s /\ s < Trimmed(head, tail).tail)
<1>1. TypeOK /\ data \in Seq(Block) /\ edge \in Int /\ MaxBuffer \in Int
  BY BufferAssumption DEF RInv, TypeOK
<1>2. Base \in Int /\ edge <= Base + MaxBuffer /\ \A k \in Bytes(data) : k >= Base
  <2>1. Base \in Int
    BY DEF RInv, TypeOK, SeqNum, Base, Position
  <2> QED
    BY <2>1, StreamAssumption DEF RInv, HeldOK
<1>3. data # <<>> => tail <= data[1].head + MaxBuffer
  <2> SUFFICES ASSUME data # <<>> PROVE tail <= data[1].head + MaxBuffer
    OBVIOUS
  <2>1. 1 \in 1 .. Len(data)
    BY <1>1
  <2>2. data[1].head \in Int /\ data[1].head < data[1].tail
    BY <1>1, <2>1, BlocksOf
  <2>3. data[1].head \in Bytes(data)
    BY <1>1, <2>1, <2>2, InBytes
  <2> QED
    BY <1>1, <1>2, <2>2, <2>3
<1> QED
  BY <1>1, <1>3, TrimmedCovers

\* The SACK list that Add leaves.
NewList(b, nxt) ==
  LET list == IF b.head > nextRxSeq THEN UpdateSackList(b) ELSE sackList
  IN  IF nxt > nextRxSeq THEN ClearSackList(list, nxt) ELSE list

\* It is true of what is held then, held.
LEMMA NewListOK ==
  ASSUME TypeOK, SackListTrue, NEW b \in Block, nextRxSeq <= b.head,
         NEW held, held = Bytes(data) \cup Span(b),
         NEW nxt \in Int, nextRxSeq <= nxt, nxt \notin held,
         nextRxSeq .. nxt - 1 \subseteq held
  PROVE  /\ NewList(b, nxt) \in Seq(Block) /\ Len(NewList(b, nxt)) <= MaxBlocks
         /\ Bytes(NewList(b, nxt)) \subseteq {s \in held : s > nxt}
         /\ \/ truncated
            \/ b.head > nextRxSeq /\ Len(WithNewest(b)) > MaxBlocks
            \/ {s \in held : s > nxt} \subseteq Bytes(NewList(b, nxt))
<1> DEFINE isGap == b.head > nextRxSeq
           cut == isGap /\ Len(WithNewest(b)) > MaxBlocks
           list == IF isGap THEN UpdateSackList(b) ELSE sackList
           r == NewList(b, nxt)
<1>1. /\ sackList \in Seq(Block) /\ Len(sackList) <= MaxBlocks
      /\ nextRxSeq \in Int /\ b.head \in Int /\ b.tail \in Int /\ b.head < b.tail
      /\ \A s \in Bytes(sackList) : s \in Bytes(data) /\ s > nextRxSeq
      /\ truncated \/ \A s \in Bytes(data) : s > nextRxSeq => s \in Bytes(sackList)
  BY BlockFacts DEF TypeOK, SackListTrue, SeqNum
<1>2. \A s : s \in Span(b) <=> s \in Int /\ b.head <= s /\ s < b.tail
  BY <1>1 DEF Span
<1>3. \A s \in held : s \in Int
  BY <1>2, InBytes DEF TypeOK
<1>4. /\ list \in Seq(Block) /\ Len(list) <= MaxBlocks
      /\ \A s \in Bytes(list) : s \in Bytes(sackList) \/ (isGap /\ s \in Span(b))
      /\ cut \/ \A s : s \in Bytes(sackList) \/ (isGap /\ s \in Span(b)) => s \in Bytes(list)
  <2>1. CASE isGap
    <3> DEFINE u == UpdateSackList(b)
    <3>1. /\ u \in Seq(Block) /\ Len(u) <= MaxBlocks
          /\ Bytes(u) \subseteq Span(b) \cup Bytes(sackList)
          /\ Len(WithNewest(b)) > MaxBlocks \/ Bytes(u) = Span(b) \cup Bytes(sackList)
      BY <1>1, UpdateSackListOK
    <3>2. list = u
      BY <2>1
    <3> HIDE DEF u, list
    <3> QED
      BY <2>1, <3>1, <3>2
  <2>2. CASE ~isGap
    <3>1. list = sackList
      BY <2>2
    <3> HIDE DEF list
    <3> QED
      BY <1>1, <2>2, <3>1
  <2> QED
    BY <2>1, <2>2
<1>5. \A s \in Bytes(list) : s \in held /\ s > nextRxSeq
  BY <1>1, <1>2, <1>4
<1>6. cut \/ truncated \/ \A s \in held : s > nxt => s \in Bytes(list)
  <2> SUFFICES ASSUME ~cut, ~truncated, NEW s \in held, s > nxt PROVE s \in Bytes(list)
    OBVIOUS
  <2>1. s \in Int /\ s > nextRxSeq
    BY <1>1, <1>3
  <2>2. CASE s \in Bytes(data)
    BY <1>1, <1>4, <2>1, <2>2
  <2>3. CASE s \in Span(b)
    <3>1. isGap
      <4> SUFFICES ASSUME ~isGap PROVE FALSE
        OBVIOUS
      <4>1. b.head <= nxt /\ nxt < b.tail
        BY <1>1, <1>2, <2>1, <2>3
      <4> QED
        BY <1>2, <4>1
    <3> QED
      BY <1>4, <2>3, <3>1
  <2> QED
    BY <2>2, <2>3
<1> HIDE DEF cut, list
<1>7. r = IF nxt > nextRxSeq THEN ClearSackList(list, nxt) ELSE list
  BY DEF NewList, list
<1> HIDE DEF r
<1>8. CASE nxt > nextRxSeq
  <2> DEFINE c == ClearSackList(list, nxt)
  <2>1. ClearOK(c, list, nxt, Len(list))
    BY <1>4, ClearSackListOK
  <2> HIDE DEF c
  <2>2. /\ c \in Seq(Block) /\ Len(c) <= Len(list)
        /\ \A s : s \in Bytes(c) <=>
                    \E k \in 1 .. Len(list) : s \in Span(list[k]) /\ list[k].tail > nxt
    BY <2>1 DEF ClearOK
  <2>3. Len(c) <= MaxBlocks
    <3>1. Len(c) \in Int /\ Len(list) \in Int /\ MaxBlocks \in Int
      BY <1>4, <2>2, BlocksAssumption
    <3> QED
      BY <1>4, <2>2, <3>1
  <2>4. \A k \in 1 .. Len(list) :
          /\ list[k].head \in Int /\ list[k].tail \in Int
          /\ \A s : s \in Span(list[k]) <=> s \in Int /\ list[k].head <= s /\ s < list[k].tail
    <3>1. \A k \in 1 .. Len(list) : list[k].head \in Int /\ list[k].tail \in Int
      BY <1>4, BlockFacts
    <3> QED
      BY <3>1 DEF Span
  <2>5. ASSUME NEW s \in Bytes(c) PROVE s \in held /\ s > nxt
    <3>1. PICK k \in 1 .. Len(list) : s \in Span(list[k]) /\ list[k].tail > nxt
      BY <2>2
    <3>2. s \in Int /\ list[k].head <= s /\ s < list[k].tail
      BY <2>4, <3>1
    <3>3. s \in Bytes(list)
      BY <1>4, <3>2, InBytes
    <3>4. ~(list[k].head <= nxt)
      <4>1. nxt \notin Bytes(list)
        BY <1>5
      <4> QED
        BY <1>4, <3>1, <4>1, InBytes
    <3> QED
      BY <1>5, <2>4, <3>2, <3>3, <3>4
  <2>6. ASSUME NEW s \in Bytes(list), s > nxt PROVE s \in Bytes(c)
    <3>1. PICK k \in 1 .. Len(list) : s \in Int /\ list[k].head <= s /\ s < list[k].tail
      BY <1>4, InBytes
    <3>2. s \in Span(list[k]) /\ list[k].tail > nxt
      BY <2>4, <2>6, <3>1
    <3> QED
      BY <2>2, <3>2
  <2>7. r = c
    BY <1>7, <1>8 DEF c
  <2> QED
    BY <1>6, <2>2, <2>3, <2>5, <2>6, <2>7 DEF r, cut
<1>9. CASE ~(nxt > nextRxSeq)
  <2>1. r = list
    BY <1>7, <1>9
  <2>2. nxt = nextRxSeq
    BY <1>1, <1>9
  <2> QED
    BY <1>4, <1>5, <1>6, <2>1, <2>2 DEF r, cut
<1> QED
  BY <1>8, <1>9

\* A segment is kept: all its bytes from the position on are stored, and no others.
Keeps(head, tail) ==
  /\ Base' = Base
  /\ Bytes(data)' = Bytes(data) \cup {s \in head .. tail - 1 : s >= nextRxSeq}

LEMMA AddKeeps ==
  ASSUME RInv, ~Finished, NEW head \in 1 .. StreamEnd, NEW tail \in 1 .. StreamEnd,
         tail <= edge, NEW fin \in {NoFin, StreamEnd}, fin = finSeq \/ fin = StreamEnd,
         fin # NoFin => nextRxSeq # StreamEnd,
         finSeq' = fin, arrived' \subseteq 1 .. StreamEnd, Add(head, tail, fin)
  PROVE  RInv' /\ Keeps(head, tail)
<1> DEFINE seg == Trimmed(head, tail)
           b == [head |-> seg.head, tail |-> seg.tail]
           q == Stored(seg.blocks, b)
           pos == Advanced(q)
           nxt == pos.next
           isGap == b.head > nextRxSeq
           cut == isGap /\ Len(WithNewest(b)) > MaxBlocks
<1>0. /\ TypeOK /\ InOrder(data) /\ SackListTrue /\ head \in Int /\ tail \in Int
      /\ tail <= StreamEnd
  BY StreamAssumption DEF RInv
<1>1. /\ data \in Seq(Block) /\ sackList \in Seq(Block) /\ nextRxSeq \in Int /\ 1 <= nextRxSeq
      /\ nextRxSeq <= StreamEnd + 1 /\ finSeq \in {NoFin, StreamEnd} /\ size \in Nat
      /\ availBytes \in Nat /\ edge \in Nat /\ truncated \in BOOLEAN
      /\ StreamEnd \in Nat \ {0} /\ MaxBuffer \in Int /\ MaxBlocks \in Int
  BY <1>0, StreamAssumption, BufferAssumption, BlocksAssumption DEF TypeOK, SeqNum
<1>2. Position = nextRxSeq /\ Base = nextRxSeq - availBytes
  BY DEF Position, Base
<1>3. /\ nextRxSeq <= StreamEnd /\ Base >= 1
      /\ Bytes(data) \subseteq Base .. StreamEnd - 1
      /\ Base .. nextRxSeq - 1 \subseteq Bytes(data)
      /\ nextRxSeq \notin Bytes(data)
      /\ size = Cardinality(Bytes(data))
      /\ edge <= Base + MaxBuffer
      /\ \A s \in Bytes(data) : s < edge
  BY <1>2 DEF RInv, HeldOK
<1>4. Base \in Int /\ Base <= nextRxSeq
  BY <1>1, <1>2
<1>7. /\ seg.head \in Int /\ seg.tail \in Int
      /\ \A s \in head .. tail - 1 :
           s >= nextRxSeq => s \in Bytes(data) \/ (seg.head <= s /\ s < seg.tail)
  <2>1. seg \in Cuts
    BY <1>0, <1>3, TrimmedOK
  <2>2. \A s \in head .. tail - 1 : s \in Int
    OBVIOUS
  <2>3. \A s \in head .. tail - 1 :
          s >= nextRxSeq => s \in Bytes(data) \/ (seg.head <= s /\ s < seg.tail)
    BY <1>0, <1>1, <2>2, SegmentIsCovered
  <2> QED
    BY <2>1, <2>3 DEF Cuts
<1>5. CASE seg.head >= seg.tail
  <2>1. /\ data' = seg.blocks /\ size' = seg.size
        /\ UNCHANGED <<sackList, nextRxSeq, availBytes, edge, truncated>>
    BY <1>5 DEF Add
  <2>2. /\ seg.blocks \in Seq(Block) /\ InOrder(seg.blocks)
        /\ Bytes(seg.blocks) = Bytes(data) /\ seg.size = size
    BY <1>0, <1>5, AddKeepsBlocks
  <2> HIDE DEF seg
  <2>3. data' \in Seq(Block) /\ InOrder(data') /\ Bytes(data') = Bytes(data) /\ size' = size
    BY <2>1, <2>2
  <2>4. Position' = nextRxSeq /\ Base' = Base
    <3>1. ~Finished'
      BY <1>1, <1>3, <2>1 DEF Finished, GotFin
    <3> QED
      BY <1>2, <2>1, <3>1 DEF Position, Base
  <2>5. TypeOK'
    BY <1>0, <2>1, <2>3 DEF TypeOK
  <2>6. SackListTrue'
    BY <1>0, <2>1, <2>3 DEF SackListTrue
  <2>7. HeldOK'
    BY <1>3, <2>1, <2>3, <2>4 DEF HeldOK, GotFin
  <2>8. Keeps(head, tail)
    <3>1. {s \in head .. tail - 1 : s >= nextRxSeq} \subseteq Bytes(data)
      BY <1>5, <1>7
    <3> QED
      BY <2>3, <2>4, <3>1 DEF Keeps
  <2> QED
    BY <2>3, <2>5, <2>6, <2>7, <2>8 DEF RInv
<1>6. CASE ~(seg.head >= seg.tail)
  <2>0. seg.head < seg.tail
    BY <1>6, <1>7
  <2>1. /\ data' = q /\ size' = seg.size + Length(b)
        /\ nextRxSeq' = Past(nxt, fin) /\ availBytes' = pos.avail
        /\ sackList' = NewList(b, nxt)
        /\ truncated' = (truncated \/ cut)
        /\ Offered(data', nextRxSeq', fin)
    BY <1>6 DEF Add, NewList
  <2>2. /\ b \in Block /\ b.head = seg.head /\ b.tail = seg.tail
        /\ nextRxSeq <= b.head /\ head <= b.head /\ b.tail <= tail
        /\ q \in Seq(Block) /\ InOrder(q)
        /\ Bytes(q) = Bytes(data) \cup Span(b)
        /\ seg.size + Length(b) = Cardinality(Bytes(q))
        /\ nxt \in nextRxSeq .. StreamEnd
        /\ pos.avail = availBytes + nxt - nextRxSeq
        /\ nxt \notin Bytes(q)
        /\ nextRxSeq .. nxt - 1 \subseteq Bytes(q)
    BY <1>0, <2>0, AddStores
  <2> HIDE DEF cut, isGap, nxt, pos, q, b, seg
  <2>3. /\ b.head \in Int /\ b.tail \in Int /\ b.head < b.tail
        /\ nxt \in Int /\ nextRxSeq <= nxt /\ nxt <= StreamEnd
    <3>1. b.head \in Int /\ b.tail \in Int /\ b.head < b.tail
      <4>1. b \in Block
        BY <2>2
      <4> QED
        BY <4>1, BlockFacts
    <3>2. nxt \in nextRxSeq .. StreamEnd
      BY <2>2
    <3>3. nxt \in Int /\ nextRxSeq <= nxt /\ nxt <= StreamEnd
      BY <1>1, <3>2
    <3> QED
      BY <3>1, <3>3
  <2>4. \A s : s \in Span(b) <=> s \in Int /\ b.head <= s /\ s < b.tail
    BY <2>3 DEF Span
  <2>5. /\ NewList(b, nxt) \in Seq(Block) /\ Len(NewList(b, nxt)) <= MaxBlocks
        /\ Bytes(NewList(b, nxt)) \subseteq {s \in Bytes(q) : s > nxt}
        /\ truncated \/ cut \/ {s \in Bytes(q) : s > nxt} \subseteq Bytes(NewList(b, nxt))
    BY <1>0, <2>2, <2>3, NewListOK DEF cut, isGap
  <2>6. /\ Position' = nxt /\ nextRxSeq' \in SeqNum /\ nextRxSeq' >= nxt
        /\ fin = NoFin => nextRxSeq' = nxt
        /\ nextRxSeq' = nxt \/ nxt = StreamEnd
        /\ fin # NoFin => nextRxSeq' # StreamEnd
    <3>1. CASE fin # NoFin /\ nxt = fin
      <4>1. fin = StreamEnd /\ nextRxSeq' = StreamEnd + 1
        BY <2>1, <3>1 DEF Past
      <4>2. Finished'
        BY <1>1, <3>1, <4>1 DEF Finished, GotFin
      <4> QED
        BY <1>1, <2>3, <3>1, <4>1, <4>2 DEF Position, SeqNum
    <3>2. CASE ~(fin # NoFin /\ nxt = fin)
      <4>1. nextRxSeq' = nxt
        BY <2>1, <3>2 DEF Past
      <4>2. ~Finished'
        BY <1>1, <2>3, <4>1 DEF Finished, GotFin
      <4> QED
        BY <1>1, <2>3, <3>2, <4>1, <4>2 DEF Position, SeqNum
    <3> QED
      BY <3>1, <3>2
  <2>7. Base' = Base /\ availBytes' \in Nat
    <3>1. availBytes' = availBytes + nxt - nextRxSeq
      BY <2>1, <2>2
    <3>2. Base' = nxt - (availBytes + nxt - nextRxSeq)
      BY <2>6, <3>1 DEF Base
    <3> QED
      BY <1>1, <1>2, <2>3, <3>1, <3>2
  <2>8. Bytes(q) \subseteq Base .. StreamEnd - 1 /\ Base .. nxt - 1 \subseteq Bytes(q)
    <3>1. \A s \in Span(b) : s \in Base .. StreamEnd - 1
      BY <1>0, <1>1, <1>4, <2>2, <2>3, <2>4
    <3>2. ASSUME NEW s \in Base .. nxt - 1 PROVE s \in Bytes(q)
      <4>1. s \in Base .. nextRxSeq - 1 \/ s \in nextRxSeq .. nxt - 1
        BY <1>1, <1>4, <2>3
      <4> QED
        BY <1>3, <2>2, <4>1
    <3> QED
      BY <1>3, <2>2, <3>1, <3>2
  <2>9. edge' \in Nat /\ edge' >= edge /\ edge' <= Base + MaxBuffer
    <3>1. CASE fin = NoFin
      <4>1. MaxRxSequence(q, nxt, NoFin) = Base + MaxBuffer
        <5>1. \A s \in Bytes(q) : s >= Base
          BY <2>8
        <5>2. /\ q \in Seq(Block) /\ InOrder(q) /\ nxt \in Int /\ Base \in Int
              /\ Base <= nxt
          BY <1>1, <1>4, <2>2, <2>3
        <5>3. Base .. nxt - 1 \subseteq Bytes(q)
          BY <2>8
        <5> QED
          BY <5>1, <5>2, <5>3, WindowIs
      <4>2. edge' = Greater(edge, Base + MaxBuffer)
        BY <2>1, <2>6, <3>1, <4>1 DEF Offered
      <4> QED
        BY <1>1, <1>3, <1>4, <4>2 DEF Greater
    <3>2. CASE fin # NoFin
      <4>1. edge' = edge
        BY <2>1, <3>2 DEF Offered
      <4> QED
        BY <1>1, <1>3, <4>1
    <3> QED
      BY <3>1, <3>2
  <2>10. \A s \in Bytes(q) : s < edge'
    <3> TAKE s \in Bytes(q)
    <3>1. s < edge /\ s \in Int
      <4>1. CASE s \in Bytes(data)
        BY <1>1, <1>3, <4>1, InBytes
      <4>2. CASE s \in Span(b)
        BY <1>0, <1>1, <2>2, <2>3, <2>4, <4>2
      <4> QED
        BY <2>2, <4>1, <4>2
    <3> QED
      BY <1>1, <2>9, <3>1
  <2>11. TypeOK'
    <3>1. size' \in Nat
      <4>1. IsFiniteSet(Bytes(q))
        BY <2>2, BytesFinite
      <4> QED
        BY <2>1, <2>2, <4>1, FS_CardinalityType
    <3>2. data' \in Seq(Block) /\ sackList' \in Seq(Block)
      BY <2>1, <2>2, <2>5
    <3>3. truncated' \in BOOLEAN
      BY <1>1, <2>1
    <3> QED
      BY <2>6, <2>7, <2>9, <3>1, <3>2, <3>3 DEF TypeOK
  <2>12. SackListTrue'
    <3>1. {s \in Bytes(q) : s > nextRxSeq'} = {s \in Bytes(q) : s > nxt}
      <4>1. CASE nextRxSeq' = nxt
        BY <4>1
      <4>2. CASE nxt = StreamEnd
        <5>1. \A s \in Bytes(q) : s \in Int /\ s < StreamEnd
          BY <1>1, <1>4, <2>8
        <5>2. nextRxSeq' \in Int
          BY <2>6, <1>1 DEF SeqNum
        <5>3. \A s \in Bytes(q) : ~(s > nextRxSeq') /\ ~(s > nxt)
          BY <1>1, <2>6, <4>2, <5>1, <5>2
        <5> QED
          BY <5>3
      <4> QED
        BY <2>6, <4>1, <4>2
    <3>2. truncated' \/ {s \in Bytes(q) : s > nxt} \subseteq Bytes(NewList(b, nxt))
      BY <1>1, <2>1, <2>5
    <3> QED
      BY <2>1, <2>5, <3>1, <3>2 DEF SackListTrue
  <2>13. HeldOK'
    BY <1>3, <2>1, <2>2, <2>3, <2>6, <2>7, <2>8, <2>9, <2>10 DEF HeldOK, GotFin
  <2>14. Keeps(head, tail)
    <3> DEFINE new == {s \in head .. tail - 1 : s >= nextRxSeq}
    <3>1. new \subseteq Bytes(data) \cup Span(b)
      BY <1>0, <1>7, <2>2, <2>4
    <3>2. Span(b) \subseteq new
      BY <1>0, <1>1, <2>2, <2>3, <2>4
    <3> HIDE DEF new
    <3>3. Bytes(data)' = Bytes(data) \cup new
      BY <2>1, <2>2, <3>1, <3>2
    <3> QED
      BY <2>7, <3>3 DEF Keeps, new
  <2> QED
    BY <2>1, <2>2, <2>11, <2>12, <2>13, <2>14 DEF RInv
<1> QED
  BY <1>5, <1>6

-----------------------------------------------------------------------------
(* The FIN without data *)

LEMMA FinKeeps ==
  ASSUME RInv, ~Finished, finSeq' = StreamEnd, nextRxSeq' = Past(nextRxSeq, StreamEnd),
         arrived' \subseteq 1 .. StreamEnd,
         UNCHANGED <<data, sackList, size, availBytes, edge, truncated>>
  PROVE  RInv' /\ Keeps(StreamEnd, StreamEnd)
<1>0. TypeOK /\ InOrder(data) /\ SackListTrue
  BY DEF RInv
<1>1. /\ data \in Seq(Block) /\ nextRxSeq \in Int /\ 1 <= nextRxSeq
      /\ availBytes \in Nat /\ edge \in Nat /\ StreamEnd \in Nat \ {0}
  BY <1>0, StreamAssumption DEF TypeOK, SeqNum
<1>2. Position = nextRxSeq /\ Base = nextRxSeq - availBytes
  BY DEF Position, Base
<1>3. /\ nextRxSeq <= StreamEnd /\ Bytes(data) \subseteq Base .. StreamEnd - 1
  BY <1>2 DEF RInv, HeldOK
<1>4. /\ Position' = nextRxSeq /\ nextRxSeq' \in SeqNum /\ nextRxSeq' >= nextRxSeq
      /\ nextRxSeq' = nextRxSeq \/ nextRxSeq = StreamEnd
      /\ nextRxSeq' # StreamEnd
  <2>1. CASE nextRxSeq = StreamEnd
    <3>1. nextRxSeq' = StreamEnd + 1
      BY <1>1, <2>1 DEF Past, NoFin
    <3>2. Finished'
      BY <1>1, <3>1 DEF Finished, GotFin, NoFin
    <3> QED
      BY <1>1, <2>1, <3>1, <3>2 DEF Position, SeqNum
  <2>2. CASE nextRxSeq # StreamEnd
    <3>1. nextRxSeq' = nextRxSeq
      BY <2>2 DEF Past
    <3>2. ~Finished'
      BY <1>1, <1>3, <3>1 DEF Finished, GotFin
    <3> QED
      BY <1>1, <1>3, <2>2, <3>1, <3>2 DEF Position, SeqNum
  <2> QED
    BY <2>1, <2>2
<1>5. Base' = Base
  BY <1>2, <1>4 DEF Base
<1>6. TypeOK'
  BY <1>0, <1>4 DEF TypeOK
<1>7. SackListTrue'
  <2>1. {s \in Bytes(data) : s > nextRxSeq'} = {s \in Bytes(data) : s > nextRxSeq}
    <3>1. CASE nextRxSeq' = nextRxSeq
      BY <3>1
    <3>2. CASE nextRxSeq = StreamEnd
      <4>1. \A s \in Bytes(data) : s \in Int /\ s < StreamEnd
        <5>1. Base \in Int
          BY <1>1, <1>2
        <5> QED
          BY <1>1, <1>3, <5>1
      <4>2. nextRxSeq' \in Int
        BY <1>4, <1>1 DEF SeqNum
      <4>3. \A s \in Bytes(data) : ~(s > nextRxSeq') /\ ~(s > nextRxSeq)
        BY <1>1, <1>4, <3>2, <4>1, <4>2
      <4> QED
        BY <4>3
    <3> QED
      BY <1>4, <3>1, <3>2
  <2> QED
    BY <1>0, <2>1 DEF SackListTrue
<1>8. HeldOK'
  BY <1>2, <1>3, <1>4, <1>5 DEF RInv, HeldOK
<1>9. Keeps(StreamEnd, StreamEnd)
  <2>1. StreamEnd .. StreamEnd - 1 = {}
    BY <1>1
  <2> QED
    BY <1>5, <2>1 DEF Keeps
<1> QED
  BY <1>0, <1>6, <1>7, <1>8, <1>9 DEF RInv

-----------------------------------------------------------------------------
(* Extract: packets leave from the front *)

Rests == [data: Seq(Block), left: Nat]

IsTakeWalk(f, n) ==
  f = [i \in 0 .. Len(data) |->
         IF i = 0 THEN [data |-> <<>>, left |-> n] ELSE TakeFront(f[i - 1], data[i])]
TakeWalk(n) == CHOOSE f : IsTakeWalk(f, n)

LEMMA TakenIsWalk ==
  ASSUME NEW n
  PROVE  Taken(n) = TakeWalk(n)[Len(data)].data
BY Zenon DEF Taken, TakeWalk, IsTakeWalk

LEMMA CutBlock ==
  ASSUME NEW b \in Block, NEW left \in Nat, ~(Length(b) <= left)
  PROVE  LET c == [b EXCEPT !.head = @ + left]
         IN  c \in Block /\ c.head = b.head + left /\ c.tail = b.tail
<1>1. /\ b.head \in Nat \ {0} /\ b.tail \in Nat \ {0} /\ b.head < b.tail
      /\ b.tail <= StreamEnd + 1 /\ Length(b) = b.tail - b.head
      /\ b = [head |-> b.head, tail |-> b.tail]
  BY BlockFacts DEF Length
<1>2. [b EXCEPT !.head = @ + left] = [head |-> b.head + left, tail |-> b.tail]
  BY <1>1
<1>3. [head |-> b.head + left, tail |-> b.tail] \in Block
  BY <1>1, BlockIs
<1> QED
  BY <1>2, <1>3

LEMMA TakeFrontOK ==
  ASSUME NEW rest \in Rests, NEW i \in Block
  PROVE  TakeFront(rest, i) \in Rests
<1>1. /\ rest.data \in Seq(Block) /\ rest.left \in Nat
      /\ rest = [data |-> rest.data, left |-> rest.left] /\ Length(i) \in Nat
      /\ Append(rest.data, i) \in Seq(Block)
  BY BlockFacts DEF Rests, Length
<1>2. CASE rest.left = 0
  <2> DEFINE d == Append(rest.data, i)
  <2>1. TakeFront(rest, i) = [rest EXCEPT !.data = d]
    BY <1>2 DEF TakeFront
  <2>2. d \in Seq(Block)
    BY <1>1
  <2> HIDE DEF d
  <2> QED
    BY <1>1, <2>1, <2>2 DEF Rests
<1>3. CASE rest.left # 0 /\ Length(i) <= rest.left
  <2>1. TakeFront(rest, i) = [rest EXCEPT !.left = rest.left - Length(i)]
    BY <1>3 DEF TakeFront
  <2>2. rest.left - Length(i) \in Nat
    BY <1>1, <1>3
  <2> QED
    BY <1>1, <2>1, <2>2 DEF Rests
<1>4. CASE rest.left # 0 /\ ~(Length(i) <= rest.left)
  <2> DEFINE c == [i EXCEPT !.head = @ + rest.left]
             d == Append(rest.data, c)
  <2>1. TakeFront(rest, i) = [data |-> d, left |-> 0]
    BY <1>4 DEF TakeFront
  <2>2. c \in Block
    BY <1>1, <1>4, CutBlock
  <2> HIDE DEF c
  <2>3. d \in Seq(Block)
    BY <1>1, <2>2
  <2> HIDE DEF d
  <2> QED
    BY <2>1, <2>3 DEF Rests
<1> QED
  BY <1>2, <1>3, <1>4

LEMMA TakeWalkValues ==
  ASSUME TypeOK, NEW n \in Nat
  PROVE  /\ TakeWalk(n)[0] = [data |-> <<>>, left |-> n]
         /\ \A i \in 1 .. Len(data) : TakeWalk(n)[i] = TakeFront(TakeWalk(n)[i - 1], data[i])
<1> DEFINE m == Len(data)
           start == [data |-> <<>>, left |-> n]
           step == [i \in 1 .. m |-> [rest \in Rests |-> TakeFront(rest, data[i])]]
           F == TakeWalk(n)
<1>0. m \in Nat
  BY DEF TypeOK
<1>1. \A i \in 1 .. m : data[i] \in Block
  BY DEF TypeOK
<1>2. start \in Rests
  <2>1. <<>> \in Seq(Block)
    OBVIOUS
  <2> QED
    BY <2>1 DEF Rests
<1>3. step \in [1 .. m -> [Rests -> Rests]]
  BY <1>1, TakeFrontOK
<1>4. PICK f \in [0 .. m -> Rests] : IsLoop(f, m, start, step)
  <2> HIDE DEF step, m, start
  <2> QED
    BY <1>0, <1>2, <1>3, LoopExists
<1>5. \A i \in 1 .. m : f[i] = TakeFront(f[i - 1], data[i])
  <2>1. \A i \in 1 .. m : f[i - 1] \in Rests
    BY <1>0
  <2> QED
    BY <1>4, <2>1 DEF IsLoop
<1>6. f = [i \in 0 .. m |-> IF i = 0 THEN start ELSE TakeFront(f[i - 1], data[i])]
  <2> HIDE DEF step, start
  <2> QED
    BY <1>4, <1>5 DEF IsLoop
<1>7. IsTakeWalk(f, n)
  BY <1>6, Zenon DEF IsTakeWalk
<1>8. F = [i \in 0 .. m |-> IF i = 0 THEN start ELSE TakeFront(F[i - 1], data[i])]
  BY <1>7, Zenon DEF TakeWalk, IsTakeWalk
<1> HIDE DEF F
<1>9. F[0] = start /\ \A i \in 1 .. m : F[i] = TakeFront(F[i - 1], data[i])
  BY <1>0, <1>8
<1> QED
  BY <1>9 DEF F

LEMMA AppendInOrder ==
  ASSUME NEW q \in Seq(Block), InOrder(q), NEW b \in Block,
         \A k \in 1 .. Len(q) : q[k].tail <= b.head
  PROVE  InOrder(Append(q, b))
<1> DEFINE r == Append(q, b)
<1>1. Len(r) = Len(q) + 1 /\ r[Len(q) + 1] = b /\ \A k \in 1 .. Len(q) : r[k] = q[k]
  OBVIOUS
<1>2. Len(q) \in Nat
  OBVIOUS
<1> HIDE DEF r
<1>3. ASSUME NEW j \in 1 .. Len(r), NEW i \in 1 .. j - 1 PROVE r[i].tail <= r[j].head
  <2>1. i \in 1 .. Len(q) /\ r[i] = q[i]
    BY <1>1, <1>2
  <2>2. CASE j = Len(q) + 1
    BY <1>1, <2>1, <2>2
  <2>3. CASE j # Len(q) + 1
    <3>1. j \in 1 .. Len(q)
      BY <1>1, <1>2, <2>3
    <3> QED
      BY <1>1, <2>1, <3>1 DEF InOrder
  <2> QED
    BY <2>2, <2>3
<1> QED
  BY <1>3 DEF InOrder, r

\* After i blocks: the bytes base .. base + n - rest.left - 1 are gone.
TakeOK(rest, n, base, i) ==
  LET p == base + n - rest.left
  IN  /\ rest \in Rests /\ rest.left <= n
      /\ rest.left > 0 => rest.data = <<>> /\ \A s \in Passed(data, i) : s < p
      /\ InOrder(rest.data)
      /\ \A s : s \in Bytes(rest.data) <=> s \in Passed(data, i) /\ s >= p
      /\ \A s \in base .. p - 1 : s \in Passed(data, i)
      /\ \A j \in i + 1 .. Len(data) :
           \A k \in 1 .. Len(rest.data) : rest.data[k].tail <= data[j].head

LEMMA TakeKeeps ==
  ASSUME TypeOK, InOrder(data), NEW n \in Nat, NEW base \in Int,
         \A s \in Bytes(data) : s >= base, \A s \in base .. base + n - 1 : s \in Bytes(data),
         NEW i \in 1 .. Len(data), NEW rest, TakeOK(rest, n, base, i - 1)
  PROVE  TakeOK(TakeFront(rest, data[i]), n, base, i)
<1> DEFINE b == data[i]
           new == TakeFront(rest, b)
           p == base + n - rest.left
           P == Passed(data, i - 1)
           R == Passed(data, i)
<1>0. data \in Seq(Block) /\ Len(data) \in Nat
  BY DEF TypeOK
<1>1. /\ rest \in Rests /\ rest.left \in Nat /\ rest.data \in Seq(Block) /\ rest.left <= n
      /\ b \in Block /\ b.head \in Int /\ b.tail \in Int /\ b.head < b.tail
      /\ Length(b) = b.tail - b.head /\ p \in Int
  <2>1. rest \in Rests /\ rest.left <= n
    BY DEF TakeOK
  <2>2. rest.left \in Nat /\ rest.data \in Seq(Block)
    BY <2>1 DEF Rests
  <2>3. b \in Block /\ b.head \in Int /\ b.tail \in Int /\ b.head < b.tail
    BY <1>0, BlocksOf
  <2>4. Length(b) = b.tail - b.head
    BY DEF Length
  <2>5. p \in Int
    BY <2>2
  <2> QED
    BY <2>1, <2>2, <2>3, <2>4, <2>5
<1>2. /\ rest.left > 0 => rest.data = <<>> /\ \A s \in P : s < p
      /\ InOrder(rest.data)
      /\ \A s : s \in Bytes(rest.data) <=> s \in P /\ s >= p
      /\ \A s \in base .. p - 1 : s \in P
      /\ \A j \in i .. Len(data) :
           \A k \in 1 .. Len(rest.data) : rest.data[k].tail <= data[j].head
  BY <1>0 DEF TakeOK
<1>3. \A k \in 1 .. Len(data) : /\ data[k] \in Block /\ data[k].head \in Int
                                /\ data[k].tail \in Int /\ data[k].head < data[k].tail
  BY <1>0, BlockFacts
<1>4. /\ \A k \in 1 .. i - 1 : data[k].tail <= b.head
      /\ \A k \in i + 1 .. Len(data) : b.tail <= data[k].head
  BY <1>0 DEF InOrder
<1>5. \A s : s \in P <=> s \in Int /\ \E k \in 1 .. i - 1 : data[k].head <= s /\ s < data[k].tail
  <2>1. i - 1 \in 0 .. Len(data)
    BY <1>0
  <2> QED
    BY <1>0, <2>1, PassedInSpan
<1>6. \A s : s \in R <=> s \in P \/ (s \in Int /\ b.head <= s /\ s < b.tail)
  <2>1. R = P \cup Span(b)
    BY <1>0, PassedCount
  <2>2. \A s : s \in Span(b) <=> s \in Int /\ b.head <= s /\ s < b.tail
    <3>1. b.head \in Int /\ b.tail \in Int
      BY <1>1
    <3> HIDE DEF b
    <3> QED
      BY <3>1 DEF Span
  <2> HIDE DEF R, P, b
  <2> QED
    BY <2>1, <2>2
<1> HIDE DEF b, new, p, P, R
<1>7. \A s \in P : s \in Int /\ s < b.head
  <2> SUFFICES ASSUME NEW s \in P PROVE s \in Int /\ s < b.head
    OBVIOUS
  <2>1. PICK k \in 1 .. i - 1 : s \in Int /\ data[k].head <= s /\ s < data[k].tail
    BY <1>5
  <2>2. data[k].tail \in Int
    BY <1>0, <1>3
  <2> QED
    BY <1>1, <1>4, <2>1, <2>2
<1>8. b.head >= p
  <2>1. b.head \in Bytes(data)
    <3>1. i \in 1 .. Len(data) /\ b.head \in Int /\ data[i].head <= b.head /\ b.head < data[i].tail
      BY <1>1 DEF b
    <3> QED
      BY <1>0, <3>1, InBytes
  <2>2. b.head >= base
    BY <2>1
  <2>3. ~(b.head < p)
    BY <1>1, <1>2, <1>7, <2>2
  <2> QED
    BY <1>1, <2>3
<1>9. CASE rest.left = 0
  <2> DEFINE d == Append(rest.data, b)
  <2>1. new = [rest EXCEPT !.data = d]
    BY <1>9 DEF TakeFront, new
  <2>2. d \in Seq(Block) /\ Bytes(d) = Bytes(rest.data) \cup Span(b)
    BY <1>1, AppendBytes
  <2>3. InOrder(d)
    <3>1. \A k \in 1 .. Len(rest.data) : rest.data[k].tail <= b.head
      BY <1>0, <1>2 DEF b
    <3> QED
      BY <1>1, <1>2, <3>1, AppendInOrder
  <2>4. \A j \in i + 1 .. Len(data) : \A k \in 1 .. Len(d) : d[k].tail <= data[j].head
    <3> TAKE j \in i + 1 .. Len(data)
    <3> TAKE k \in 1 .. Len(d)
    <3>1. CASE k \in 1 .. Len(rest.data)
      <4>1. d[k] = rest.data[k]
        BY <1>1, <3>1
      <4>2. j \in i .. Len(data)
        BY <1>0
      <4> QED
        BY <1>2, <3>1, <4>1, <4>2
    <3>2. CASE k \notin 1 .. Len(rest.data)
      <4>1. d[k] = b
        <5>1. Len(d) = Len(rest.data) + 1 /\ d[Len(rest.data) + 1] = b /\ Len(rest.data) \in Nat
          <6>1. rest.data \in Seq(Block) /\ b \in Block
            BY <1>1
          <6> QED
            BY <6>1
        <5> HIDE DEF d
        <5>2. k = Len(rest.data) + 1
          BY <3>2, <5>1
        <5> QED
          BY <5>1, <5>2
      <4> QED
        BY <1>4, <4>1
    <3> QED
      BY <3>1, <3>2
  <2> HIDE DEF d
  <2>5. new \in Rests /\ new.data = d /\ new.left = 0
    BY <1>1, <1>9, <2>1, <2>2 DEF Rests
  <2>6. base + n - new.left = p
    BY <1>9, <2>5 DEF p
  <2>7. \A s : s \in Bytes(d) <=> s \in R /\ s >= p
    <3>1. \A s : s \in Span(b) <=> s \in Int /\ b.head <= s /\ s < b.tail
      BY <1>1 DEF Span
    <3>2. \A s : s \in Bytes(d) <=> s \in Bytes(rest.data) \/ s \in Span(b)
      BY <2>2
    <3>3. \A s \in Int : b.head <= s => s >= p
      BY <1>1, <1>8
    <3> QED
      BY <1>2, <1>6, <3>1, <3>2, <3>3
  <2>8. \A s \in base .. p - 1 : s \in R
    BY <1>2, <1>6
  <2>9. new.left <= n /\ ~(new.left > 0)
    BY <2>5
  <2> QED
    BY <2>3, <2>4, <2>5, <2>6, <2>7, <2>8, <2>9 DEF TakeOK, new, b, R
<1>10. CASE rest.left # 0
  <2>0. rest.left > 0 /\ rest.data = <<>> /\ (\A s \in P : s < p)
    BY <1>1, <1>2, <1>10
  <2>1. b.head = p
    <3>1. p \in Bytes(data)
      <4>1. p \in base .. base + n - 1
        BY <1>1, <2>0 DEF p
      <4> QED
        BY <4>1
    <3>2. PICK k \in 1 .. Len(data) : data[k].head <= p /\ p < data[k].tail
      BY <1>0, <3>1, InBytes
    <3>3. CASE k < i
      <4>1. k \in 1 .. i - 1
        BY <1>0, <3>3
      <4>2. p \in P
        BY <1>1, <1>5, <3>2, <4>1
      <4> QED
        BY <1>1, <2>0, <4>2
    <3>4. CASE k = i
      BY <1>1, <1>8, <3>2, <3>4 DEF b
    <3>5. CASE k > i
      <4>1. k \in i + 1 .. Len(data) /\ data[k].head \in Int
        BY <1>0, <1>3, <3>5
      <4> QED
        BY <1>1, <1>4, <1>8, <3>2, <4>1
    <3> QED
      BY <1>0, <3>3, <3>4, <3>5
  <2>2. CASE Length(b) <= rest.left
    <3>1. new = [rest EXCEPT !.left = rest.left - Length(b)]
      BY <1>10, <2>2 DEF TakeFront, new
    <3>2. /\ new \in Rests /\ new.data = <<>> /\ new.left = rest.left - Length(b)
      <4>1. rest.left - Length(b) \in Nat
        BY <1>1, <2>2
      <4> QED
        BY <1>1, <2>0, <3>1, <4>1 DEF Rests
    <3>3. base + n - new.left = b.tail /\ new.left <= n
      <4>1. base + n - rest.left = b.head
        BY <2>1 DEF p
      <4> QED
        <5>1. /\ Length(b) = b.tail - b.head /\ rest.left <= n /\ rest.left \in Int
              /\ b.head \in Int /\ b.tail \in Int /\ b.head < b.tail
          BY <1>1
        <5>2. new.left = rest.left - Length(b)
          BY <3>2
        <5> HIDE DEF new, b
        <5> QED
          BY <4>1, <5>1, <5>2
    <3>4. \A s \in R : s \in Int /\ s < b.tail
      BY <1>1, <1>6, <1>7
    <3>5. \A s : s \in Bytes(<<>>) <=> s \in R /\ s >= b.tail
      <4>1. \A s : s \notin Bytes(<<>>)
        BY NoBytes
      <4>2. \A s \in R : ~(s >= b.tail)
        BY <1>1, <3>4
      <4> QED
        BY <4>1, <4>2
    <3>6. \A s \in base .. b.tail - 1 : s \in R
      <4> TAKE s \in base .. b.tail - 1
      <4>1. s \in Int /\ s < b.tail /\ p \in Int /\ b.head = p
        BY <1>1, <2>1
      <4>2. CASE s < p
        BY <1>2, <1>6, <4>1, <4>2
      <4>3. CASE ~(s < p)
        BY <1>6, <4>1, <4>3
      <4> QED
        BY <4>2, <4>3
    <3>7. InOrder(<<>>) /\ \A k \in 1 .. Len(<<>>) : FALSE
      BY DEF InOrder
    <3> QED
      BY <3>2, <3>3, <3>4, <3>5, <3>6, <3>7 DEF TakeOK, new, b, R
  <2>3. CASE ~(Length(b) <= rest.left)
    <3> DEFINE c == [b EXCEPT !.head = @ + rest.left]
               d == Append(<<>>, c)
    <3>1. new = [data |-> d, left |-> 0]
      BY <1>10, <2>0, <2>3 DEF TakeFront, new
    <3>2. c \in Block /\ c.head = b.head + rest.left /\ c.tail = b.tail
      BY <1>1, <2>3, CutBlock
    <3> HIDE DEF c
    <3>3. /\ d \in Seq(Block) /\ Bytes(d) = Span(c)
      BY <3>2, NoBytes, AppendBytes
    <3>4. Len(d) = 1 /\ d[1] = c
      OBVIOUS
    <3> HIDE DEF d
    <3>5. InOrder(d)
      BY <3>4 DEF InOrder
    <3>6. \A j \in i + 1 .. Len(data) : \A k \in 1 .. Len(d) : d[k].tail <= data[j].head
      BY <1>4, <3>2, <3>4
    <3>7. new \in Rests /\ new.data = d /\ new.left = 0
      BY <3>1, <3>3 DEF Rests
    <3>8. /\ base + n - new.left = c.head /\ c.head \in Int /\ c.head > b.head
          /\ base + n = c.head
      <4>1. base + n - rest.left = b.head
        BY <2>1 DEF p
      <4> QED
        BY <1>1, <2>0, <3>2, <3>7, <4>1
    <3>9. \A s : s \in Bytes(d) <=> s \in R /\ s >= c.head
      <4>1. \A s : s \in Span(c) <=> s \in Int /\ c.head <= s /\ s < b.tail
        BY <1>1, <3>2, <3>8 DEF Span
      <4>2. \A s \in P : s \in Int /\ ~(s >= c.head)
        BY <1>1, <1>7, <3>8
      <4>3. \A s \in Int : c.head <= s => b.head <= s
        BY <1>1, <3>8
      <4> QED
        BY <1>6, <3>3, <4>1, <4>2, <4>3
    <3>10. \A s \in base .. c.head - 1 : s \in R
      <4> TAKE s \in base .. c.head - 1
      <4>1. CASE s < p
        BY <1>1, <1>2, <1>6, <4>1
      <4>2. CASE ~(s < p)
        <5>1. s \in Int /\ b.head <= s /\ s < b.tail
          <6>1. c.head < b.tail
            BY <3>2, BlockFacts
          <6> QED
            BY <1>1, <2>1, <3>8, <4>2, <6>1
        <5> QED
          BY <1>6, <5>1
      <4> QED
        BY <4>1, <4>2
    <3>11. new.left <= n /\ ~(new.left > 0)
      BY <3>7
    <3> QED
      BY <3>5, <3>6, <3>7, <3>8, <3>9, <3>10, <3>11 DEF TakeOK, new, b, R
  <2> QED
    BY <2>2, <2>3
<1> QED
  BY <1>1, <1>9, <1>10 DEF new, b

LEMMA TakenOK ==
  ASSUME TypeOK, InOrder(data), NEW n \in Nat, NEW base \in Int,
         \A s \in Bytes(data) : s >= base, \A s \in base .. base + n - 1 : s \in Bytes(data)
  PROVE  /\ Taken(n) \in Seq(Block) /\ InOrder(Taken(n))
         /\ \A s : s \in Bytes(Taken(n)) <=> s \in Bytes(data) /\ s >= base + n
<1> DEFINE f == TakeWalk(n)
           m == Len(data)
           G == {i \in 0 .. m : TakeOK(f[i], n, base, i)}
<1>0. data \in Seq(Block) /\ m \in Nat
  BY DEF TypeOK
<1>1. /\ f[0] = [data |-> <<>>, left |-> n]
      /\ \A i \in 1 .. m : f[i] = TakeFront(f[i - 1], data[i])
  BY TakeWalkValues
<1> HIDE DEF f
<1>2. 0 \in G
  <2>1. f[0] \in Rests /\ f[0].data = <<>> /\ f[0].left = n
    BY <1>1, NoBytes DEF Rests
  <2>2. base + n - f[0].left = base
    BY <2>1
  <2>3. Passed(data, 0) = {} /\ Bytes(<<>>) = {}
    BY PassedNone, NoBytes
  <2>4. InOrder(<<>>) /\ Len(<<>>) = 0
    BY DEF InOrder
  <2>5. TakeOK(f[0], n, base, 0)
    BY <2>1, <2>2, <2>3, <2>4 DEF TakeOK
  <2> QED
    BY <1>0, <2>5
<1>3. ASSUME NEW i \in 1 .. m, i - 1 \in G PROVE i \in G
  <2>1. TakeOK(f[i - 1], n, base, i - 1)
    BY <1>3
  <2>2. TakeOK(TakeFront(f[i - 1], data[i]), n, base, i)
    BY <2>1, TakeKeeps
  <2> QED
    BY <1>1, <2>2
<1>4. m \in G
  <2>1. 0 .. m \subseteq G
    <3> HIDE DEF G
    <3> QED
      BY <1>0, <1>2, <1>3, SetInduction
  <2> QED
    BY <1>0, <2>1
<1> DEFINE rest == f[m]
           p == base + n - rest.left
<1>5. TakeOK(rest, n, base, m)
  BY <1>4
<1> HIDE DEF rest
<1>6. /\ rest.data \in Seq(Block) /\ rest.left \in Nat /\ rest.left <= n /\ InOrder(rest.data)
      /\ \A s : s \in Bytes(rest.data) <=> s \in Passed(data, m) /\ s >= p
      /\ rest.left > 0 => \A s \in Passed(data, m) : s < p
  BY <1>5 DEF TakeOK, Rests
<1>7. Passed(data, m) = Bytes(data)
  BY <1>0, BytesArePassed
<1>8. rest.left = 0
  <2> SUFFICES ASSUME rest.left > 0 PROVE FALSE
    BY <1>6
  <2>1. p \in base .. base + n - 1 /\ p \in Int
    BY <1>6
  <2>2. p \in Bytes(data)
    BY <2>1
  <2>3. p < p
    BY <1>6, <1>7, <2>2
  <2> QED
    BY <2>1, <2>3
<1>9. p = base + n
  BY <1>8
<1>10. Taken(n) = rest.data
  BY TakenIsWalk DEF rest, f
<1> HIDE DEF p
<1> QED
  BY <1>6, <1>7, <1>9, <1>10

-----------------------------------------------------------------------------
(* The invariant *)

\* What a read may do: the bytes from the first that was not read leave.
Removal ==
  /\ \E n \in 1 .. availBytes : /\ Base' = Base + n
                                /\ Bytes(data)' = Bytes(data) \ (Base .. Base + n - 1)
  /\ UNCHANGED <<nextRxSeq, finSeq, arrived>>

LEMMA ExtractIsRemoval ==
  ASSUME RInv, Extract
  PROVE  RInv' /\ Removal
<1>0. TypeOK /\ InOrder(data) /\ SackListTrue
  BY DEF RInv
<1>1. /\ data \in Seq(Block) /\ nextRxSeq \in Int /\ nextRxSeq >= 1
      /\ nextRxSeq <= StreamEnd + 1 /\ size \in Nat /\ availBytes \in Nat /\ edge \in Nat
      /\ StreamEnd \in Nat \ {0} /\ MaxBuffer \in Int
  BY <1>0, StreamAssumption, BufferAssumption DEF TypeOK, SeqNum
<1>2. /\ Position \in Int /\ Position <= nextRxSeq /\ Position <= StreamEnd
      /\ Base = Position - availBytes /\ Base \in Int /\ Base >= 1
  BY <1>1 DEF RInv, HeldOK, Position, Base
<1>3. /\ Bytes(data) \subseteq Base .. StreamEnd - 1
      /\ Base .. Position - 1 \subseteq Bytes(data)
      /\ Position \notin Bytes(data)
      /\ size = Cardinality(Bytes(data))
      /\ edge <= Base + MaxBuffer
      /\ \A s \in Bytes(data) : s < edge
  BY DEF RInv, HeldOK
<1>4. PICK n \in 1 .. availBytes :
        data' = Taken(n) /\ size' = size - n /\ availBytes' = availBytes - n
  BY DEF Extract
<1>5. /\ UNCHANGED <<sackList, nextRxSeq, finSeq, arrived, truncated>>
      /\ Offered(data', nextRxSeq, finSeq)
  BY DEF Extract
<1>6. /\ data' \in Seq(Block) /\ InOrder(data')
      /\ \A s : s \in Bytes(data') <=> s \in Bytes(data) /\ s >= Base + n
  <2>1. n \in Nat /\ \A s \in Bytes(data) : s >= Base
    BY <1>1, <1>2, <1>3
  <2>2. \A s \in Base .. Base + n - 1 : s \in Bytes(data)
    BY <1>1, <1>2, <1>3
  <2>3. /\ Taken(n) \in Seq(Block) /\ InOrder(Taken(n))
        /\ \A s : s \in Bytes(Taken(n)) <=> s \in Bytes(data) /\ s >= Base + n
    BY <1>0, <1>2, <2>1, <2>2, TakenOK
  <2> QED
    BY <1>4, <2>3
<1>7. Position' = Position /\ Base' = Base + n
  <2>1. Position' = Position
    BY <1>5 DEF Position, Finished, GotFin
  <2> QED
    BY <1>1, <1>2, <1>4, <2>1 DEF Base
<1>8. Bytes(data') = Bytes(data) \ (Base .. Base + n - 1)
  <2>1. \A s \in Bytes(data) : s \in Int /\ s >= Base
    BY <1>1, <1>2, <1>3
  <2>2. \A s \in Bytes(data) : s >= Base + n <=> s \notin Base .. Base + n - 1
    BY <1>2, <2>1
  <2> QED
    BY <1>6, <2>2
<1>9. size' = Cardinality(Bytes(data')) /\ size' \in Nat
  <2> DEFINE b == [head |-> Base, tail |-> Base + n]
  <2>1. b \in Block /\ b.head = Base /\ b.tail = Base + n
    BY <1>1, <1>2, BlockIs
  <2> HIDE DEF b
  <2>2. Span(b) = Base .. Base + n - 1 /\ Length(b) = n
    BY <1>1, <1>2, <2>1 DEF Span, Length
  <2>3. Span(b) \subseteq Bytes(data)
    BY <1>1, <1>2, <1>3, <2>2
  <2>4. Bytes(data) = Bytes(data') \cup Span(b) /\ Bytes(data') \cap Span(b) = {}
    BY <1>8, <2>2, <2>3
  <2>5. IsFiniteSet(Bytes(data'))
    BY <1>6, BytesFinite
  <2>6. Cardinality(Bytes(data)) = Cardinality(Bytes(data')) + n
    <3>1. Cardinality(Bytes(data') \cup Span(b)) = Cardinality(Bytes(data')) + Length(b)
      BY <2>1, <2>4, <2>5, CountRange
    <3> QED
      BY <2>2, <2>4, <3>1
  <2>7. Cardinality(Bytes(data')) \in Nat
    BY <2>5, FS_CardinalityType
  <2> QED
    BY <1>1, <1>3, <1>4, <2>6, <2>7
<1>10. /\ Bytes(data') \subseteq Base + n .. StreamEnd - 1
       /\ Base + n .. Position - 1 \subseteq Bytes(data')
       /\ Position \notin Bytes(data')
  <2>1. \A s \in Bytes(data') : s \in Base + n .. StreamEnd - 1
    BY <1>1, <1>2, <1>3, <1>6
  <2>2. \A s \in Base + n .. Position - 1 : s \in Bytes(data')
    BY <1>1, <1>2, <1>3, <1>6
  <2> QED
    BY <1>3, <1>6, <2>1, <2>2
<1>11. edge' \in Nat /\ edge' >= edge /\ edge' <= Base + n + MaxBuffer
  <2>1. CASE finSeq = NoFin
    <3>1. Position = nextRxSeq
      BY <2>1 DEF Position, Finished, GotFin
    <3>2. MaxRxSequence(data', nextRxSeq, NoFin) = Base + n + MaxBuffer
      <4>1. Base + n \in Int /\ Base + n <= nextRxSeq
        BY <1>1, <1>2, <3>1
      <4>2. \A s \in Bytes(data') : s >= Base + n
        BY <1>6
      <4>3. Base + n .. nextRxSeq - 1 \subseteq Bytes(data')
        BY <1>10, <3>1
      <4> QED
        BY <1>1, <1>6, <4>1, <4>2, <4>3, WindowIs
    <3>3. edge' = Greater(edge, Base + n + MaxBuffer)
      BY <1>5, <2>1, <3>2 DEF Offered
    <3> QED
      BY <1>1, <1>2, <1>3, <3>3 DEF Greater
  <2>2. CASE finSeq # NoFin
    <3>1. edge' = edge
      BY <1>5, <2>2 DEF Offered
    <3> QED
      BY <1>1, <1>2, <1>3, <3>1
  <2> QED
    BY <2>1, <2>2
<1>12. \A s \in Bytes(data') : s < edge'
  <2>1. \A s \in Bytes(data) : s \in Int
    BY <1>1, InBytes
  <2> QED
    BY <1>1, <1>3, <1>6, <1>11, <2>1
<1>13. availBytes' \in Nat
  BY <1>1, <1>4
<1>14. TypeOK'
  BY <1>0, <1>5, <1>6, <1>9, <1>11, <1>13 DEF TypeOK
<1>15. SackListTrue'
  <2>1. {s \in Bytes(data') : s > nextRxSeq} = {s \in Bytes(data) : s > nextRxSeq}
    <3>1. \A s \in Bytes(data) : s \in Int
      BY <1>1, InBytes
    <3>2. \A s \in Bytes(data) : s > nextRxSeq => s >= Base + n
      BY <1>1, <1>2, <3>1
    <3> QED
      BY <1>6, <3>2
  <2> QED
    BY <1>0, <1>5, <2>1 DEF SackListTrue
<1>16. HeldOK'
  <2>1. GotFin' => nextRxSeq' # StreamEnd
    BY <1>5 DEF RInv, HeldOK, GotFin
  <2> QED
    BY <1>1, <1>2, <1>7, <1>9, <1>10, <1>11, <1>12, <2>1 DEF HeldOK
<1>17. Removal
  BY <1>5, <1>7, <1>8 DEF Removal
<1> QED
  BY <1>6, <1>14, <1>15, <1>16, <1>17 DEF RInv

LEMMA InitOK == Init => RInv
<1> SUFFICES ASSUME Init PROVE RInv
  OBVIOUS
<1>1. /\ data = <<>> /\ sackList = <<>> /\ nextRxSeq = 1 /\ finSeq = NoFin /\ size = 0
      /\ availBytes = 0 /\ edge = 1 + MaxBuffer /\ arrived = {} /\ truncated = FALSE
  BY DEF Init
<1>2. Bytes(data) = {} /\ Bytes(sackList) = {} /\ data \in Seq(Block) /\ sackList \in Seq(Block)
  BY <1>1, NoBytes
<1>3. TypeOK
  <2>1. nextRxSeq \in SeqNum /\ size \in Nat /\ availBytes \in Nat /\ edge \in Nat
    BY <1>1, StreamAssumption, BufferAssumption DEF SeqNum
  <2> QED
    BY <1>1, <1>2, <2>1 DEF TypeOK
<1>4. InOrder(data)
  BY <1>1 DEF InOrder
<1>5. SackListTrue
  <2>1. Len(sackList) <= MaxBlocks
    BY <1>1, BlocksAssumption
  <2> QED
    BY <1>2, <2>1 DEF SackListTrue
<1>6. Position = 1 /\ Base = 1
  BY <1>1 DEF Position, Base, Finished, GotFin
<1>7. HeldOK
  <2>1. Cardinality(Bytes(data)) = 0
    BY <1>2, FS_EmptySet
  <2>2. 1 <= StreamEnd
    BY StreamAssumption
  <2>3. 1 .. 1 - 1 = {}
    OBVIOUS
  <2> QED
    BY <1>1, <1>2, <1>6, <2>1, <2>2, <2>3, BufferAssumption DEF HeldOK, GotFin
<1> QED
  BY <1>3, <1>4, <1>5, <1>7 DEF RInv

LEMMA OpenWindow ==
  ASSUME RInv, finSeq = NoFin
  PROVE  MaxRxSequence(data, nextRxSeq, NoFin) = Base + MaxBuffer
<1>1. Position = nextRxSeq /\ nextRxSeq \in Int /\ availBytes \in Nat
  BY DEF Position, Finished, GotFin, RInv, TypeOK, SeqNum
<1>2. Base \in Int /\ Base <= nextRxSeq
  BY <1>1 DEF Base
<1>3. /\ data \in Seq(Block) /\ InOrder(data)
      /\ Base .. nextRxSeq - 1 \subseteq Bytes(data)
      /\ \A s \in Bytes(data) : s >= Base
  BY <1>1, <1>2, StreamAssumption DEF RInv, TypeOK, HeldOK
<1> QED
  BY <1>1, <1>2, <1>3, WindowIs

\* A segment that OutOfRange refuses brings nothing that is not held.
LEMMA RefusedIsOld ==
  ASSUME RInv, NEW head \in 1 .. StreamEnd, NEW tail \in 1 .. StreamEnd,
         head < tail, tail <= edge, OutOfRange(head, tail)
  PROVE  \A s \in head .. tail - 1 : ~(s >= nextRxSeq)
<1>0. /\ TypeOK /\ data \in Seq(Block) /\ InOrder(data)
      /\ finSeq \in {NoFin, StreamEnd} /\ StreamEnd \in Nat \ {0} /\ nextRxSeq \in Int
      /\ edge \in Int /\ MaxBuffer \in Int /\ availBytes \in Nat
  BY StreamAssumption, BufferAssumption DEF RInv, TypeOK, SeqNum
<1>1. CASE Finished
  <2>1. StreamEnd < nextRxSeq
    BY <1>0, <1>1 DEF Finished, GotFin
  <2> QED
    BY <1>0, <2>1
<1>2. CASE ~Finished /\ tail < nextRxSeq
  BY <1>0, <1>2
<1>3. CASE ~Finished /\ ~(tail < nextRxSeq)
  <2>1. MaxRxSequence(data, nextRxSeq, finSeq) <= head
    BY <1>3 DEF OutOfRange
  <2>2. CASE finSeq # NoFin
    <3>1. MaxRxSequence(data, nextRxSeq, finSeq) = StreamEnd
      BY <1>0, <2>2 DEF MaxRxSequence
    <3> QED
      BY <1>0, <2>1, <3>1
  <2>3. CASE finSeq = NoFin
    <3>1. MaxRxSequence(data, nextRxSeq, NoFin) = Base + MaxBuffer
      BY <2>3, OpenWindow
    <3>2. Base \in Int /\ edge <= Base + MaxBuffer
      BY <1>0 DEF RInv, HeldOK, Base, Position
    <3> QED
      BY <1>0, <2>1, <2>3, <3>1, <3>2
  <2> QED
    BY <2>2, <2>3
<1> QED
  BY <1>1, <1>2, <1>3

\* What an arrival may do: a segment inside the window is kept, and its FIN.
Arrival ==
  \E head, tail \in 1 .. StreamEnd :
    /\ tail <= edge /\ Keeps(head, tail)
    /\ \/ /\ head < tail
          /\ arrived' = arrived \cup (head .. tail - 1) /\ finSeq' = finSeq
       \/ /\ tail = StreamEnd
          /\ arrived' = arrived \cup (head .. StreamEnd) /\ finSeq' = StreamEnd

LEMMA DataIsArrival ==
  ASSUME RInv, ReceivedData
  PROVE  RInv' /\ Arrival
<1>0. /\ finSeq \in {NoFin, StreamEnd} /\ StreamEnd \in Nat \ {0} /\ nextRxSeq \in Int
      /\ edge \in Int /\ MaxBuffer \in Int /\ arrived \subseteq 1 .. StreamEnd
  BY StreamAssumption, BufferAssumption DEF RInv, TypeOK, SeqNum
<1>1. PICK head \in 1 .. StreamEnd, tail \in 1 .. StreamEnd :
        /\ head < tail /\ tail <= edge
        /\ arrived' = arrived \cup (head .. tail - 1)
        /\ IF OutOfRange(head, tail) THEN UNCHANGED bufferVars ELSE Add(head, tail, finSeq)
  BY DEF ReceivedData
<1>2. finSeq' = finSeq
  BY DEF ReceivedData
<1>3. arrived' \subseteq 1 .. StreamEnd
  BY <1>0, <1>1
<1>4. CASE ~OutOfRange(head, tail)
  <2>1. ~Finished
    <3> SUFFICES ASSUME Finished PROVE FALSE
      OBVIOUS
    <3>1. finSeq = StreamEnd /\ finSeq < nextRxSeq
      BY <1>0 DEF Finished, GotFin
    <3>2. head = nextRxSeq
      BY <1>4 DEF OutOfRange
    <3> QED
      BY <1>0, <3>1, <3>2
  <2>2. finSeq # NoFin => nextRxSeq # StreamEnd
    BY DEF RInv, HeldOK, GotFin
  <2>3. RInv' /\ Keeps(head, tail)
    BY <1>0, <1>1, <1>2, <1>3, <1>4, <2>1, <2>2, AddKeeps
  <2> QED
    BY <1>1, <1>2, <2>3 DEF Arrival
<1>5. CASE OutOfRange(head, tail)
  <2>1. UNCHANGED <<data, sackList, nextRxSeq, finSeq, size, availBytes, edge, truncated>>
    BY <1>1, <1>2, <1>5 DEF bufferVars
  <2>2. RInv' /\ Base' = Base
    BY <1>3, <2>1 DEF RInv, TypeOK, InOrder, SackListTrue, HeldOK, Base, Position,
                      Finished, GotFin
  <2>3. \A s \in head .. tail - 1 : ~(s >= nextRxSeq)
    BY <1>1, <1>5, RefusedIsOld
  <2>4. Keeps(head, tail)
    <3>1. {s \in head .. tail - 1 : s >= nextRxSeq} = {}
      BY <2>3
    <3> QED
      BY <2>1, <2>2, <3>1 DEF Keeps
  <2> QED
    BY <1>1, <1>2, <2>2, <2>4 DEF Arrival
<1> QED
  BY <1>4, <1>5

LEMMA FinIsArrival ==
  ASSUME RInv, PeerClose
  PROVE  RInv' /\ Arrival
<1>0. /\ StreamEnd \in Nat \ {0} /\ nextRxSeq \in Int /\ arrived \subseteq 1 .. StreamEnd
      /\ StreamEnd \in 1 .. StreamEnd /\ StreamEnd \in {NoFin, StreamEnd}
  BY StreamAssumption DEF RInv, TypeOK, SeqNum
<1>1. PICK head \in 1 .. StreamEnd :
        /\ nextRxSeq <= head
        /\ finSeq' = StreamEnd /\ arrived' = arrived \cup (head .. StreamEnd)
        /\ IF head < StreamEnd THEN Add(head, StreamEnd, StreamEnd)
           ELSE /\ nextRxSeq' = Past(nextRxSeq, StreamEnd)
                /\ UNCHANGED <<data, sackList, size, availBytes, edge, truncated>>
  BY DEF PeerClose
<1>2. StreamEnd <= edge /\ ~Finished
  BY DEF PeerClose
<1>3. arrived' \subseteq 1 .. StreamEnd
  BY <1>0, <1>1
<1>4. RInv' /\ Keeps(head, StreamEnd)
  <2>1. CASE head < StreamEnd
    <3>1. nextRxSeq # StreamEnd
      BY <1>0, <1>1, <2>1
    <3> QED
      BY <1>0, <1>1, <1>2, <1>3, <2>1, <3>1, AddKeeps
  <2>2. CASE ~(head < StreamEnd)
    <3>1. head = StreamEnd
      BY <1>0, <2>2
    <3> QED
      BY <1>1, <1>2, <1>3, <2>2, <3>1, FinKeeps
  <2> QED
    BY <2>1, <2>2
<1> QED
  BY <1>0, <1>1, <1>2, <1>4 DEF Arrival

\* Every step is an arrival or a read, and keeps the invariant.
LEMMA StepOK ==
  ASSUME RInv, Next
  PROVE  RInv' /\ (Arrival \/ Removal)
BY DataIsArrival, FinIsArrival, ExtractIsRemoval DEF Next

LEMMA Invariance == Spec => []RInv
<1>1. RInv /\ [Next]_vars => RInv'
  <2> SUFFICES ASSUME RInv, [Next]_vars PROVE RInv'
    OBVIOUS
  <2>1. CASE Next
    BY <2>1, StepOK
  <2>2. CASE UNCHANGED vars
    BY <2>2 DEF vars, bufferVars, RInv, TypeOK, InOrder, SackListTrue, HeldOK, Base,
                Position, Finished, GotFin
  <2> QED
    BY <2>1, <2>2
<1> QED
  BY InitOK, <1>1, PTL DEF Spec

\* The stored packets are disjoint and in order whatever the overlaps of the segments
\* that Add has cut, and the SACK list tells the truth about them (Add,
\* UpdateSackList, ClearSackList).
THEOREM ListsAreSound == Spec => []ListsSound
<1>1. RInv => ListsSound
  <2> SUFFICES ASSUME RInv PROVE ListsSound
    OBVIOUS
  <2>1. DataDisjoint
    <3> SUFFICES ASSUME NEW i \in 1 .. Len(data) - 1 PROVE data[i].tail <= data[i + 1].head
      BY DEF DataDisjoint
    <3>1. Len(data) \in Nat
      BY DEF RInv, TypeOK
    <3>2. i + 1 \in 1 .. Len(data) /\ i \in 1 .. (i + 1) - 1
      BY <3>1
    <3> QED
      BY <3>2 DEF RInv, InOrder
  <2> QED
    BY <2>1 DEF RInv, ListsSound
<1> QED
  BY <1>1, Invariance, PTL

-----------------------------------------------------------------------------
(* The buffer implements ByteStream *)

\* What has arrived is what was read, what is held, and the FIN.
ArrivedOK ==
  /\ StreamEnd \in arrived <=> GotFin
  /\ \A s \in 1 .. StreamEnd - 1 : s \in arrived <=> s < Base \/ s \in Bytes(data)

StreamInv == RInv /\ ArrivedOK

LEMMA StateFacts ==
  ASSUME RInv
  PROVE  /\ StreamEnd \in Nat \ {0} /\ MaxBuffer \in Int /\ arrived \subseteq 1 .. StreamEnd
         /\ nextRxSeq \in 1 .. StreamEnd + 1 /\ availBytes \in Nat /\ edge \in Int
         /\ finSeq \in {NoFin, StreamEnd} /\ NoFin # StreamEnd
         /\ Base \in Int /\ Position \in Int /\ 1 <= Base /\ Base <= Position
         /\ Position <= StreamEnd /\ availBytes = Position - Base
         /\ IF Finished THEN Position = StreamEnd /\ nextRxSeq = StreamEnd + 1 /\ GotFin
                        ELSE nextRxSeq = Position
         /\ Bytes(data) \subseteq Base .. StreamEnd - 1
         /\ Base .. Position - 1 \subseteq Bytes(data)
         /\ Position \notin Bytes(data)
<1>1. /\ StreamEnd \in Nat \ {0} /\ MaxBuffer \in Int /\ arrived \subseteq 1 .. StreamEnd
      /\ nextRxSeq \in 1 .. StreamEnd + 1 /\ availBytes \in Nat /\ edge \in Int
      /\ finSeq \in {NoFin, StreamEnd} /\ NoFin # StreamEnd
  BY StreamAssumption, BufferAssumption DEF RInv, TypeOK, SeqNum, NoFin
<1>2. /\ Base >= 1 /\ Position <= StreamEnd
      /\ Bytes(data) \subseteq Base .. StreamEnd - 1
      /\ Base .. Position - 1 \subseteq Bytes(data)
      /\ Position \notin Bytes(data)
  BY DEF RInv, HeldOK
<1>3. IF Finished THEN Position = StreamEnd /\ nextRxSeq = StreamEnd + 1 /\ GotFin
                  ELSE nextRxSeq = Position
  BY <1>1 DEF Finished, GotFin, Position
<1>4. /\ Base \in Int /\ Position \in Int /\ Base <= Position /\ availBytes = Position - Base
  BY <1>1 DEF Base, Position
<1> QED
  BY <1>1, <1>2, <1>3, <1>4

\* An arrival makes what has arrived and what is held grow by the same bytes.
LEMMA ArrivalKeepsArrived ==
  ASSUME RInv, ArrivedOK, Arrival
  PROVE  ArrivedOK'
<1>0. /\ StreamEnd \in Nat \ {0} /\ arrived \subseteq 1 .. StreamEnd /\ NoFin # StreamEnd
      /\ nextRxSeq \in 1 .. StreamEnd + 1 /\ Base \in Int /\ Position \in Int
      /\ Base .. Position - 1 \subseteq Bytes(data)
      /\ Position <= StreamEnd /\ (nextRxSeq = Position \/ Position = StreamEnd)
  BY StateFacts
<1>1. PICK head \in 1 .. StreamEnd, tail \in 1 .. StreamEnd :
        /\ Keeps(head, tail)
        /\ \/ /\ head < tail
              /\ arrived' = arrived \cup (head .. tail - 1) /\ finSeq' = finSeq
           \/ /\ tail = StreamEnd
              /\ arrived' = arrived \cup (head .. StreamEnd) /\ finSeq' = StreamEnd
  BY DEF Arrival
<1>2. /\ Base' = Base
      /\ Bytes(data)' = Bytes(data) \cup {s \in head .. tail - 1 : s >= nextRxSeq}
  BY <1>1 DEF Keeps
<1>3. StreamEnd \in arrived' <=> GotFin'
  <2>1. StreamEnd \in arrived <=> finSeq # NoFin
    BY DEF ArrivedOK, GotFin
  <2>2. StreamEnd \in arrived' <=> finSeq' # NoFin
    BY <1>0, <1>1, <2>1
  <2> QED
    BY <2>2 DEF GotFin
<1>4. ASSUME NEW s \in 1 .. StreamEnd - 1
      PROVE  s \in arrived' <=> s < Base \/ s \in Bytes(data)'
  <2>1. s \in arrived <=> s < Base \/ s \in Bytes(data)
    BY DEF ArrivedOK
  <2>2. s \in arrived' <=> s \in arrived \/ s \in head .. tail - 1
    BY <1>0, <1>1
  <2>3. s < nextRxSeq => s < Base \/ s \in Bytes(data)
    BY <1>0
  <2>4. s >= nextRxSeq \/ s < nextRxSeq
    BY <1>0
  <2> QED
    BY <1>2, <2>1, <2>2, <2>3, <2>4
<1> QED
  BY <1>2, <1>3, <1>4 DEF ArrivedOK

LEMMA RemovalKeepsArrived ==
  ASSUME RInv, ArrivedOK, Removal
  PROVE  ArrivedOK'
<1>0. Base \in Int /\ Position \in Int /\ availBytes = Position - Base
      /\ Base .. Position - 1 \subseteq Bytes(data) /\ StreamEnd \in Nat
      /\ Bytes(data) \subseteq Base .. StreamEnd - 1
  BY StateFacts
<1>1. PICK n \in 1 .. availBytes : /\ Base' = Base + n
                                   /\ Bytes(data)' = Bytes(data) \ (Base .. Base + n - 1)
  BY DEF Removal
<1>2. arrived' = arrived /\ GotFin' = GotFin
  BY DEF Removal, GotFin
<1>3. ASSUME NEW s \in 1 .. StreamEnd - 1
      PROVE  s \in arrived <=> s < Base + n \/ s \in Bytes(data) \ (Base .. Base + n - 1)
  <2>1. s \in arrived <=> s < Base \/ s \in Bytes(data)
    BY DEF ArrivedOK
  <2>2. s \in Base .. Base + n - 1 => s \in Bytes(data)
    BY <1>0
  <2> QED
    BY <1>0, <2>1, <2>2
<1>4. \A s \in 1 .. StreamEnd - 1 : s \in arrived' <=> s < Base' \/ s \in Bytes(data)'
  BY <1>1, <1>2, <1>3
<1>5. StreamEnd \in arrived' <=> GotFin'
  BY <1>2 DEF ArrivedOK
<1> QED
  BY <1>4, <1>5 DEF ArrivedOK

LEMMA StreamInvariance == Spec => []StreamInv
<1>1. Init => StreamInv
  <2> SUFFICES ASSUME Init PROVE StreamInv
    OBVIOUS
  <2>1. RInv /\ arrived = {} /\ ~GotFin
    BY InitOK DEF Init, GotFin
  <2>2. Base = 1 /\ Bytes(data) = {}
    BY NoBytes DEF Init, Base, Position, Finished, GotFin
  <2>3. \A s \in 1 .. StreamEnd - 1 : ~(s < 1)
    OBVIOUS
  <2> QED
    BY <2>1, <2>2, <2>3 DEF StreamInv, ArrivedOK
<1>2. StreamInv /\ [Next]_vars => StreamInv'
  <2> SUFFICES ASSUME RInv, ArrivedOK, [Next]_vars PROVE StreamInv'
    BY DEF StreamInv
  <2>1. CASE Next
    BY <2>1, StepOK, ArrivalKeepsArrived, RemovalKeepsArrived DEF StreamInv
  <2>2. CASE UNCHANGED vars
    BY <2>2 DEF vars, bufferVars, StreamInv, ArrivedOK, RInv, TypeOK, InOrder, SackListTrue,
                HeldOK, Base, Position, Finished, GotFin
  <2> QED
    BY <2>1, <2>2
<1> QED
  BY <1>1, <1>2, PTL DEF Spec

LEMMA MissingIs ==
  ASSUME NEW held, NEW p \in 1 .. StreamEnd + 1, p \notin held, 1 .. p - 1 \subseteq held
  PROVE  Stream!FirstMissing(held) = p
<1>0. StreamEnd \in Int /\ p \in Int
  BY StreamAssumption
<1> DEFINE Free(k) == k \notin held /\ 1 .. k - 1 \subseteq held
<1>1. Free(p)
  OBVIOUS
<1>2. ASSUME NEW k \in 1 .. StreamEnd + 1, Free(k) PROVE k = p
  <2>1. ~(k < p)
    <3> SUFFICES ASSUME k < p PROVE FALSE
      OBVIOUS
    <3>1. k \in 1 .. p - 1
      BY <1>0
    <3> QED
      BY <1>2, <3>1
  <2>2. ~(p < k)
    <3> SUFFICES ASSUME p < k PROVE FALSE
      OBVIOUS
    <3>1. p \in 1 .. k - 1
      BY <1>0
    <3> QED
      BY <1>2, <3>1
  <2> QED
    BY <1>0, <2>1, <2>2
<1> DEFINE k == CHOOSE j \in 1 .. StreamEnd + 1 : Free(j)
<1>3. k \in 1 .. StreamEnd + 1 /\ Free(k)
  <2> HIDE DEF Free
  <2> QED
    BY <1>1
<1> HIDE DEF Free
<1>4. k = p
  BY <1>2, <1>3
<1> QED
  BY <1>4 DEF Stream!FirstMissing, Free

\* What ByteStream says of every state: with the first byte that was not read, what
\* has arrived determines what is stored, acknowledged, offered and to be read.
StreamState ==
  \E b \in Int :
    /\ b = Base /\ nextRxSeq - availBytes - (IF Finished THEN 1 ELSE 0) = b
    /\ Bytes(data) = {s \in arrived : b <= s /\ s < StreamEnd}
    /\ nextRxSeq = Stream!FirstMissing(arrived)
    /\ MaxRxSequence(data, nextRxSeq, finSeq)
         = IF StreamEnd \in arrived THEN StreamEnd ELSE b + MaxBuffer
    /\ size = Stream!Cardinality(Bytes(data))
    /\ availBytes = (IF nextRxSeq > StreamEnd THEN StreamEnd ELSE nextRxSeq) - b

LEMMA Mapped == StreamInv => StreamState
<1> SUFFICES ASSUME RInv, ArrivedOK PROVE StreamState
  BY DEF StreamInv
<1>1. /\ StreamEnd \in Nat \ {0} /\ MaxBuffer \in Int /\ arrived \subseteq 1 .. StreamEnd
      /\ nextRxSeq \in 1 .. StreamEnd + 1 /\ availBytes \in Nat
      /\ finSeq \in {NoFin, StreamEnd} /\ NoFin # StreamEnd
      /\ Base \in Int /\ Position \in Int /\ 1 <= Base /\ Base <= Position
      /\ Position <= StreamEnd /\ availBytes = Position - Base
      /\ IF Finished THEN Position = StreamEnd /\ nextRxSeq = StreamEnd + 1 /\ GotFin
                     ELSE nextRxSeq = Position
      /\ Bytes(data) \subseteq Base .. StreamEnd - 1
      /\ Base .. Position - 1 \subseteq Bytes(data)
      /\ Position \notin Bytes(data)
  BY StateFacts
<1>2. /\ StreamEnd \in arrived <=> GotFin
      /\ \A s \in 1 .. StreamEnd - 1 : s \in arrived <=> s < Base \/ s \in Bytes(data)
      /\ GotFin => nextRxSeq # StreamEnd
  BY DEF ArrivedOK, RInv, HeldOK
<1>3. nextRxSeq - availBytes - (IF Finished THEN 1 ELSE 0) = Base
  BY <1>1
<1>4. Bytes(data) = {s \in arrived : Base <= s /\ s < StreamEnd}
  <2> DEFINE K == {s \in arrived : Base <= s /\ s < StreamEnd}
  <2>1. ASSUME NEW s \in Bytes(data) PROVE s \in K
    <3>1. s \in 1 .. StreamEnd - 1 /\ Base <= s /\ s < StreamEnd
      BY <1>1
    <3> QED
      BY <1>2, <3>1
  <2>2. ASSUME NEW s \in K PROVE s \in Bytes(data)
    <3>1. s \in arrived /\ s \in 1 .. StreamEnd - 1 /\ ~(s < Base)
      BY <1>1
    <3> QED
      BY <1>2, <3>1
  <2> HIDE DEF K
  <2>3. Bytes(data) = K
    BY <2>1, <2>2
  <2> QED
    BY <2>3 DEF K
<1>5. nextRxSeq = Stream!FirstMissing(arrived)
  <2>1. nextRxSeq \notin arrived
    <3>1. CASE Finished
      BY <1>1, <3>1
    <3>2. CASE ~Finished
      <4>1. nextRxSeq = Position
        BY <1>1, <3>2
      <4>2. CASE Position = StreamEnd
        BY <1>2, <4>1, <4>2
      <4>3. CASE Position # StreamEnd
        <5>1. Position \in 1 .. StreamEnd - 1 /\ ~(Position < Base)
          BY <1>1, <4>3
        <5> QED
          BY <1>1, <1>2, <4>1, <5>1
      <4> QED
        BY <4>2, <4>3
    <3> QED
      BY <3>1, <3>2
  <2>2. ASSUME NEW s \in 1 .. nextRxSeq - 1 PROVE s \in arrived
    <3>1. CASE s = StreamEnd
      <4>1. Finished
        BY <1>1, <3>1
      <4> QED
        BY <1>1, <1>2, <3>1, <4>1
    <3>2. CASE s # StreamEnd
      <4>1. s \in 1 .. StreamEnd - 1 /\ s < Position
        BY <1>1, <3>2
      <4>2. s < Base \/ s \in Base .. Position - 1
        BY <1>1, <4>1
      <4> QED
        BY <1>1, <1>2, <4>1, <4>2
    <3> QED
      BY <3>1, <3>2
  <2>3. 1 .. nextRxSeq - 1 \subseteq arrived
    BY <2>2
  <2> QED
    BY <1>1, <2>1, <2>3, MissingIs
<1>6. MaxRxSequence(data, nextRxSeq, finSeq)
        = IF StreamEnd \in arrived THEN StreamEnd ELSE Base + MaxBuffer
  <2>1. CASE finSeq = NoFin
    BY <1>2, <2>1, OpenWindow DEF GotFin
  <2>2. CASE finSeq # NoFin
    BY <1>1, <1>2, <2>2 DEF GotFin, MaxRxSequence
  <2> QED
    BY <2>1, <2>2
<1>7. size = Stream!Cardinality(Bytes(data))
  <2>1. Cardinality(Bytes(data)) = Stream!Cardinality(Bytes(data))
    BY Zenon DEF Cardinality, Stream!Cardinality
  <2>2. size = Cardinality(Bytes(data))
    BY DEF RInv, HeldOK
  <2> QED
    BY <2>1, <2>2, Zenon
<1>8. availBytes = (IF nextRxSeq > StreamEnd THEN StreamEnd ELSE nextRxSeq) - Base
  BY <1>1
<1> QED
  BY <1>1, <1>3, <1>4, <1>5, <1>6, <1>7, <1>8 DEF StreamState

LEMMA MappedNext == StreamInv' => StreamState'
BY Mapped, PTL

LEMMA Reports == StreamState' => Stream!Report
<1> SUFFICES ASSUME StreamState' PROVE Stream!Report
  OBVIOUS
<1>1. PICK b \in Int :
        /\ (nextRxSeq - availBytes - (IF Finished THEN 1 ELSE 0))' = b
        /\ Bytes(data)' = {s \in arrived' : b <= s /\ s < StreamEnd}
        /\ nextRxSeq' = Stream!FirstMissing(arrived')
        /\ MaxRxSequence(data, nextRxSeq, finSeq)'
             = IF StreamEnd \in arrived' THEN StreamEnd ELSE b + MaxBuffer
        /\ size' = Stream!Cardinality(Bytes(data)')
        /\ availBytes' = (IF nextRxSeq' > StreamEnd THEN StreamEnd ELSE nextRxSeq') - b
  BY DEF StreamState
<1> QED
  BY <1>1 DEF Stream!Report

\* The segment is inside the window that MaxRxSequence gives.
LEMMA ArrivalIsArrive ==
  ASSUME RInv, StreamState, StreamState', Arrival
  PROVE  Stream!Arrive
<1>0. /\ StreamEnd \in Nat \ {0} /\ MaxBuffer \in Int /\ edge \in Int /\ Base \in Int
      /\ finSeq \in {NoFin, StreamEnd}
  BY StateFacts
<1>1. PICK head \in 1 .. StreamEnd, tail \in 1 .. StreamEnd :
        /\ tail <= edge /\ Keeps(head, tail)
        /\ \/ head < tail /\ arrived' = arrived \cup (head .. tail - 1)
           \/ tail = StreamEnd /\ arrived' = arrived \cup (head .. StreamEnd)
  BY DEF Arrival
<1> DEFINE max == MaxRxSequence(data, nextRxSeq, finSeq)
<1>2. max \in Int /\ tail <= max
  <2>1. CASE finSeq = NoFin
    <3>1. max = Base + MaxBuffer
      BY <2>1, OpenWindow
    <3>2. edge <= Base + MaxBuffer
      BY DEF RInv, HeldOK
    <3> QED
      BY <1>0, <1>1, <3>1, <3>2
  <2>2. CASE finSeq # NoFin
    <3>1. max = StreamEnd
      BY <1>0, <2>2 DEF MaxRxSequence
    <3> QED
      BY <1>0, <3>1
  <2> QED
    BY <2>1, <2>2
<1> HIDE DEF max
<1>3. \E h, t \in 1 .. StreamEnd + 1 :
        /\ h < t /\ (h .. t - 1) \ {StreamEnd} \subseteq 1 .. max - 1
        /\ arrived' = arrived \cup (h .. t - 1)
  <2>1. CASE head < tail /\ arrived' = arrived \cup (head .. tail - 1)
    <3>1. /\ head \in 1 .. StreamEnd + 1 /\ tail \in 1 .. StreamEnd + 1
          /\ (head .. tail - 1) \ {StreamEnd} \subseteq 1 .. max - 1
      BY <1>0, <1>2
    <3> QED
      BY <2>1, <3>1
  <2>2. CASE tail = StreamEnd /\ arrived' = arrived \cup (head .. StreamEnd)
    <3>1. /\ head \in 1 .. StreamEnd + 1 /\ StreamEnd + 1 \in 1 .. StreamEnd + 1
          /\ head < StreamEnd + 1 /\ (StreamEnd + 1) - 1 = StreamEnd
          /\ (head .. StreamEnd) \ {StreamEnd} \subseteq 1 .. max - 1
      BY <1>0, <1>2, <2>2
    <3> QED
      BY <2>2, <3>1
  <2> QED
    BY <1>1, <2>1, <2>2
<1>4. Stream!Report
  BY Reports
<1>5. (nextRxSeq - availBytes - (IF Finished THEN 1 ELSE 0))'
        = nextRxSeq - availBytes - (IF Finished THEN 1 ELSE 0)
  <2>1. Base' = Base
    BY <1>1 DEF Keeps
  <2>2. nextRxSeq - availBytes - (IF Finished THEN 1 ELSE 0) = Base
    BY DEF StreamState
  <2>3. (nextRxSeq - availBytes - (IF Finished THEN 1 ELSE 0))' = Base'
    BY DEF StreamState
  <2> QED
    BY <2>1, <2>2, <2>3
<1> QED
  BY <1>3, <1>4, <1>5 DEF Stream!Arrive, max

LEMMA RemovalIsRead ==
  ASSUME StreamState, StreamState', Removal
  PROVE  Stream!Read
<1>1. Stream!Report
  BY Reports
<1>2. /\ nextRxSeq - availBytes - (IF Finished THEN 1 ELSE 0) = Base
      /\ (nextRxSeq - availBytes - (IF Finished THEN 1 ELSE 0))' = Base'
  BY DEF StreamState
<1>3. (\E n \in 1 .. availBytes : Base' = Base + n) /\ arrived' = arrived
  BY DEF Removal
<1> QED
  BY <1>1, <1>2, <1>3 DEF Stream!Read

LEMMA InitIsInit == Init => Stream!Init
<1> SUFFICES ASSUME Init PROVE Stream!Init
  OBVIOUS
<1>1. /\ data = <<>> /\ nextRxSeq = 1 /\ size = 0 /\ availBytes = 0 /\ arrived = {}
      /\ finSeq = NoFin /\ ~Finished
  BY DEF Init, Finished, GotFin
<1>2. Bytes(data) = {}
  BY <1>1, NoBytes
<1>3. nextRxSeq - availBytes - (IF Finished THEN 1 ELSE 0) = 1
  BY <1>1
<1>4. MaxRxSequence(data, nextRxSeq, finSeq) = 1 + MaxBuffer
  BY <1>1 DEF MaxRxSequence
<1> QED
  BY <1>1, <1>2, <1>3, <1>4 DEF Stream!Init

\* What the peer and the application see of the buffer is a byte stream.  After every
\* segment, however it was cut and in whatever order it came, the buffer holds all
\* that has arrived and is not read and nothing else; the position is the first byte,
\* or the FIN, that has not arrived; MaxRxSequence is the first byte not read plus the
\* buffer, which never decreases, until the FIN fixes it; and every byte is read once
\* and in order (OutOfRange, Add, Extract, PeerClose, MaxRxSequence).
THEOREM BufferImplementsStream == Spec => ImplementsStream
<1>1. StreamInv /\ StreamInv' /\ [Next]_vars => [Stream!Next]_(Stream!vars)
  <2> SUFFICES ASSUME StreamInv, StreamInv', [Next]_vars PROVE [Stream!Next]_(Stream!vars)
    OBVIOUS
  <2>0. RInv /\ StreamState /\ StreamState'
    BY Mapped, MappedNext DEF StreamInv
  <2>1. CASE Next
    <3>1. Arrival \/ Removal
      BY <2>0, <2>1, StepOK
    <3>2. CASE Arrival
      BY <2>0, <3>2, ArrivalIsArrive DEF Stream!Next
    <3>3. CASE Removal
      BY <2>0, <3>3, RemovalIsRead DEF Stream!Next
    <3> QED
      BY <3>1, <3>2, <3>3
  <2>2. CASE UNCHANGED vars
    BY <2>2 DEF vars, bufferVars, Stream!vars, Finished, GotFin, MaxRxSequence
  <2> QED
    BY <2>1, <2>2
<1> QED
  BY InitIsInit, <1>1, StreamInvariance, PTL DEF Spec, ImplementsStream, Stream!Spec
=============================================================================
