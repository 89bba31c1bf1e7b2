---------------------------- MODULE TcpRxBuffer ----------------------------
(***************************************************************************)
(* The receive buffer of a TCP socket in bytes (tcp-rx-buffer.cc): the     *)
(* stored packets, the position, the FIN, and the SACK list, as            *)
(* ReceivedData, PeerClose and Recv of an ESTABLISHED socket use it.       *)
(*                                                                         *)
(* The peer keeps inside the window it was offered and may cut its data    *)
(* differently every time it sends it, so segments overlap in any way.     *)
(* A block is the half-open range [head, tail) of a packet's bytes.        *)
(***************************************************************************)
EXTENDS Integers, SequencesExt

CONSTANTS
  StreamEnd,  \* the sequence number of the FIN; bytes are 1 .. StreamEnd - 1
  MaxBuffer,  \* m_maxBuffer
  MaxBlocks   \* blocks in the SACK list; 4 in the code

ASSUME StreamAssumption == StreamEnd \in Nat \ {0}
ASSUME BufferAssumption == MaxBuffer \in Nat \ {0}
ASSUME BlocksAssumption == MaxBlocks \in Nat \ {0}

VARIABLES
  data,        \* m_data: blocks in the order of the map
  sackList,    \* m_sackList
  nextRxSeq, finSeq, size, availBytes,
  edge,        \* the peer's: the furthest end of a window it was offered
  arrived,     \* history: what the peer's segments brought; StreamEnd is the FIN
  truncated    \* history: a block was dropped from the SACK list
bufferVars == <<data, sackList, nextRxSeq, size, availBytes, edge, truncated>>
vars == <<bufferVars, finSeq, arrived>>

SeqNum == 1 .. StreamEnd + 1
NoFin == 0
Block == {b \in [head: SeqNum, tail: SeqNum] : b.head < b.tail}
Length(b) == b.tail - b.head
Bytes(blocks) == UNION {b.head .. b.tail - 1 : b \in ToSet(blocks)}

Lesser(a, b) == IF a < b THEN a ELSE b
Greater(a, b) == IF a > b THEN a ELSE b

GotFin == finSeq # NoFin
Finished == GotFin /\ finSeq < nextRxSeq

MaxRxSequence(blocks, nxt, fin) ==
  IF fin # NoFin THEN fin
  ELSE IF blocks # <<>> /\ nxt > blocks[1].head THEN blocks[1].head + MaxBuffer
  ELSE nxt + MaxBuffer

\* Faulty variant: a segment that ends where the window does is refused.
OutOfRangeAtEdge(head, tail) ==
  IF Finished THEN nextRxSeq # head
  ELSE tail < nextRxSeq \/ MaxRxSequence(data, nextRxSeq, finSeq) <= tail

\* A finished socket is in CLOSE_WAIT.
OutOfRange(head, tail) ==
  IF Finished THEN nextRxSeq # head
  ELSE tail < nextRxSeq \/ MaxRxSequence(data, nextRxSeq, finSeq) <= head

-----------------------------------------------------------------------------
(* Add *)

\* One stored block i against what is left of the packet, seg, which also has the
\* blocks passed that stay stored, and m_size.
Trim(seg, i) ==
  IF i.head > seg.tail \/ i.tail <= seg.head THEN [seg EXCEPT !.blocks = Append(@, i)]
  ELSE IF i.head > seg.head /\ i.tail < seg.tail
  THEN [seg EXCEPT !.size = @ - Length(i)]
  ELSE [seg EXCEPT !.blocks = Append(@, i),
                   !.head = IF i.head <= @ THEN i.tail ELSE @,
                   !.tail = IF i.tail >= @ THEN i.head ELSE @]

\* The packet cut to the window and to what is not stored.
Trimmed(head, tail) ==
  LET h == Greater(head, nextRxSeq)
      t == IF data = <<>> THEN tail ELSE Lesser(tail, data[1].head + MaxBuffer)
      walk[i \in 0 .. Len(data)] ==
        IF i = 0 THEN [head |-> Lesser(h, t), tail |-> t, blocks |-> <<>>, size |-> size]
        ELSE Trim(walk[i - 1], data[i])
  IN  walk[Len(data)]

\* The map has no block that starts where b does.
Stored(blocks, b) ==
  LET at == CHOOSE n \in 1 .. Len(blocks) + 1 :
              /\ \A k \in 1 .. n - 1 : blocks[k].head < b.head
              /\ \A k \in n .. Len(blocks) : b.head < blocks[k].head
  IN  InsertAt(blocks, at, b)

\* The front block joined with the first one that touches it.
MergeFront(list) ==
  LET front == list[1]
      touching == {k \in 2 .. Len(list) : \/ list[k].tail = front.head
                                         \/ front.tail = list[k].head}
      k == Min(touching)
  IN  IF touching = {} THEN list
      ELSE [RemoveAt(list, k) EXCEPT
              ![1] = [head |-> Lesser(front.head, list[k].head),
                      tail |-> Greater(front.tail, list[k].tail)]]

\* UpdateSackList before the list is cut, and after.
WithNewest(b) ==
  LET list[i \in 0 .. Len(sackList)] ==
        IF i = 0 THEN <<b>> \o sackList ELSE MergeFront(list[i - 1])
  IN  list[Len(sackList)]
UpdateSackList(b) ==
  IF Len(WithNewest(b)) > MaxBlocks THEN Front(WithNewest(b)) ELSE WithNewest(b)

\* Faulty variant: a block that ends at the position stays.
ClearSackListKeepsLast(list, seq) == SelectSeq(list, LAMBDA b : b.tail >= seq)

\* The blocks up to the position are erased.
ClearSackList(list, seq) ==
  LET left[i \in 0 .. Len(list)] ==
        IF i = 0 THEN <<>>
        ELSE IF list[i].tail <= seq THEN left[i - 1] ELSE Append(left[i - 1], list[i])
  IN  left[Len(list)]

\* The position moves over what is contiguous, and the bytes to read with it.
Advance(pos, i) ==
  IF i.head = pos.next THEN [next |-> i.tail, avail |-> pos.avail + Length(i)] ELSE pos
Advanced(blocks) ==
  LET walk[i \in 0 .. Len(blocks)] ==
        IF i = 0 THEN [next |-> nextRxSeq, avail |-> availBytes]
        ELSE Advance(walk[i - 1], blocks[i])
  IN  walk[Len(blocks)]

\* The FIN is counted by the byte that reaches it.
Past(nxt, fin) == IF fin # NoFin /\ nxt = fin THEN nxt + 1 ELSE nxt

Offered(blocks, nxt, fin) ==
  edge' = IF fin # NoFin THEN edge ELSE Greater(edge, MaxRxSequence(blocks, nxt, fin))

Add(head, tail, fin) ==
  LET seg == Trimmed(head, tail)
      b == [head |-> seg.head, tail |-> seg.tail]
      isGap == b.head > nextRxSeq
      list == IF isGap THEN UpdateSackList(b) ELSE sackList
      pos == Advanced(Stored(seg.blocks, b))
  IN  IF b.head >= b.tail
      THEN /\ data' = seg.blocks /\ size' = seg.size
           /\ UNCHANGED <<sackList, nextRxSeq, availBytes, edge, truncated>>
      ELSE /\ data' = Stored(seg.blocks, b)
           /\ size' = seg.size + Length(b)
           /\ nextRxSeq' = Past(pos.next, fin)
           /\ availBytes' = pos.avail
           /\ sackList' = IF pos.next > nextRxSeq THEN ClearSackList(list, pos.next) ELSE list
           /\ truncated' = (truncated \/ (isGap /\ Len(WithNewest(b)) > MaxBlocks))
           /\ Offered(data', nextRxSeq', fin)

-----------------------------------------------------------------------------
(* Actions *)

\* A data segment arrives: ReceivedData.  The peer does not send beyond the window.
ReceivedData ==
  /\ \E head, tail \in 1 .. StreamEnd :
       /\ head < tail /\ tail <= edge
       /\ arrived' = arrived \cup (head .. tail - 1)
       /\ IF OutOfRange(head, tail) THEN UNCHANGED bufferVars ELSE Add(head, tail, finSeq)
  /\ UNCHANGED finSeq

\* The segment with the FIN arrives, with data or without: PeerClose.  The sender
\* has then sent everything before it.
PeerClose ==
  /\ StreamEnd <= edge /\ ~Finished
  /\ \E head \in 1 .. StreamEnd :
       /\ head < StreamEnd => ~OutOfRange(head, StreamEnd)
       /\ nextRxSeq <= head /\ head <= MaxRxSequence(data, nextRxSeq, finSeq)
       /\ finSeq' = StreamEnd /\ arrived' = arrived \cup (head .. StreamEnd)
       /\ IF head < StreamEnd THEN Add(head, StreamEnd, StreamEnd)
          ELSE /\ nextRxSeq' = Past(nextRxSeq, StreamEnd)
               /\ UNCHANGED <<data, sackList, size, availBytes, edge, truncated>>

\* Packets leave whole from the front; the last one may be cut.
TakeFront(rest, i) ==
  IF rest.left = 0 THEN [rest EXCEPT !.data = Append(@, i)]
  ELSE IF Length(i) <= rest.left THEN [rest EXCEPT !.left = @ - Length(i)]
  ELSE [data |-> Append(rest.data, [i EXCEPT !.head = @ + rest.left]), left |-> 0]

Taken(n) ==
  LET walk[i \in 0 .. Len(data)] ==
        IF i = 0 THEN [data |-> <<>>, left |-> n] ELSE TakeFront(walk[i - 1], data[i])
  IN  walk[Len(data)].data

\* The application reads: Recv.
Extract ==
  /\ availBytes > 0
  /\ \E n \in 1 .. availBytes :
       /\ data' = Taken(n)
       /\ size' = size - n
       /\ availBytes' = availBytes - n
  /\ UNCHANGED <<sackList, nextRxSeq, finSeq, arrived, truncated>>
  /\ Offered(data', nextRxSeq, finSeq)

Init ==
  /\ data = <<>> /\ sackList = <<>>
  /\ nextRxSeq = 1 /\ finSeq = NoFin /\ size = 0 /\ availBytes = 0
  /\ edge = 1 + MaxBuffer /\ arrived = {} /\ truncated = FALSE

Next == ReceivedData \/ PeerClose \/ Extract

Spec == Init /\ [][Next]_vars

-----------------------------------------------------------------------------
(* Properties *)

TypeOK ==
  /\ data \in Seq(Block) /\ sackList \in Seq(Block)
  /\ nextRxSeq \in SeqNum /\ finSeq \in {NoFin, StreamEnd}
  /\ size \in Nat /\ availBytes \in Nat /\ edge \in Nat
  /\ arrived \subseteq 1 .. StreamEnd /\ truncated \in BOOLEAN

DataDisjoint == \A i \in 1 .. Len(data) - 1 : data[i].tail <= data[i + 1].head

SackListTrue ==
  LET beyond == {s \in Bytes(data) : s > nextRxSeq}
  IN  /\ Len(sackList) <= MaxBlocks
      /\ Bytes(sackList) \subseteq beyond
      /\ ~truncated => beyond \subseteq Bytes(sackList)

\* The stored packets and the SACK list are sound: packets are disjoint and in order,
\* however segments overlapped; the list reports only bytes that are held beyond the
\* position, and all of them as long as no block had to be dropped, although packets
\* it reports are replaced by larger ones and the list is not told.
ListsSound == TypeOK /\ DataDisjoint /\ SackListTrue

\* What the segments bring and the application reads is a byte stream (ByteStream):
\* after every segment, in whatever order and however cut, the buffer holds exactly
\* what has arrived and is not read, the position is the first byte or FIN that has
\* not arrived, and MaxRxSequence leaves room for all the buffer holds.
Stream == INSTANCE ByteStream WITH
  Room <- MaxBuffer, arrived <- arrived, kept <- Bytes(data), next <- nextRxSeq,
  edge <- MaxRxSequence(data, nextRxSeq, finSeq), size <- size,
  available <- availBytes, base <- nextRxSeq - availBytes - (IF Finished THEN 1 ELSE 0)
ImplementsStream == Stream!Spec
=============================================================================
