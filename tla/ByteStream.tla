----------------------------- MODULE ByteStream -----------------------------
(***************************************************************************)
(* What a receive buffer promises the two sides it stands between.  To the *)
(* peer: all that arrives inside the window is kept until it is read, only *)
(* what has arrived is acknowledged and all of it up to the first byte     *)
(* that is missing, and the window is not taken back before the FIN.  To   *)
(* the application: every byte once, in order, and the end of the stream   *)
(* after the last.                                                         *)
(*                                                                         *)
(* What has arrived and what is read determine everything the buffer holds *)
(* and reports: there is no other freedom.                                 *)
(***************************************************************************)
EXTENDS Integers, FiniteSets

CONSTANTS
  StreamEnd,  \* the sequence number of the FIN; bytes are 1 .. StreamEnd - 1
  Room        \* bytes the buffer holds

VARIABLES
  arrived,    \* sequence numbers that segments brought, the FIN's among them
  base,       \* first byte not read
  kept,       \* bytes stored
  next,       \* what is acknowledged
  edge,       \* where the window ends
  size,       \* bytes stored, as reported
  available   \* bytes to read, as reported
vars == <<arrived, base, kept, next, edge, size, available>>

FirstMissing(held) ==
  CHOOSE k \in 1 .. StreamEnd + 1 : k \notin held /\ 1 .. k - 1 \subseteq held

Init ==
  /\ arrived = {} /\ base = 1 /\ kept = {} /\ next = 1
  /\ edge = 1 + Room /\ size = 0 /\ available = 0

\* What the step left is stored and reported.  base never decreases, so nor does the
\* window, until the FIN fixes it.
Report ==
  /\ kept' = {s \in arrived' : base' <= s /\ s < StreamEnd}
  /\ next' = FirstMissing(arrived')
  /\ edge' = IF StreamEnd \in arrived' THEN StreamEnd ELSE base' + Room
  /\ size' = Cardinality(kept')
  /\ available' = (IF next' > StreamEnd THEN StreamEnd ELSE next') - base'

\* A segment arrives inside the window, with bytes, the FIN or both.
Arrive ==
  /\ \E head, tail \in 1 .. StreamEnd + 1 :
       /\ head < tail
       /\ (head .. tail - 1) \ {StreamEnd} \subseteq 1 .. edge - 1
       /\ arrived' = arrived \cup (head .. tail - 1)
  /\ base' = base
  /\ Report

Read ==
  /\ \E n \in 1 .. available : base' = base + n
  /\ arrived' = arrived
  /\ Report

Next == Arrive \/ Read

Spec == Init /\ [][Next]_vars
=============================================================================
