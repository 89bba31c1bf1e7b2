--------------------------- MODULE CumulativeAck ---------------------------
(***************************************************************************)
(* What a delaying TCP receiver promises, whatever it does about ECN:      *)
(* segments arrive in any order and any number of times, and the           *)
(* acknowledgment point only moves forward, never passes the first missing *)
(* segment, and never lags it by more than MaxDelayed segments.            *)
(***************************************************************************)
EXTENDS Integers

CONSTANTS MaxSeq, MaxDelayed

VARIABLES received, acked
vars == <<received, acked>>

Seg == 1 .. MaxSeq

Gap(held) == CHOOSE k \in 1 .. MaxSeq + 1 : k \notin held /\ 1 .. k - 1 \subseteq held

Init == received = {} /\ acked = 1

\* The acknowledgment point may stay or advance, within the bounds.
Advance ==
  /\ acked' \in acked .. Gap(received')
  /\ Gap(received') - acked' <= MaxDelayed

Arrive(s) == received' = received \cup {s} /\ Advance

Acknowledge == UNCHANGED received /\ Advance

Next == Acknowledge \/ \E s \in Seg : Arrive(s)

Spec == Init /\ [][Next]_vars
=============================================================================
