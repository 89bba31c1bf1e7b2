--------------------------- MODULE SlidingWindow ---------------------------
(***************************************************************************)
(* What a window-based sender promises, whatever its congestion control:   *)
(* the acknowledged prefix only grows, new data leaves in order and inside *)
(* the peer's window, and only what is outstanding is sent again.          *)
(***************************************************************************)
EXTENDS Integers, Sequences

CONSTANTS MaxSeq, RWnd

VARIABLES una, nxt, out
vars == <<una, nxt, out>>

Init == una = 1 /\ nxt = 1 /\ out = <<>>

\* A handler acknowledges up to una' and then sends the segments of out'.
Step ==
  /\ una' \in una .. nxt
  /\ nxt' \in nxt .. MaxSeq + 1
  /\ nxt' - una' <= RWnd
  /\ \A i \in DOMAIN out' :
       IF out'[i].retrans THEN out'[i].seq \in una' .. nxt' - 1
       ELSE out'[i].seq \in nxt .. nxt' - 1
  /\ \A s \in nxt .. nxt' - 1 :
       \E i \in DOMAIN out' :
         /\ out'[i].seq = s /\ ~out'[i].retrans
         /\ \A j \in DOMAIN out' :
              j # i /\ ~out'[j].retrans => (j < i <=> out'[j].seq < s)

Spec == Init /\ [][Step]_vars
=============================================================================
