---------------------------- MODULE MarkingFifo ----------------------------
(***************************************************************************)
(* What an interface promises: packets leave in the order they were        *)
(* offered, each at most once; one that is offered may be refused, and one *)
(* that declares itself ECN-capable may be marked as it is admitted.       *)
(* Nothing is lost, marked or reordered after that.                        *)
(***************************************************************************)
EXTENDS Sequences

CONSTANT Packets

VARIABLE fifo

Admitted(pkt) ==
  {pkt} \cup IF pkt.ecn = "NotECT" THEN {} ELSE {[pkt EXCEPT !.ecn = "CE"]}

Admit == \E pkt \in Packets : \E kept \in Admitted(pkt) : fifo' = Append(fifo, kept)

Leave == fifo # <<>> /\ fifo' = Tail(fifo)

Init == fifo = <<>>

Next == Admit \/ Leave

Spec == Init /\ [][Next]_fifo
=============================================================================
