----------------------------- MODULE MCNvmeCtrlr -----------------------------
(* Values for TLC: the kinds of controllers. *)
EXTENDS NvmeCtrlr

Kind(f, d, l) == [fabrics |-> f, delay |-> d, loss |-> l, retry |-> TRUE]

SimpleKinds == {Kind(f, FALSE, FALSE) : f \in BOOLEAN}
AllKinds == SimpleKinds \cup {Kind(f, TRUE, l) : f \in BOOLEAN, l \in BOOLEAN}
=============================================================================
